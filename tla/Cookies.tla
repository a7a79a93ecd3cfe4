------------------------------- MODULE Cookies -------------------------------
(***************************************************************************)
(* The cookie commands (window_commands.cc).  A command reads the URL of   *)
(* the current frame, lists the cookies of that URL, and changes cookies   *)
(* one by one; in between the page may navigate and set or remove cookies  *)
(* itself, and ExecuteWindowCommand may run a command again that failed.   *)
(***************************************************************************)
EXTENDS Naturals, Sequences, FiniteSets, SequencesExt

CONSTANTS
  MaxCookieCommands,   \* bound: commands
  MaxPageActions       \* bound: navigations and cookies set or removed by pages

VARIABLES
  jar,             \* the browser's cookies: [name, labels, hostOnly, path]
  frameUrl,        \* the URL of the current frame: [scheme, host, path]
  cookieCall,      \* the command under way
  reach,           \* what happened since it began, see Began
  cookieCommands, pageActions

vars == <<jar, frameUrl, cookieCall, reach, cookieCommands, pageActions>>

\* A domain is a sequence of labels, top first; an address is one label.
Com == <<"com">>
Site == <<"com", "site">>
Shop == <<"com", "site", "shop">>
Other == <<"com", "other">>
Address == <<"address">>
Hosts == {Site, Shop, Other}
Documents ==
  {[scheme |-> "http", host |-> Site, path |-> "/"],
   [scheme |-> "http", host |-> Shop, path |-> "/a"],
   [scheme |-> "http", host |-> Other, path |-> "/"],
   [scheme |-> "about", host |-> <<>>, path |-> "/"]}

\* GURL::DomainIs, and what the browser shows to a page.
DomainIs(host, labels) == IsPrefix(labels, host)
PathMatches(path, cookiePath) == cookiePath = "/" \/ path = cookiePath
VisibleAt(c, url) ==
  /\ url.scheme = "http" /\ PathMatches(url.path, c.path)
  /\ IF c.hostOnly THEN c.labels = url.host ELSE DomainIs(url.host, c.labels)
Visible(url) == {c \in jar : VisibleAt(c, url)}

Cookie(name, labels, hostOnly, path) ==
  [name |-> name, labels |-> labels, hostOnly |-> hostOnly, path |-> path]
NoCookieCall ==
  [name |-> "none", step |-> "idle", wanted |-> "n", domain |-> <<>>, path |-> "/",
   url |-> [scheme |-> "about", host |-> <<>>, path |-> "/"], listed |-> {}, todo |-> {},
   w3c |-> TRUE, attempt |-> 0, answer |-> "none", blocked |-> FALSE]

\* What happened since a command began: the URLs that the frame has had, the cookies that were
\* there at first, those that pages set or removed and those that the command added and deleted.
Began(urls, before) ==
  [urls |-> urls, before |-> before, touched |-> {}, added |-> {}, deleted |-> {}]
NoReach == Began({}, {})

Init ==
  /\ jar = {Cookie("n", Site, FALSE, "/"), Cookie("n", Other, TRUE, "/")}
  /\ frameUrl = [scheme |-> "http", host |-> Site, path |-> "/"]
  /\ cookieCall = NoCookieCall /\ reach = NoReach
  /\ cookieCommands = 0 /\ pageActions = 0
-----------------------------------------------------------------------------
PageActs == pageActions < MaxPageActions /\ pageActions' = pageActions + 1
Witness(r) == reach' = IF cookieCall.step = "idle" THEN reach ELSE r

Navigate ==
  /\ PageActs /\ frameUrl' \in Documents \ {frameUrl}
  /\ Witness([reach EXCEPT !.urls = @ \cup {frameUrl'}])
  /\ UNCHANGED <<jar, cookieCall, cookieCommands>>

\* document.cookie
PageSetsCookie ==
  /\ PageActs /\ frameUrl.scheme = "http"
  /\ \E n \in {"n", "m"}, p \in {"/", "/a"} :
       LET c == Cookie(n, frameUrl.host, TRUE, p)
       IN /\ jar' = jar \cup {c} \/ jar' = jar \ {c}
          /\ Witness([reach EXCEPT !.touched = @ \cup {c}])
  /\ UNCHANGED <<frameUrl, cookieCall, cookieCommands>>
-----------------------------------------------------------------------------
Start(call) ==
  /\ cookieCall.step = "idle"
  /\ cookieCommands < MaxCookieCommands /\ cookieCommands' = cookieCommands + 1
  /\ cookieCall' = call /\ reach' = Began({frameUrl}, jar)
  /\ UNCHANGED <<jar, frameUrl, pageActions>>

GetCookies == Start([NoCookieCall EXCEPT !.name = "get", !.step = "getUrl"])
GetNamedCookie(n) ==
  Start([NoCookieCall EXCEPT !.name = "getNamed", !.step = "getUrl", !.wanted = n])
DeleteCookie(n) == Start([NoCookieCall EXCEPT !.name = "delete", !.step = "getUrl", !.wanted = n])
DeleteAllCookies == Start([NoCookieCall EXCEPT !.name = "deleteAll", !.step = "getUrl"])
AddCookie(d, p, w3c) ==
  Start([NoCookieCall EXCEPT !.name = "add", !.step = "getUrl", !.domain = d, !.path = p,
                             !.w3c = w3c])
-----------------------------------------------------------------------------
(***************************************************************************)
(* How a run of the command ends in ExecuteWindowCommand.                  *)
(***************************************************************************)
KeepCounts == UNCHANGED <<cookieCommands, pageActions>>

\* With its status, or with the error of the wait for navigations after it.
Answer(a) ==
  \E b \in {a, "error"} : cookieCall' = [cookieCall EXCEPT !.step = "answered", !.answer = b]

\* An error while a navigation is pending, or that hints at one, lets the command run again, the
\* third time in the top frame.
RunAgain(r) ==
  /\ cookieCall.attempt < 2
  /\ cookieCall' = [cookieCall EXCEPT !.step = "getUrl", !.attempt = @ + 1, !.listed = {},
                                      !.todo = {}]
  /\ frameUrl' \in IF cookieCall.attempt = 1 THEN Documents ELSE {frameUrl}
  /\ reach' = [r EXCEPT !.urls = @ \cup {frameUrl'}]

Fails(a, r) == (Answer(a) /\ reach' = r /\ UNCHANGED frameUrl) \/ RunAgain(r)

\* The DevTools command that was sent fails, or is blocked by a dialog: kUnexpectedAlertOpen, which
\* ExecuteWindowCommand answers with OK.
SendFails(r) ==
  \/ Fails("error", r)
  \/ /\ cookieCall' = [cookieCall EXCEPT !.step = "answered", !.answer = "ok", !.blocked = TRUE]
     /\ reach' = r /\ UNCHANGED frameUrl
-----------------------------------------------------------------------------
\* GetUrl, a script in the current frame.
GetUrl ==
  /\ cookieCall.step = "getUrl"
  /\ \/ /\ cookieCall' = [cookieCall EXCEPT !.url = frameUrl,
                             !.step = IF cookieCall.name = "add" THEN "check" ELSE "list"]
        /\ UNCHANGED <<frameUrl, reach>>
     \/ SendFails(reach)
  /\ KeepCounts /\ UNCHANGED jar

\* The cookies of the list that the command is about.
ToDelete(listed) ==
  CASE cookieCall.name = "deleteAll" -> listed
    [] cookieCall.name = "delete" -> {c \in listed : c.name = cookieCall.wanted}
    [] OTHER -> {}

\* GetVisibleCookies: the cookies of the URL that was read.  (DeleteCookie and DeleteAllCookies
\* read the URL once more, for the url of Network.deleteCookies, which has a domain and a path.)
GetVisibleCookies ==
  /\ cookieCall.step = "list"
  /\ \/ /\ LET listed == Visible(cookieCall.url)
           IN cookieCall' = [cookieCall EXCEPT !.listed = listed, !.todo = ToDelete(listed),
                                               !.step = "act"]
        /\ UNCHANGED <<frameUrl, reach>>
     \/ SendFails(reach)
  /\ KeepCounts /\ UNCHANGED jar

DeletedByName(c) == {d \in jar : d.name = c.name}

\* Network.deleteCookies with the name, the domain and the path of a listed cookie.
DeletedBy(c) == {d \in jar : d = c}

\* A command that fails may have taken effect.
DeleteOne ==
  /\ cookieCall.step = "act"
  /\ \E c \in cookieCall.todo :
       LET r == [reach EXCEPT !.deleted = @ \cup DeletedBy(c)]
       IN \/ /\ jar' = jar \ DeletedBy(c) /\ reach' = r /\ UNCHANGED frameUrl
             /\ cookieCall' = [cookieCall EXCEPT !.todo = @ \ {c}]
          \/ SendFails(r) /\ jar' = jar \ DeletedBy(c)
          \/ SendFails(reach) /\ UNCHANGED jar
  /\ KeepCounts

Finish ==
  /\ cookieCall.step = "act" /\ cookieCall.todo = {}
  /\ IF cookieCall.name = "getNamed" /\ \A c \in cookieCall.listed : c.name # cookieCall.wanted
     THEN Fails("noSuchCookie", reach)
     ELSE Answer("ok") /\ UNCHANGED <<frameUrl, reach>>
  /\ KeepCounts /\ UNCHANGED jar

CheckScheme ==
  /\ cookieCall.step = "check"
  /\ IF cookieCall.url.scheme = "http"
     THEN cookieCall' = [cookieCall EXCEPT !.step = "set"] /\ UNCHANGED <<frameUrl, reach>>
     ELSE Fails("invalidCookieDomain", reach)
  /\ KeepCounts /\ UNCHANGED jar

\* ExecuteAddCookie: a W3C session checks that the URL belongs to the domain, unless it is an
\* address.
CheckCookie ==
  /\ cookieCall.step = "check"
  /\ IF /\ cookieCall.url.scheme = "http"
        /\ cookieCall.w3c /\ cookieCall.domain \notin {<<>>, Address} =>
             DomainIs(cookieCall.url.host, cookieCall.domain)
     THEN cookieCall' = [cookieCall EXCEPT !.step = "set"] /\ UNCHANGED <<frameUrl, reach>>
     ELSE Fails("invalidCookieDomain", reach)
  /\ KeepCounts /\ UNCHANGED jar

\* Without a domain the cookie is for the host alone; the domain of a W3C session gets a leading
\* dot, that of a legacy session is passed on as it is.
NewCookie ==
  IF cookieCall.domain = <<>> THEN Cookie("n", cookieCall.url.host, TRUE, cookieCall.path)
  ELSE Cookie("n", cookieCall.domain, ~cookieCall.w3c \/ cookieCall.domain = Address,
              cookieCall.path)

\* WebViewImpl::AddCookie: Network.setCookie takes the domain that it is given, whatever the URL,
\* but no registry; every failure, with or without an effect, is kUnableToSetCookie.
SetCookie ==
  /\ cookieCall.step = "set"
  /\ \/ Fails("unableToSetCookie", reach) /\ UNCHANGED jar
     \/ /\ NewCookie.labels # Com /\ jar' = jar \cup {NewCookie}
        /\ LET r == [reach EXCEPT !.added = @ \cup {NewCookie}]
           IN \/ Answer("ok") /\ reach' = r /\ UNCHANGED frameUrl
              \/ Fails("unableToSetCookie", r)
  /\ KeepCounts

EndCall ==
  /\ cookieCall.step = "answered" /\ cookieCall' = NoCookieCall /\ reach' = NoReach
  /\ KeepCounts /\ UNCHANGED <<jar, frameUrl>>

Next ==
  \/ Navigate \/ PageSetsCookie \/ GetCookies \/ DeleteAllCookies
  \/ \E n \in {"n", "m"} : GetNamedCookie(n) \/ DeleteCookie(n)
  \/ \E d \in Hosts \cup {<<>>, Com, Address}, p \in {"/", "/a"}, w3c \in BOOLEAN :
       AddCookie(d, p, w3c)
  \/ GetUrl \/ GetVisibleCookies \/ DeleteOne \/ Finish \/ CheckCookie \/ SetCookie \/ EndCall

Spec == Init /\ [][Next]_vars
-----------------------------------------------------------------------------
TypeOK ==
  /\ frameUrl \in Documents /\ cookieCall.todo \subseteq cookieCall.listed
  /\ \A c \in jar : /\ c.labels \in Hosts \cup {Address} /\ c.path \in {"/", "/a"}
                    /\ c.hostOnly \in BOOLEAN

\* The cookies that were there, and visible, all the time since the command began.
Steady ==
  {c \in reach.before \ reach.touched : \A u \in reach.urls : VisibleAt(c, u)}

\* The page may navigate and set and remove cookies at every point of a command, and the command
\* may be run up to three times.  (1) Every cookie that it lists or deletes is visible at some URL
\* that the frame had meanwhile, and no other is touched.  (2) A W3C session adds cookies only for
\* a domain that such a URL belongs to (or for an address, which ExecuteAddCookie lets pass),
\* although the browser takes any domain.  (3) When it answers, unless a dialog blocked it (which
\* ExecuteWindowCommand answers with OK, whatever was left to do): cookies that were there and
\* visible all the time are deleted by a command that was to delete them and answers OK, listed by
\* one that lists, and none of them has a name that was "not found" (GetVisibleCookies,
\* ExecuteDeleteCookie, ExecuteDeleteAllCookies, ExecuteGetNamedCookie, ExecuteAddCookie).
CookiesInReach ==
  /\ \A c \in cookieCall.listed \cup reach.deleted : \E u \in reach.urls : VisibleAt(c, u)
  /\ cookieCall.w3c =>
       \A c \in reach.added : c.labels # Address => \E u \in reach.urls : DomainIs(u.host, c.labels)
  /\ cookieCall.step = "answered" /\ ~cookieCall.blocked =>
       /\ cookieCall.answer = "ok" => jar \cap ToDelete(Steady) = {}
       /\ cookieCall.answer = "ok" /\ cookieCall.name = "get" => Steady \subseteq cookieCall.listed
       /\ cookieCall.answer = "noSuchCookie" => \A c \in Steady : c.name # cookieCall.wanted
=============================================================================
