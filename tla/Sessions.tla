------------------------------ MODULE Sessions ------------------------------
(***************************************************************************)
(* The session of a browser.  A login stores a session and hands out its   *)
(* token in a cookie; a request is served for the first of its cookies     *)
(* whose session is valid (AuthMiddleware, OptionalAuthMiddleware,         *)
(* FrontendAuthMiddleware); one without any is refused and its cookies are *)
(* cleared; a logout deletes the sessions of all cookies it is sent with.  *)
(*                                                                         *)
(* A browser keeps one cookie per scope: that of the host alone, that of   *)
(* the host as a domain, that of a parent domain, and sends them in any    *)
(* order.  Requests are under way at the same time and answered in any     *)
(* order.  A token is the number of its login.  Reads of the database do   *)
(* not fail here.                                                          *)
(***************************************************************************)
EXTENDS Naturals, Sequences, Functions

CONSTANTS
  Requests,    \* requests that may be under way at a time
  Users,
  Unverified,  \* the users whose address is not verified although it has to be
  Configured,  \* the scope of the server's cookies
  MaxLogins    \* bound on logins

Scopes == {"host", "domain", "parent"}

ASSUME SessionsAssumption ==
  /\ Configured \in Scopes
  /\ Unverified \subseteq Users
  /\ MaxLogins \in Nat

Paths  == {"/login", "/chat", "/integrations/hidden", "/email-verification"}
NoToken == 0
Idle == [kind |-> "none", at |-> "idle", sent |-> <<>>, path |-> "", scope |-> "host",
         next |-> 1, token |-> NoToken, hops |-> 0, result |-> ""]

VARIABLES
  owner,       \* the users that logged in, in the order of their tokens
  alive,       \* tokens of stored sessions that have not expired
  jar,         \* the browser's cookies, by their scopes
  request,     \* requests and their answers
  loggedOut    \* tokens of logouts that have been answered

sessionVars == <<owner, alive, jar, request, loggedOut>>

SessionsInit ==
  /\ owner = <<>> /\ alive = {} /\ jar = [s \in Scopes |-> NoToken]
  /\ request = [r \in Requests |-> Idle]
  /\ loggedOut = {}

\* Redirects are counted from the last change of the cookies or their sessions.
Moved(all) == [r \in Requests |-> [all[r] EXCEPT !.hops = 0]]

\* Fault: the answer to one who is not verified clears the cookies as well.
ClearedWidely(result) ==
  CASE result \in {"invalid", "unverified"} -> {"host", "domain"}
    [] result = "out" -> {Configured, "host"}
    [] OTHER -> {}

\* The cookies an answer clears.
Cleared(result) ==
  CASE result = "invalid" -> {"host", "domain"}
    [] result = "out" -> {Configured, "host"}
    [] OTHER -> {}

\* An answer that the browser has nothing to do for ends the request.
Answered(q, result) ==
  IF result \in Paths
  THEN [Idle EXCEPT !.kind = q.kind, !.at = "answered", !.result = result, !.hops = q.hops]
  ELSE IF Cleared(result) # {}
  THEN [Idle EXCEPT !.kind = q.kind, !.at = "answered", !.result = result, !.sent = q.sent]
  ELSE Idle

Answer(r, result) == request' = [request EXCEPT ![r] = Answered(@, result)]

(***************************************************************************)
(* The browser.                                                            *)
(***************************************************************************)
\* The orders in which the cookies may be sent.  No two have the same token.
Orders ==
  {o \in UNION {[1 .. n -> Scopes] : n \in 0 .. 3} :
     \A i, j \in DOMAIN o : o[i] = o[j] => i = j}

Tokens == {[i \in DOMAIN o |-> jar[o[i]]] :
             o \in {o \in Orders : Range(o) = {s \in Scopes : jar[s] # NoToken}}}

Sent(kind, path, tokens) ==
  [Idle EXCEPT !.kind = kind, !.at = "sent", !.sent = tokens, !.path = path]

SendRequest(r) ==
  /\ request[r].at = "idle"
  /\ \E tokens \in Tokens :
       \/ \E kind \in {"api", "exempt", "optional", "logout"} :
            request' = [request EXCEPT ![r] = Sent(kind, "", tokens)]
       \/ \E path \in Paths : request' = [request EXCEPT ![r] = Sent("page", path, tokens)]
  /\ UNCHANGED <<owner, alive, jar, loggedOut>>

(***************************************************************************)
(* Login and logout.                                                       *)
(***************************************************************************)
\* The request may choose the scope; one that cannot be read is refused when
\* the session is stored already.
Login(r, user, scope) ==
  /\ request[r].at = "idle" /\ Len(owner) < MaxLogins
  /\ owner' = Append(owner, user)
  /\ alive' = alive \cup {Len(owner) + 1}
  /\ \/ request' = [request EXCEPT ![r] =
            [Idle EXCEPT !.kind = "login", !.at = "answered", !.scope = scope,
                         !.token = Len(owner) + 1, !.result = "in"]]
     \/ UNCHANGED request
  /\ UNCHANGED <<jar, loggedOut>>

Logout(r) ==
  /\ request[r].at = "sent" /\ request[r].kind = "logout"
  /\ IF request[r].sent = <<>>
     THEN Answer(r, "refused") /\ UNCHANGED alive
     ELSE /\ alive' = alive \ Range(request[r].sent)
          /\ LET q == [request EXCEPT ![r] = Answered(@, "out")]
             IN request' = IF alive' = alive THEN q ELSE Moved(q)
  /\ UNCHANGED <<owner, jar, loggedOut>>

Expire(t) ==
  /\ t \in alive
  /\ alive' = alive \ {t}
  /\ request' = Moved(request)
  /\ UNCHANGED <<owner, jar, loggedOut>>

(***************************************************************************)
(* The session of a request: its tokens are looked up one after another.   *)
(* With the first that is alive the request is served as its user.         *)
(***************************************************************************)
Resolving(r) == request[r].at = "sent" /\ request[r].kind \notin {"login", "logout"}

\* What a request without a valid session gets.
RefusedByAPI(q) == IF q.sent = <<>> THEN "refused" ELSE "invalid"

\* Fault: the login page is left by every browser that has a cookie.
PublicPageByCookie(q) ==
  CASE q.path = "/login" /\ q.sent # <<>> -> "/chat"
    [] q.path = "/login" /\ q.sent = <<>> -> "page"
    [] q.path # "/login" -> IF q.path = "/email-verification" THEN "page" ELSE "/login"

PublicPage(q) == IF q.path \in {"/login", "/email-verification"} THEN "page" ELSE "/login"

Unresolved(q) ==
  CASE q.kind \in {"api", "exempt"} -> RefusedByAPI(q)
    [] q.kind = "optional" -> "anonymous"
    [] q.kind = "page" -> PublicPage(q)

\* An unverified user is refused by the API and sent to the page for it.
Verified(q, user) == user \notin Unverified \/ q.kind \in {"exempt", "optional"}

Page(q, user) ==
  CASE q.path \in {"/login", "/integrations/hidden"} -> "/chat"
    [] q.path = "/chat" -> IF Verified(q, user) THEN "page" ELSE "/email-verification"
    [] q.path = "/email-verification" -> "page"

Served(q, user) ==
  IF q.kind = "page" THEN Page(q, user)
  ELSE IF Verified(q, user) THEN "served" ELSE "unverified"

\* Fault: a first cookie without a session settles it.
ResolveFirst(r) ==
  /\ Resolving(r)
  /\ LET q == request[r] IN
     IF q.sent # <<>> /\ Head(q.sent) \in alive
     THEN Answer(r, Served(q, owner[Head(q.sent)]))
     ELSE Answer(r, Unresolved(q))

\* A request steps over the tokens that it finds dead.
Resolve(r) ==
  /\ Resolving(r)
  /\ LET q == request[r] IN
     IF q.next > Len(q.sent) THEN Answer(r, Unresolved(q))
     ELSE IF q.sent[q.next] \in alive
     THEN Answer(r, Served(q, owner[q.sent[q.next]]))
     ELSE request' = [request EXCEPT ![r].next = q.next + 1]

ResolveStep(r) == Resolve(r) /\ UNCHANGED <<owner, alive, jar, loggedOut>>

\* A cookie takes the place of that of its scope, an expired one empties it.
JarAfter(q) ==
  IF q.result = "in" THEN [jar EXCEPT ![q.scope] = q.token]
  ELSE [s \in Scopes |-> IF s \in Cleared(q.result) THEN NoToken ELSE jar[s]]

\* The answer arrives; a redirect is followed.
Receive(r) ==
  /\ request[r].at = "answered"
  /\ LET q == request[r] IN
     /\ jar' = JarAfter(q)
     /\ loggedOut' = IF q.result = "out" THEN loggedOut \cup Range(q.sent) ELSE loggedOut
     /\ \E tokens \in Tokens :
          LET follow == [Sent("page", q.result, tokens) EXCEPT !.hops = q.hops + 1]
              rest == [request EXCEPT ![r] = IF q.result \in Paths THEN follow ELSE Idle]
          IN request' = IF jar' = jar THEN rest ELSE Moved(rest)
  /\ UNCHANGED <<owner, alive>>

SessionsNext ==
  \/ \E r \in Requests :
       \/ SendRequest(r) \/ Logout(r) \/ ResolveStep(r) \/ Receive(r)
       \/ \E u \in Users, s \in Scopes : Login(r, u, s)
  \/ \E t \in alive : Expire(t)

SessionsSpec == SessionsInit /\ [][SessionsNext]_sessionVars

(***************************************************************************)
(* Properties.                                                             *)
(***************************************************************************)
\* Every cookie is that of a stored login, and so is what requests are sent with.
SessionsTypeOK ==
  /\ alive \cup loggedOut \subseteq DOMAIN owner
  /\ \A s \in Scopes : jar[s] \in DOMAIN owner \cup {NoToken}
  /\ \A r \in Requests : Range(request[r].sent) \subseteq DOMAIN owner

\* Once a logout has been answered, none of the cookies it was sent with opens
\* anything, also those that the answer does not clear.
LogoutEnds == loggedOut \cap alive = {}

\* A request is refused for an invalid cookie only if all its sessions are gone:
\* a dead cookie that the browser cannot lose does not hide a valid one.
DeadCookieHarmless ==
  \A r \in Requests :
    request[r].result = "invalid" => Range(request[r].sent) \cap alive = {}

\* The browser loses the cookie of a valid session only to a newer login, to a
\* logout, or to the refusal of a request that was sent before it had the cookie.
KeptUnlessStale ==
  [][\A s \in Scopes :
       jar[s] \in alive /\ jar'[s] # jar[s] =>
         \E r \in Requests :
           /\ request[r].at = "answered" /\ request'[r] # request[r]
           /\ \/ request[r].result \in {"in", "out"}
              \/ request[r].result = "invalid" /\ jar[s] \notin Range(request[r].sent)
    ]_sessionVars

\* A page is reached after at most two redirects that are decided while neither
\* the cookies nor their sessions change; one may have been decided before.
RedirectsEnd == \A r \in Requests : request[r].hops <= 3

\* Sessions end for good, and a dead one stands in no other's way.
SessionsHold ==
  /\ SessionsTypeOK
  /\ LogoutEnds
  /\ DeadCookieHarmless
=============================================================================
