---------------------------- MODULE AccessTokens ----------------------------
(***************************************************************************)
(* The access tokens of one user who is not an admin: created through the  *)
(* API up to a limit, created by a browser for a command line client that  *)
(* polls for it, used as bearer tokens, and revoked.                       *)
(***************************************************************************)
EXTENDS Naturals, FiniteSets

CONSTANTS
  Creates,    \* API requests that create a token, and the tokens they create
  Default,    \* the token every user is created with
  Auths,      \* requests of a browser, and the tokens they create
  StateOf,    \* the state of the client a browser was opened for
  States,
  Polls,      \* requests of clients
  PollState,
  Bearers,    \* requests that bear a token
  BearerToken,
  TokenLimit  \* maxUserAccessTokens

Tokens == Creates \cup Auths \cup {Default}
Error == "error"

ASSUME TokenAssumption ==
  /\ Creates \cap Auths = {}
  /\ Default \notin Creates \cup Auths
  /\ StateOf \in [Auths -> States]
  /\ PollState \in [Polls -> States]
  /\ BearerToken \in [Bearers -> Tokens]
  /\ TokenLimit \in Nat
  /\ Error \notin Tokens
  /\ IsFiniteSet(Tokens)

VARIABLES
  token,    \* rows: "none", "active", "expired" or "revoked"
  create,   \* how far a request that creates a token has come
  auth,     \* how far a browser's request has come
  results,  \* the entries of cliBrowserAuthResults, in memory
  handed,   \* what polls were answered with: sets of at most one result
  poll,
  bearer,   \* how far a bearing request has come
  loaded,   \* the row of its token as it was loaded
  \* History.
  overtaken \* API requests between whose count and insert a token appeared

tokenVars == <<token, create, auth, results, handed, poll, bearer, loaded, overtaken>>

Results == [state : States, value : Tokens \cup {Error}, fresh : BOOLEAN]

TokenInit ==
  /\ token = [t \in Tokens |-> IF t = Default THEN "active" ELSE "none"]
  /\ create = [c \in Creates |-> "new"]
  /\ auth = [a \in Auths |-> "new"]
  /\ results = {}
  /\ handed = [p \in Polls |-> {}]
  /\ poll = [p \in Polls |-> "new"]
  /\ bearer = [b \in Bearers |-> "new"]
  /\ loaded = [b \in Bearers |-> "none"]
  /\ overtaken = {}

Active == {t \in Tokens : token[t] = "active"}

Counted == {c \in Creates : create[c] = "counted"}

(***************************************************************************)
(* CreateAccessToken.                                                      *)
(***************************************************************************)

\* Revoked and expired tokens do not count.
Count(c) ==
  /\ create[c] = "new"
  /\ create' = [create EXCEPT ![c] = IF Cardinality(Active) >= TokenLimit
                                     THEN "refused" ELSE "counted"]
  /\ UNCHANGED <<token, auth, results, handed, poll, bearer, loaded, overtaken>>

\* The expiry that the request names may be over already.
Insert(c) ==
  /\ create[c] = "counted"
  /\ create' = [create EXCEPT ![c] = "created"]
  /\ \E s \in {"active", "expired"} : token' = [token EXCEPT ![c] = s]
  /\ overtaken' = overtaken \cup (Counted \ {c})
  /\ UNCHANGED <<auth, results, handed, poll, bearer, loaded>>

\* A bad expiry, or a token that cannot be stored.
CreateFails(c) ==
  /\ create[c] = "counted"
  /\ create' = [create EXCEPT ![c] = "failed"]
  /\ UNCHANGED <<token, auth, results, handed, poll, bearer, loaded, overtaken>>

Create(c) ==
  \/ Count(c)
  \/ Insert(c)
  \/ CreateFails(c)

(***************************************************************************)
(* CLIBrowserAuth and CLIBrowserAuthPoll.                                  *)
(***************************************************************************)

Fresh == {e \in results : e.fresh}

\* The limit is not looked at.
AuthInsert(a) ==
  /\ auth[a] = "new"
  /\ auth' = [auth EXCEPT ![a] = "inserted"]
  /\ token' = [token EXCEPT ![a] = "active"]
  /\ overtaken' = overtaken \cup Counted
  /\ UNCHANGED <<create, results, handed, poll, bearer, loaded>>

\* The result replaces an earlier one of the state, and expired ones go.
Keep(a, value) ==
  results' = {e \in Fresh : e.state # StateOf[a]}
               \cup {[state |-> StateOf[a], value |-> value, fresh |-> TRUE]}

\* A client with a redirect is given its result there, others poll for it.
AuthStore(a) ==
  /\ auth[a] = "inserted"
  /\ auth' = [auth EXCEPT ![a] = "done"]
  /\ \/ Keep(a, a)
     \/ UNCHANGED results
  /\ UNCHANGED <<token, create, handed, poll, bearer, loaded, overtaken>>

\* A missing permission or an error is a result as well.
AuthFails(a) ==
  /\ auth[a] = "new"
  /\ auth' = [auth EXCEPT ![a] = "failed"]
  /\ \/ Keep(a, Error)
     \/ UNCHANGED results
  /\ UNCHANGED <<token, create, handed, poll, bearer, loaded, overtaken>>

\* cliBrowserAuthStateTTL passes.
ResultExpires(e) ==
  /\ e.fresh
  /\ results' = (results \ {e}) \cup {[e EXCEPT !.fresh = FALSE]}
  /\ UNCHANGED <<token, create, auth, handed, poll, bearer, loaded, overtaken>>

\* Under the mutex: expired results go, and the client's is taken out.  A poll
\* that finds none is answered "not ready".
Pop(p) ==
  /\ poll[p] = "new"
  /\ poll' = [poll EXCEPT ![p] = "done"]
  /\ handed' = [handed EXCEPT ![p] = {e \in Fresh : e.state = PollState[p]}]
  /\ results' = {e \in Fresh : e.state # PollState[p]}
  /\ UNCHANGED <<token, create, auth, bearer, loaded, overtaken>>

(***************************************************************************)
(* Use and end of a token.                                                 *)
(***************************************************************************)

\* resolveUserFromBearerToken: only an active token is accepted.
Resolve(b) ==
  LET t == BearerToken[b] IN
  /\ bearer[b] = "new"
  /\ bearer' = [bearer EXCEPT ![b] = IF token[t] = "active" THEN "resolved"
                                     ELSE "refused"]
  /\ loaded' = [loaded EXCEPT ![b] = token[t]]
  /\ UNCHANGED <<token, create, auth, results, handed, poll, overtaken>>

\* Fault: the whole row is saved as it was loaded.
TouchRow(b) ==
  /\ bearer[b] = "resolved"
  /\ bearer' = [bearer EXCEPT ![b] = "served"]
  /\ token' = [token EXCEPT ![BearerToken[b]] = loaded[b]]
  /\ UNCHANGED <<create, auth, results, handed, poll, loaded, overtaken>>

\* Only last_used_at is written.
Touch(b) ==
  /\ bearer[b] = "resolved"
  /\ bearer' = [bearer EXCEPT ![b] = "served"]
  /\ UNCHANGED <<token, create, auth, results, handed, poll, loaded, overtaken>>

RevokeToken(t) ==
  /\ token[t] \in {"active", "expired"}
  /\ token' = [token EXCEPT ![t] = "revoked"]
  /\ UNCHANGED <<create, auth, results, handed, poll, bearer, loaded, overtaken>>

TokenExpires(t) ==
  /\ t \in Creates
  /\ token[t] = "active"
  /\ token' = [token EXCEPT ![t] = "expired"]
  /\ UNCHANGED <<create, auth, results, handed, poll, bearer, loaded, overtaken>>

\* The results that wait in memory are lost.
TokenRestart ==
  /\ results # {}
  /\ results' = {}
  /\ UNCHANGED <<token, create, auth, handed, poll, bearer, loaded, overtaken>>

TokenNext ==
  \/ \E c \in Creates : Create(c)
  \/ \E a \in Auths : AuthInsert(a) \/ AuthStore(a) \/ AuthFails(a)
  \/ \E e \in results : ResultExpires(e)
  \/ \E p \in Polls : Pop(p)
  \/ \E b \in Bearers : Resolve(b) \/ Touch(b)
  \/ \E t \in Tokens : RevokeToken(t) \/ TokenExpires(t)
  \/ TokenRestart

TokenSpec == TokenInit /\ [][TokenNext]_tokenVars

(***************************************************************************)
(* Properties.                                                             *)
(***************************************************************************)

\* Every variable keeps its type, and a state has one result at a time.
TokenTypeOK ==
  /\ token \in [Tokens -> {"none", "active", "expired", "revoked"}]
  /\ create \in [Creates -> {"new", "counted", "created", "refused", "failed"}]
  /\ auth \in [Auths -> {"new", "inserted", "done", "failed"}]
  /\ results \subseteq Results
  /\ \A e, f \in results : e.state = f.state => e = f
  /\ handed \in [Polls -> SUBSET Results]
  /\ poll \in [Polls -> {"new", "done"}]
  /\ bearer \in [Bearers -> {"new", "resolved", "refused", "served"}]
  /\ loaded \in [Bearers -> {"none", "active", "expired", "revoked"}]
  /\ overtaken \subseteq Creates

\* A token that the API creates is within the limit at that moment, however
\* many the browser has created, unless another one appeared after the count.
LimitHolds ==
  [][\A c \in Creates :
       create[c] = "counted" /\ create'[c] = "created" /\ c \notin overtaken =>
         Cardinality(Active') <= TokenLimit]_tokenVars

\* A revoked token stays revoked, also when a request that had loaded it before
\* goes on to record its use.
RevokedForGood ==
  [][\A t \in Tokens : token[t] = "revoked" => token'[t] = "revoked"]_tokenVars

\* A result is handed to one poll, and to one of the client whose browser it
\* comes from; a token among them has been stored.
HandedOnce ==
  /\ \A p, q \in Polls : p # q => \A e \in handed[p] \cap handed[q] : e.value = Error
  /\ \A p \in Polls : \A e \in handed[p] :
       /\ e.state = PollState[p]
       /\ e.value # Error => StateOf[e.value] = e.state /\ token[e.value] # "none"

\* Tokens stay within the limit, reach one client each, and stay revoked.
TokensHold ==
  /\ [](/\ TokenTypeOK
        /\ HandedOnce)
  /\ LimitHolds
  /\ RevokedForGood
=============================================================================
