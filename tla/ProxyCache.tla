----------------------------- MODULE ProxyCache -----------------------------
(***************************************************************************)
(* The cache of the mobile proxy.  A GET that the upstream answers is      *)
(* stored; one that does not reach it is answered from the cache.  Rows    *)
(* are found by a key made of the path and the caller's session, expire,   *)
(* and are pruned to a limit.  Deletion is soft, and a store into a        *)
(* deleted row updates it without bringing it back.                        *)
(***************************************************************************)
EXTENDS Naturals, FiniteSets

CONSTANTS
  Fetches,
  Warm,      \* those whose responses have been stored before
  PathOf,
  ScopeOf,   \* the hash of a request's Authorization header and session cookie
  MaxRows    \* MOBILE_API_CACHE_MAX_ROWS

Nobody == "nobody"
Keys == {<<PathOf[r], ScopeOf[r]>> : r \in Fetches}

ASSUME CacheAssumption ==
  /\ IsFiniteSet(Fetches)
  /\ Warm \subseteq Fetches
  /\ Cardinality(Warm) <= MaxRows
  /\ DOMAIN PathOf = Fetches
  /\ DOMAIN ScopeOf = Fetches
  /\ MaxRows \in Nat \ {0}
  /\ Nobody \notin Fetches

VARIABLES
  enabled,    \* is there a cache?
  cached,     \* per key: "none", "live" or "deleted"
  body,       \* the request whose response the row holds
  expired,
  validated,  \* last_validated_at
  clock,
  reached,    \* how far a request has come
  stamp,      \* the time it has taken
  over,       \* how many rows it has found too many
  victims,    \* the rows it has chosen
  answer,     \* the request whose response it was answered with
  \* History.
  touched     \* rows stored or served while a request was about to delete some

cacheVars == <<enabled, cached, body, expired, validated, clock, reached, stamp,
               over, victims, answer, touched>>

CacheKey(r) == <<PathOf[r], ScopeOf[r]>>

LiveRows == {k \in Keys : cached[k] = "live"}

\* The cache is on unless it is switched off, not routed or the upstream local.
CacheInit ==
  /\ enabled \in BOOLEAN
  /\ body \in [Keys -> Warm \cup {Nobody}]
  /\ \A k \in Keys : IF body[k] = Nobody
                     THEN \A r \in Warm : CacheKey(r) # k
                     ELSE CacheKey(body[k]) = k
  /\ cached = [k \in Keys |-> IF body[k] = Nobody THEN "none" ELSE "live"]
  /\ expired = [k \in Keys |-> FALSE]
  /\ validated = [k \in Keys |-> 0]
  /\ clock = 0
  /\ reached = [r \in Fetches |-> IF r \in Warm THEN "done" ELSE "new"]
  /\ stamp = [r \in Fetches |-> 0]
  /\ over = [r \in Fetches |-> 0]
  /\ victims = [r \in Fetches |-> {}]
  /\ answer = [r \in Fetches |-> Nobody]
  /\ touched = {}

Reach(r, from, to) ==
  /\ reached[r] = from
  /\ reached' = [reached EXCEPT ![r] = to]

(***************************************************************************)
(* The upstream answers.                                                   *)
(***************************************************************************)

\* The response is passed on; only a 200 in JSON without "no-store" and cookies
\* and of limited size is stored.
Respond(r) ==
  /\ answer' = [answer EXCEPT ![r] = r]
  /\ \/ /\ enabled
        /\ Reach(r, "new", "storing")
        /\ clock' = clock + 1
        /\ stamp' = [stamp EXCEPT ![r] = clock + 1]
     \/ /\ Reach(r, "new", "done")
        /\ UNCHANGED <<clock, stamp>>
  /\ UNCHANGED <<enabled, cached, body, expired, validated, over, victims, touched>>

Touch(k) ==
  touched' = IF \E q \in Fetches : victims[q] # {} THEN touched \cup {k} ELSE touched

\* The columns that an upsert writes do not include deleted_at.
StoreResponse(r) ==
  LET k == CacheKey(r) IN
  /\ Reach(r, "storing", "stored")
  /\ cached' = [cached EXCEPT ![k] = IF @ = "none" THEN "live" ELSE @]
  /\ body' = [body EXCEPT ![k] = r]
  /\ expired' = [expired EXCEPT ![k] = FALSE]
  /\ validated' = [validated EXCEPT ![k] = stamp[r]]
  /\ stamp' = [stamp EXCEPT ![r] = 0]
  /\ Touch(k)
  /\ UNCHANGED <<enabled, clock, over, victims, answer>>

\* pruneMobileProxyCache: three queries.
CountRows(r) ==
  /\ reached[r] = "stored"
  /\ IF Cardinality(LiveRows) <= MaxRows
     THEN /\ reached' = [reached EXCEPT ![r] = "done"]
          /\ UNCHANGED over
     ELSE /\ reached' = [reached EXCEPT ![r] = "counted"]
          /\ over' = [over EXCEPT ![r] = Cardinality(LiveRows) - MaxRows]
  /\ UNCHANGED <<enabled, cached, body, expired, validated, clock, stamp,
                 victims, answer, touched>>

\* Sets of the n rows that were validated first, or of all if there are fewer.
Oldest(n) ==
  {S \in SUBSET LiveRows :
     /\ Cardinality(S) = n \/ (Cardinality(LiveRows) < n /\ S = LiveRows)
     /\ \A k \in S, l \in LiveRows \ S : validated[k] <= validated[l]}

\* Fault: the rows that were validated last are chosen.
ChooseNewest(r) ==
  /\ Reach(r, "counted", "chosen")
  /\ over' = [over EXCEPT ![r] = 0]
  /\ \E S \in Oldest(MaxRows) : victims' = [victims EXCEPT ![r] = LiveRows \ S]
  /\ UNCHANGED <<enabled, cached, body, expired, validated, clock, stamp, answer,
                 touched>>

ChooseOldest(r) ==
  /\ Reach(r, "counted", "chosen")
  /\ over' = [over EXCEPT ![r] = 0]
  /\ \E S \in Oldest(over[r]) : victims' = [victims EXCEPT ![r] = S]
  /\ UNCHANGED <<enabled, cached, body, expired, validated, clock, stamp, answer,
                 touched>>

DeleteRows(r) ==
  /\ cached' = [k \in Keys |-> IF k \in victims[r] /\ cached[k] = "live"
                            THEN "deleted" ELSE cached[k]]
  /\ victims' = [victims EXCEPT ![r] = {}]

PruneRows(r) ==
  /\ Reach(r, "chosen", "done")
  /\ DeleteRows(r)
  /\ UNCHANGED <<enabled, body, expired, validated, clock, stamp, over, answer,
                 touched>>

(***************************************************************************)
(* The upstream does not answer.                                           *)
(***************************************************************************)

\* Only live rows are found.
LookUp(r) ==
  LET k == CacheKey(r)
      found == enabled /\ k \in LiveRows
  IN
  /\ \/ /\ found /\ ~expired[k]
        /\ Reach(r, "new", "serving")
        /\ answer' = [answer EXCEPT ![r] = body[k]]
        /\ clock' = clock + 1
        /\ stamp' = [stamp EXCEPT ![r] = clock + 1]
        /\ UNCHANGED victims
     \/ /\ found /\ expired[k]
        /\ Reach(r, "new", "expired")
        /\ victims' = [victims EXCEPT ![r] = {k}]
        /\ UNCHANGED <<clock, stamp, answer>>
     \/ /\ ~found
        /\ Reach(r, "new", "offline")
        /\ UNCHANGED <<clock, stamp, victims, answer>>
  /\ UNCHANGED <<enabled, cached, body, expired, validated, over, touched>>

\* The time is recorded, and the response sent as it was read.
Serve(r) ==
  LET k == CacheKey(r) IN
  /\ Reach(r, "serving", "done")
  /\ validated' = [validated EXCEPT ![k] = stamp[r]]
  /\ stamp' = [stamp EXCEPT ![r] = 0]
  /\ Touch(k)
  /\ UNCHANGED <<enabled, cached, body, expired, clock, over, victims, answer>>

\* By the row's id, whatever it holds by now.
DropExpired(r) ==
  /\ Reach(r, "expired", "offline")
  /\ DeleteRows(r)
  /\ UNCHANGED <<enabled, body, expired, validated, clock, stamp, over, answer,
                 touched>>

ExpireRow(k) ==
  /\ cached[k] = "live"
  /\ ~expired[k]
  /\ expired' = [expired EXCEPT ![k] = TRUE]
  /\ UNCHANGED <<enabled, cached, body, validated, clock, reached, stamp, over,
                 victims, answer, touched>>

CacheNext ==
  \/ \E r \in Fetches :
       \/ Respond(r) \/ StoreResponse(r)
       \/ CountRows(r) \/ ChooseOldest(r) \/ PruneRows(r)
       \/ LookUp(r) \/ Serve(r) \/ DropExpired(r)
  \/ \E k \in Keys : ExpireRow(k)

CacheSpec == CacheInit /\ [][CacheNext]_cacheVars

(***************************************************************************)
(* Properties.                                                             *)
(***************************************************************************)

\* Every variable keeps its type.
CacheTypeOK ==
  /\ enabled \in BOOLEAN
  /\ cached \in [Keys -> {"none", "live", "deleted"}]
  /\ body \in [Keys -> Fetches \cup {Nobody}]
  /\ \A k \in Keys : cached[k] = "none" <=> body[k] = Nobody
  /\ expired \in [Keys -> BOOLEAN]
  /\ clock \in 0 .. Cardinality(Fetches)
  /\ validated \in [Keys -> 0 .. clock]
  /\ reached \in [Fetches -> {"new", "storing", "stored", "counted", "chosen",
                             "serving", "expired", "offline", "done"}]
  /\ stamp \in [Fetches -> 0 .. clock]
  /\ over \in [Fetches -> Nat]
  /\ victims \in [Fetches -> SUBSET Keys]
  /\ answer \in [Fetches -> Fetches \cup {Nobody}]
  /\ touched \subseteq Keys

Pruning == {r \in Fetches : reached[r] \in {"stored", "counted", "chosen"}}

\* However stores and prunings overlap, the cache holds at most one row too many
\* for each store that has not been pruned yet.
CacheBounded == Cardinality(LiveRows) <= MaxRows + Cardinality(Pruning)

\* A request is answered with a response to the same path for the same session.
OwnAnswers ==
  \A r \in Fetches :
    answer[r] # Nobody =>
      PathOf[answer[r]] = PathOf[r] /\ ScopeOf[answer[r]] = ScopeOf[r]

\* The rows that make room are those that were validated first, unless one was
\* stored or served between the choice and the deletion.
PrunesOldest ==
  [][\A r \in Fetches :
       reached[r] = "chosen" /\ reached'[r] = "done" =>
         \A k \in victims[r] \ touched, l \in LiveRows \ (victims[r] \cup touched) :
           validated[k] <= validated[l]]_cacheVars

\* The cache stays within its bound, loses its oldest rows, and answers with the
\* response to what was asked.
CacheKept ==
  /\ [](/\ CacheTypeOK
        /\ CacheBounded
        /\ OwnAnswers)
  /\ PrunesOldest
=============================================================================
