-------------------------- MODULE IntegrationAccess --------------------------
(***************************************************************************)
(* Which users an integration is assigned to.  Admins grant and revoke; a  *)
(* revocation soft-deletes the row, which goes on to occupy the unique     *)
(* index over user and integration.                                        *)
(***************************************************************************)
EXTENDS FiniteSets

CONSTANTS
  Pairs,      \* pairs of a user and an integration
  Forbidden,  \* those of an admin-only integration and a user who is no admin
  Grants,     \* requests
  GrantOf,    \* the pair a request is about
  Revokes,
  RevokeOf

ASSUME AccessAssumption ==
  /\ Forbidden \subseteq Pairs
  /\ GrantOf \in [Grants -> Pairs]
  /\ RevokeOf \in [Revokes -> Pairs]

VARIABLES
  access,  \* the row of a pair: "none", "live" or "deleted"
  grant,   \* how far a request has come
  revoke,
  \* History.
  lost,    \* grants that met another one of their pair
  revoked, \* pairs that have been revoked
  standing \* granted requests whose pair has not been revoked since

accessVars == <<access, grant, revoke, lost, revoked, standing>>

AccessInit ==
  /\ access = [p \in Pairs |-> "none"]
  /\ grant = [g \in Grants |-> "new"]
  /\ revoke = [r \in Revokes |-> "new"]
  /\ lost = {}
  /\ revoked = {}
  /\ standing = {}

Answer(g) ==
  standing' = IF grant'[g] = "granted" THEN standing \cup {g} ELSE standing

\* Only live rows are found.
FindGrant(g) ==
  /\ grant[g] = "new"
  /\ grant' = [grant EXCEPT ![g] =
                 IF GrantOf[g] \in Forbidden THEN "refused"
                 ELSE IF access[GrantOf[g]] = "live" THEN "granted"
                 ELSE "missing"]
  /\ Answer(g)
  /\ UNCHANGED <<access, revoke, lost, revoked>>

\* Fault: the insert is taken for done when the index refuses it.
InsertGrantSilently(g) ==
  LET p == GrantOf[g] IN
  /\ grant[g] = "missing"
  /\ grant' = [grant EXCEPT ![g] = "granted"]
  /\ access' = [access EXCEPT ![p] = IF @ = "none" THEN "live" ELSE @]
  /\ Answer(g)
  /\ UNCHANGED <<revoke, lost, revoked>>

\* The index knows deleted rows as well.
InsertGrant(g) ==
  LET p == GrantOf[g]
      free == access[p] = "none"
  IN
  /\ grant[g] = "missing"
  /\ grant' = [grant EXCEPT ![g] = IF free THEN "granted" ELSE "failed"]
  /\ access' = [access EXCEPT ![p] = IF free THEN "live" ELSE @]
  /\ lost' = lost \cup {h \in Grants : /\ free
                                       /\ h # g
                                       /\ GrantOf[h] = p
                                       /\ grant[h] = "missing"}
  /\ Answer(g)
  /\ UNCHANGED <<revoke, revoked>>

RevokeAccess(r) ==
  /\ revoke[r] = "new"
  /\ revoke' = [revoke EXCEPT ![r] = "done"]
  /\ access' = [access EXCEPT ![RevokeOf[r]] = IF @ = "live" THEN "deleted" ELSE @]
  /\ revoked' = revoked \cup {p \in {RevokeOf[r]} : access[p] = "live"}
  /\ standing' = {g \in standing : GrantOf[g] # RevokeOf[r]}
  /\ UNCHANGED <<grant, lost>>

AccessNext ==
  \/ \E g \in Grants : FindGrant(g) \/ InsertGrant(g)
  \/ \E r \in Revokes : RevokeAccess(r)

AccessSpec == AccessInit /\ [][AccessNext]_accessVars

(***************************************************************************)
(* Properties.                                                             *)
(***************************************************************************)

\* Every variable keeps its type, and no integration that is for admins only is
\* assigned to anybody else.
AccessTypeOK ==
  /\ access \in [Pairs -> {"none", "live", "deleted"}]
  /\ \A p \in Forbidden : access[p] = "none"
  /\ grant \in [Grants -> {"new", "missing", "granted", "refused", "failed"}]
  /\ revoke \in [Revokes -> {"new", "done"}]
  /\ lost \subseteq Grants
  /\ revoked \subseteq Pairs
  /\ standing \subseteq Grants

\* What an admin was told holds: a granted integration is assigned until it is
\* revoked, and a grant fails only against another one or after a revocation.
AnswersHold ==
  /\ \A g \in standing : access[GrantOf[g]] = "live"
  /\ \A g \in Grants : grant[g] = "failed" => g \in lost \/ GrantOf[g] \in revoked

\* A revoked integration stays revoked, whatever grants follow: they fail.
RevokedStaysRevoked == \A p \in revoked : access[p] # "live"

\* Grants and revocations hold as they were answered.
GrantsHold ==
  /\ AccessTypeOK
  /\ AnswersHold
  /\ RevokedStaysRevoked
=============================================================================
