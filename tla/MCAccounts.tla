----------------------------- MODULE MCAccounts -----------------------------
(***************************************************************************)
(* The parts of an account that share no state, one at a time: whichever   *)
(* part is chosen at first runs, and the others stand still.               *)
(***************************************************************************)
EXTENDS MCRegistration, SecondFactor, AccessTokens, IntegrationAccess

CONSTANTS
  f1, f2, off1, l1, l2, l3,      \* second factor
  t1, t2, td, a1, a2, w1, p1, p2, b1,  \* tokens
  i1, i2, g1, g2, g3, v1         \* integrations

\* Two logins offer one recovery code of f1, and one the secret of f2.
MCConfirms == {f1, f2}
MCDisables == {off1}
MCLogins   == {l1, l2, l3}
MCOffer    == l1 :> <<f1, 1>> @@ l2 :> <<f1, 1>> @@ l3 :> f2

\* Two browsers were opened for one client, which polls twice.
MCCreates     == {t1, t2}
MCAuths       == {a1, a2}
MCStates      == {w1}
MCStateOf     == a1 :> w1 @@ a2 :> w1
MCPolls       == {p1, p2}
MCPollState   == p1 :> w1 @@ p2 :> w1
MCBearers     == {b1}
MCBearerToken == b1 :> t1

\* Two grants and a revocation of i1; i2 is not for this user.
MCPairs     == {i1, i2}
MCForbidden == {i2}
MCGrants    == {g1, g2, g3}
MCGrantOf   == g1 :> i1 @@ g2 :> i1 @@ g3 :> i2
MCRevokes   == {v1}
MCRevokeOf  == v1 :> i1

\* What differs in its name only: logins with the code, browsers, polls.
MCSymmetry == Permutations({l1, l2}) \cup Permutations({a1, a2}) \cup Permutations({p1, p2})

VARIABLE part

MCInit ==
  /\ Init
  /\ FactorInit
  /\ TokenInit
  /\ AccessInit
  /\ part \in {"registration", "factor", "tokens", "integrations"}

MCNext ==
  \/ /\ part = "registration"
     /\ Next
     /\ UNCHANGED <<factorVars, tokenVars, accessVars>>
  \/ /\ part = "factor"
     /\ FactorNext
     /\ UNCHANGED <<vars, tokenVars, accessVars>>
  \/ /\ part = "tokens"
     /\ TokenNext
     /\ UNCHANGED <<vars, factorVars, accessVars>>
  \/ /\ part = "integrations"
     /\ AccessNext
     /\ UNCHANGED <<vars, factorVars, tokenVars>>

MCSpec ==
  /\ MCInit
  /\ [][MCNext /\ UNCHANGED part]_<<vars, factorVars, tokenVars, accessVars, part>>
=============================================================================
