------------------------------- MODULE MCBots -------------------------------
(***************************************************************************)
(* Two configured bots: p's, which the configuration overwrites, is        *)
(* deleted and changed through the API, the administrator's is renamed,    *)
(* and the default one deleted.                                            *)
(***************************************************************************)
EXTENDS BotProfiles, TLC

CONSTANTS admin, p, base, e1, e2, b1, b2, q1, q2, q3, q4, i1, a1, n2, n3, nb, ns

MCPeople         == {admin, p}
MCConfig         == <<e1, e2>>
MCEntryOwner     == e1 :> admin @@ e2 :> p
MCMoreOwners     == e1 :> {p} @@ e2 :> {}
MCEntryName      == e1 :> nb @@ e2 :> n2
MCCreates        == {b1, b2}
MCEdits          == {q1, q2, q3, q4}
MCEditBot        == q1 :> e2 @@ q2 :> e2 @@ q3 :> e1 @@ q4 :> base
MCChange         == q1 :> [active |-> FALSE]
                      @@ q2 :> [active |-> TRUE, config |-> q2]
                      @@ q3 :> [name |-> n3]
                      @@ q4 :> [active |-> FALSE]
MCInteractionBot == i1 :> e2
MCAddBot         == a1 :> e2
MCBy             == b1 :> p @@ b2 :> admin @@ q1 :> p @@ q2 :> p @@ q3 :> admin
                      @@ q4 :> admin @@ i1 :> p @@ a1 :> admin
MCNameOf         == b1 :> n3 @@ b2 :> nb
=============================================================================
