--------------------------- MODULE MCRegistration ---------------------------
(***************************************************************************)
(* Registrations r1 and r2 for one address, r3 for another; r1's request   *)
(* is decided by three admins.                                             *)
(***************************************************************************)
EXTENDS Registration, TLC

CONSTANTS r1, r2, r3, d1, d2, d3, d4, d5, e1, e2

MCEmails        == {e1, e2}
MCRegistrations == {r1, r2, r3}
MCEmailOf       == r1 :> e1 @@ r2 :> e1 @@ r3 :> e2
MCDecisions     == {d1, d2, d3, d4, d5}
MCRequestOf     == d1 :> r1 @@ d2 :> r1 @@ d3 :> r2 @@ d4 :> r3 @@ d5 :> r1
MCApprovals     == {d1, d3, d4, d5}
=============================================================================
