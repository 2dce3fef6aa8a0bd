------------------------- MODULE MCConfirmableAction -------------------------
(***************************************************************************)
(* Three requests for two actions of a message: r1 and r2 for the same     *)
(* one.                                                                    *)
(***************************************************************************)
EXTENDS ConfirmableAction, TLC

CONSTANTS r1, r2, r3, x1, x2

MCActions       == {x1, x2}
ThreeRequests   == {r1, r2, r3}
MCContinuing    == {r1, r3}
ActionOfThree   == r1 :> x1 @@ r2 :> x1 @@ r3 :> x2
=============================================================================
