---------------------------- MODULE MCToolStream ----------------------------
(***************************************************************************)
(* Instances of ToolStream.  c1 and c2 are the same call under two ids, of *)
(* which one is empty, c3 is another one, c4 has to be confirmed and stops *)
(* the reply.  It may come under the id of c1.                             *)
(***************************************************************************)
EXTENDS ToolStream

CONSTANTS c1, c2, c3, c4

MCCalls    == {c1, c2, c3, c4}
ThreeCalls == {c1, c2, c4}

MCIdOf ==
  [c \in MCCalls |-> IF c = c1 THEN "a" ELSE IF c = c2 THEN NoId
                     ELSE IF c = c3 THEN "b" ELSE "c"]
SharedIdOf == [MCIdOf EXCEPT ![c4] = "a"]

MCSignatureOf == [c \in MCCalls |-> IF c = c2 THEN c1 ELSE c]
MCConfirmable == {c4}
=============================================================================
