----------------------------- MODULE MCToolInit -----------------------------
(***************************************************************************)
(* Store s1 for tool a, with an expiry, and a message that stores for      *)
(* tool a (s2) and then for tool b (s3).                                   *)
(***************************************************************************)
EXTENDS ToolInit, TLC

CONSTANTS s1, s2, s3, a, b, d1, d2, q1

MCTools      == {a, b}
MCStores     == {s1, s2, s3}
MCStoreTool  == s1 :> a @@ s2 :> a @@ s3 :> b
MCPrevious   == s1 :> NoRow @@ s2 :> NoRow @@ s3 :> s2
MCDisposals  == {d1, d2}
MCReaderTool == q1 :> a
=============================================================================
