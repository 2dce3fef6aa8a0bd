--------------------------- MODULE MCWebSocketHub ---------------------------
(***************************************************************************)
(* Two subscriptions, with buffers that a few messages fill; and a browser *)
(* with its session: whichever part is chosen at first runs, and the other *)
(* stands still.  Fairness is that of the subscriptions.                   *)
(***************************************************************************)
EXTENDS WebSocketHub, Sessions

CONSTANTS s1, s2, r1, r2

MCSubs == {s1, s2}

MCRequests == {r1, r2}

\* One page at a time: a page changes no cookie and no session, so that two of
\* them do nothing to each other.
OnePage == request'[r2].kind # "page"

VARIABLE part

MCInit ==
  /\ Init
  /\ SessionsInit
  /\ part \in {"hub", "session"}

MCNext ==
  \/ part = "hub" /\ Next /\ UNCHANGED sessionVars
  \/ part = "session" /\ SessionsNext /\ OnePage /\ UNCHANGED vars

MCSpec ==
  /\ MCInit
  /\ [][MCNext /\ UNCHANGED part]_<<vars, sessionVars, part>>
  /\ \A s \in Subs : WF_vars(Serve(s)) /\ WF_vars(CloseSlow(s))
=============================================================================
