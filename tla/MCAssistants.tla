---------------------------- MODULE MCAssistants ----------------------------
(***************************************************************************)
(* What bots are and do besides replying: the actions people confirm, the  *)
(* profiles of bots through starts of the server, tools in the background, *)
(* and the cache of the proxy to other backends.  The parts share no       *)
(* state; whichever is chosen at first runs, the others stand still.       *)
(***************************************************************************)
EXTENDS MCConfirmableAction, MCBots, ToolQueue, ProxyCache

CONSTANTS
  server, worker, t1,             \* queue
  f1, f2, f3, f4, h1, h2, s1, s2  \* cache

\* The worker is a process of its own.
MCMode == server :> "auto" @@ worker :> "auto"

\* Two sessions, and a path that has been stored before.
MCFetches == {f1, f2, f3, f4}
MCPathOf  == f1 :> h1 @@ f2 :> h1 @@ f3 :> h1 @@ f4 :> h2
MCScopeOf == f1 :> s1 @@ f2 :> s2 @@ f3 :> s1 @@ f4 :> s1

VARIABLE part

MCInit ==
  /\ Init
  /\ BotsInit
  /\ QueueInit
  /\ CacheInit
  /\ part \in {"actions", "bots", "queue", "cache"}
  \* The other parts need to begin in one way only.
  /\ part # "queue" => reachable
  /\ part # "cache" => enabled

MCNext ==
  \/ /\ part = "actions"
     /\ Next
     /\ UNCHANGED <<botVars, queueVars, cacheVars>>
  \/ /\ part = "bots"
     /\ BotsNext
     /\ UNCHANGED <<vars, queueVars, cacheVars>>
  \/ /\ part = "queue"
     /\ QueueNext
     /\ UNCHANGED <<vars, botVars, cacheVars>>
  \/ /\ part = "cache"
     /\ CacheNext
     /\ UNCHANGED <<vars, botVars, queueVars>>

MCSpec ==
  MCInit /\ [][MCNext /\ UNCHANGED part]_<<vars, botVars, queueVars, cacheVars, part>>
=============================================================================
