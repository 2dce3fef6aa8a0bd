------------------------------ MODULE McpCalls ------------------------------
(***************************************************************************)
(* Calls of tools on a server that speaks MCP.  A call is tried without a  *)
(* session; if the server answers that it is not initialized, a session is *)
(* made for this call and the call is tried a second and last time         *)
(* (mcpCall, mcpInitializeSession).  Several replies call at once.         *)
(*                                                                         *)
(* The server is external: it needs an initialization or not, gives out    *)
(* names for sessions or not, may be restarted, and a request or an answer *)
(* may be lost, which the caller sees as a timeout.                        *)
(***************************************************************************)
EXTENDS Naturals

CONSTANTS
  Callers,     \* calls of tools
  NoSession,
  MaxRestarts  \* bound on restarts of the server

ASSUME McpAssumption ==
  /\ NoSession \notin Callers
  /\ MaxRestarts \in Nat

VARIABLES
  server,    \* "open", "named" or "unnamed": does it need sessions, named ones?
  sessions,  \* the sessions it knows, named after the call that made them
  restarts,
  at,        \* where a call is
  session,   \* the session it has
  runs,      \* how often the server has run its tool
  broken     \* the calls of which something was lost or refused for another reason

mcpVars == <<server, sessions, restarts, at, session, runs, broken>>

McpInit ==
  /\ server \in {"open", "named", "unnamed"}
  /\ sessions = {}
  /\ restarts = 0
  /\ at = [c \in Callers |-> "first"]
  /\ session = [c \in Callers |-> NoSession]
  /\ runs = [c \in Callers |-> 0]
  /\ broken = {}

\* A server without names takes any session for every caller's.
Accepts(c) ==
  CASE server = "open" -> TRUE
    [] server = "named" -> session[c] \in sessions
    [] server = "unnamed" -> sessions # {}

Goes(c, to) == at' = [at EXCEPT ![c] = to]

\* A request is lost before or after the server has done its part.
Lose(c) ==
  /\ broken' = broken \cup {c}
  /\ Goes(c, "error")

(***************************************************************************)
(* The tool's request, first or second.                                    *)
(***************************************************************************)
Run(c) ==
  /\ Accepts(c)
  /\ runs' = [runs EXCEPT ![c] = @ + 1]
  /\ \/ Goes(c, "ok") /\ UNCHANGED broken
     \/ Lose(c)

Refused(c) ==
  /\ ~Accepts(c)
  /\ Goes(c, IF at[c] = "first" THEN "initialize" ELSE "error")
  /\ UNCHANGED <<runs, broken>>

CallTool(c) ==
  /\ at[c] \in {"first", "second"}
  /\ \/ Run(c)
     \/ Refused(c)
     \/ Lose(c) /\ UNCHANGED runs
  /\ UNCHANGED <<server, sessions, restarts, session>>

(***************************************************************************)
(* The session of a call.                                                  *)
(***************************************************************************)
InitializeUnnamed(c) ==
  /\ at[c] = "initialize"
  /\ \/ sessions' = sessions \cup {c} /\ session' = session
        /\ Goes(c, "notify") /\ UNCHANGED broken
     \/ sessions' \in {sessions, sessions \cup {c}} /\ Lose(c) /\ UNCHANGED session
  /\ UNCHANGED <<server, restarts, runs>>

Initialize(c) ==
  /\ at[c] = "initialize"
  /\ \/ sessions' = sessions \cup {c}
        /\ session' = [session EXCEPT ![c] = IF server = "named" THEN c ELSE @]
        /\ Goes(c, "notify") /\ UNCHANGED broken
     \/ sessions' \in {sessions, sessions \cup {c}} /\ Lose(c) /\ UNCHANGED session
  /\ UNCHANGED <<server, restarts, runs>>

\* That the server does not know the notification is no error.
Notify(c) ==
  /\ at[c] = "notify"
  /\ \/ Goes(c, "second") /\ UNCHANGED broken
     \/ Lose(c)
  /\ UNCHANGED <<server, sessions, restarts, session, runs>>

RestartServer ==
  /\ restarts < MaxRestarts
  /\ restarts' = restarts + 1
  /\ sessions' = {}
  /\ UNCHANGED <<server, at, session, runs, broken>>

McpNext ==
  \/ \E c \in Callers : CallTool(c) \/ Initialize(c) \/ Notify(c)
  \/ RestartServer

McpSpec == McpInit /\ [][McpNext]_mcpVars

(***************************************************************************)
(* Properties.                                                             *)
(***************************************************************************)
\* A call has no session but its own, and every variable keeps its type.
McpTypeOK ==
  /\ sessions \subseteq Callers
  /\ \A c \in Callers :
       /\ at[c] \in {"first", "initialize", "notify", "second", "ok", "error"}
       /\ session[c] \in {c, NoSession}
       /\ runs[c] \in Nat

\* A call that is answered has run its tool once, and no call runs it twice,
\* whatever is lost: only what the server refused is tried again.
RunAtMostOnce ==
  \A c \in Callers :
    /\ runs[c] <= 1
    /\ at[c] = "ok" => runs[c] = 1

\* A call fails only if something of its own is lost or the server is
\* restarted: other calls and their sessions do not disturb it.
FailsForAReason ==
  \A c \in Callers : at[c] = "error" => c \in broken \/ restarts > 0

\* A call runs its tool at most once, and no call fails because of another.
CallsKeptApart ==
  /\ McpTypeOK
  /\ RunAtMostOnce
  /\ FailsForAReason
=============================================================================
