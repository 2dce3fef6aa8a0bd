-------------------------- MODULE ConfirmableAction --------------------------
(***************************************************************************)
(* Confirming a suggested tool call (ExecuteConfirmableAction).  A message *)
(* carries several actions, in its metadata and among its tool calls.  A   *)
(* request reads the message, runs the tool outside any transaction, and   *)
(* then writes the whole metadata it read, with its own action changed.    *)
(* Requests run concurrently, the process may stop between any two steps,  *)
(* and RerunMessage may soft-delete the message.                           *)
(***************************************************************************)
EXTENDS Naturals, FiniteSets

CONSTANTS
  Requests,    \* requests to execute an action
  Actions,     \* actions of the message
  ActionOf,    \* the action a request names
  Continuing   \* requests that ask to continue afterwards

ASSUME RequestsAssumption ==
  /\ ActionOf \in [Requests -> Actions]
  /\ Continuing \subseteq Requests

NoRequest == "no request"

VARIABLES
  meta,       \* status of every action in the message's metadata
  calls,      \* the request whose result a tool call of the message shows
  deleted,    \* was the message soft-deleted?
  pc,         \* where a request is
  readMeta,   \* the metadata a request has read
  readCalls,  \* the tool calls a request has read
  outcome,    \* how the tool of a request ended
  events,     \* event messages of the chat: request and phase
  queued,     \* requests whose continuation was given to the queue
  overlapped  \* history: has a request begun while another was under way?

vars == <<meta, calls, deleted, pc, readMeta, readCalls, outcome, events,
          queued, overlapped>>

Init ==
  /\ meta = [a \in Actions |-> "pending"]
  /\ calls = [a \in Actions |-> NoRequest]
  /\ deleted = FALSE
  /\ pc = [r \in Requests |-> "new"]
  /\ readMeta = [r \in Requests |-> meta]
  /\ readCalls = [r \in Requests |-> calls]
  /\ outcome = [r \in Requests |-> "none"]
  /\ events = {}
  /\ queued = {}
  /\ overlapped = FALSE

UnderWay == {r \in Requests : pc[r] \in {"read", "ran"}}

\* Fault: the status of the action is not looked at.
ReadUnchecked(r) ==
  /\ pc[r] = "new"
  /\ ~deleted
  /\ pc' = [pc EXCEPT ![r] = "read"]
  /\ readMeta' = [readMeta EXCEPT ![r] = meta]
  /\ readCalls' = [readCalls EXCEPT ![r] = calls]
  /\ overlapped' = (overlapped \/ UnderWay # {})
  /\ UNCHANGED <<meta, calls, deleted, outcome, events, queued>>

\* The message is read, and its action is pending.
Read(r) ==
  /\ pc[r] = "new"
  /\ ~deleted
  /\ meta[ActionOf[r]] = "pending"
  /\ pc' = [pc EXCEPT ![r] = "read"]
  /\ readMeta' = [readMeta EXCEPT ![r] = meta]
  /\ readCalls' = [readCalls EXCEPT ![r] = calls]
  /\ overlapped' = (overlapped \/ UnderWay # {})
  /\ UNCHANGED <<meta, calls, deleted, outcome, events, queued>>

\* The request is refused: the message is gone, the action was handled, or the
\* tool or its input is not usable.
Refuse(r) ==
  /\ \/ pc[r] = "new" /\ (deleted \/ meta[ActionOf[r]] # "pending")
     \/ pc[r] = "read"
  /\ pc' = [pc EXCEPT ![r] = "refused"]
  /\ UNCHANGED <<meta, calls, deleted, readMeta, readCalls, outcome, events,
                 queued, overlapped>>

Run(r) ==
  /\ pc[r] = "read"
  /\ pc' = [pc EXCEPT ![r] = "ran"]
  /\ \E o \in {"executed", "failed"} : outcome' = [outcome EXCEPT ![r] = o]
  /\ UNCHANGED <<meta, calls, deleted, readMeta, readCalls, events, queued,
                 overlapped>>

Phases(r) ==
  {<<r, "requested">>,
   <<r, IF outcome[r] = "executed" THEN "completed" ELSE "failed">>}

Succeeded(r) == outcome[r] = "executed"

\* The metadata written back: what was read, with the outcome of the action.
Status(r) == [readMeta[r] EXCEPT ![ActionOf[r]] = outcome[r]]

\* The tool calls written back, after a success only.
Results(r) ==
  IF Succeeded(r) THEN [readCalls[r] EXCEPT ![ActionOf[r]] = r] ELSE calls

\* One transaction: the message, unless it was deleted, and two events.
Commit(r) ==
  /\ pc[r] = "ran"
  /\ pc' = [pc EXCEPT ![r] = "committed"]
  /\ meta' = IF deleted THEN meta ELSE Status(r)
  /\ calls' = IF deleted THEN calls ELSE Results(r)
  /\ events' = events \cup Phases(r)
  /\ UNCHANGED <<deleted, readMeta, readCalls, outcome, queued, overlapped>>

\* Fault: the events are not part of the transaction.
CommitFailsHalfway(r) ==
  /\ pc[r] = "ran"
  /\ pc' = [pc EXCEPT ![r] = "error"]
  /\ events' = events \cup {<<r, "requested">>}
  /\ UNCHANGED <<meta, calls, deleted, readMeta, readCalls, outcome, queued,
                 overlapped>>

\* The transaction fails, the answer is 500: the tool has been run.
CommitFails(r) ==
  /\ pc[r] = "ran"
  /\ pc' = [pc EXCEPT ![r] = "error"]
  /\ UNCHANGED <<meta, calls, deleted, readMeta, readCalls, outcome, events,
                 queued, overlapped>>

\* The reply that continues the chat is scheduled; an error is ignored.
Continue(r) ==
  /\ pc[r] = "committed"
  /\ pc' = [pc EXCEPT ![r] = "answered"]
  /\ \/ /\ r \in Continuing
        /\ Succeeded(r)
        /\ queued' = queued \cup {r}
     \/ UNCHANGED queued
  /\ UNCHANGED <<meta, calls, deleted, readMeta, readCalls, outcome, events,
                 overlapped>>

DeleteMessage ==
  /\ ~deleted
  /\ deleted' = TRUE
  /\ UNCHANGED <<meta, calls, pc, readMeta, readCalls, outcome, events, queued,
                 overlapped>>

\* The process stops: every request under way is lost.
Stop ==
  /\ \E r \in Requests : pc[r] \in {"read", "ran", "committed"}
  /\ pc' = [r \in Requests |->
              IF pc[r] \in {"read", "ran", "committed"} THEN "lost" ELSE pc[r]]
  /\ UNCHANGED <<meta, calls, deleted, readMeta, readCalls, outcome, events,
                 queued, overlapped>>

Request(r) ==
  Read(r) \/ Refuse(r) \/ Run(r) \/ Commit(r) \/ CommitFails(r) \/ Continue(r)

Next ==
  \/ \E r \in Requests : Request(r)
  \/ DeleteMessage
  \/ Stop

Spec == Init /\ [][Next]_vars

-----------------------------------------------------------------------------
Statuses == {"pending", "executed", "failed"}

\* Every variable keeps its type.
TypeOK ==
  /\ meta \in [Actions -> Statuses]
  /\ calls \in [Actions -> Requests \cup {NoRequest}]
  /\ deleted \in BOOLEAN
  /\ pc \in [Requests -> {"new", "read", "ran", "committed", "answered",
                          "refused", "error", "lost"}]
  /\ readMeta \in [Requests -> [Actions -> Statuses]]
  /\ readCalls \in [Requests -> [Actions -> Requests \cup {NoRequest}]]
  /\ outcome \in [Requests -> {"none", "executed", "failed"}]
  /\ events \subseteq Requests \X {"requested", "completed", "failed"}
  /\ queued \subseteq Continuing
  /\ overlapped \in BOOLEAN

Handled == {r \in Requests : <<r, "requested">> \in events}

\* Whatever the order of stale writes, a status the message shows was the
\* outcome of a request for that action that was committed, and a result shown
\* with a tool call came from one that succeeded.
StatusHasCause ==
  \A a \in Actions :
    /\ meta[a] # "pending" =>
         \E r \in Handled : ActionOf[r] = a /\ outcome[r] = meta[a]
    /\ calls[a] # NoRequest =>
         /\ calls[a] \in Handled
         /\ ActionOf[calls[a]] = a
         /\ Succeeded(calls[a])

\* Events come in pairs that fit the outcome, and only with the commit; a
\* continuation starts from an event that exists, of a tool that succeeded.
EventsMatchOutcome ==
  /\ \A r \in Requests :
       {e \in events : e[1] = r} = IF r \in Handled THEN Phases(r) ELSE {}
  /\ queued \subseteq {r \in Handled : Succeeded(r)}

\* As long as requests do not overlap, an action is handled at most once, and
\* the message shows the outcome of every request handled while it existed.
HandledOnceInSequence ==
  ~overlapped =>
    \A r \in Handled :
      /\ \A s \in Handled : ActionOf[s] = ActionOf[r] => s = r
      /\ ~deleted => meta[ActionOf[r]] = outcome[r]
      /\ ~deleted /\ Succeeded(r) => calls[ActionOf[r]] = r

\* "Action already handled" (confirmable_actions.go:161): an action that was
\* handled is never pending again.  Violated by the commit of another action's
\* request, which writes the metadata back as it read it before.
StaysHandled ==
  [][\A a \in Actions : meta[a] # "pending" => meta'[a] # "pending"]_vars

\* What is shown of an action is what happened to it: its status has a cause,
\* its events are those of its outcome, and requests that do not overlap handle
\* it once.
OutcomesTold ==
  /\ TypeOK
  /\ StatusHasCause
  /\ EventsMatchOutcome
  /\ HandledOnceInSequence
=============================================================================
