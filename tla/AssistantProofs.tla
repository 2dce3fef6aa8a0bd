--------------------------- MODULE AssistantProofs ---------------------------
(***************************************************************************)
(* What bots are and do besides replying, for any number of requests,      *)
(* bots, tasks and processes: the actions people confirm, the tools that   *)
(* run in the background, the cache of the proxy, and the profiles of bots *)
(* through requests and starts of the server.                              *)
(***************************************************************************)
EXTENDS ConfirmableAction, BotProfiles, ToolQueue, ProxyCache, FiniteSetTheorems, TLAPS

(***************************************************************************)
(* Confirmable actions: stale writes, lost requests, a deleted message.    *)
(***************************************************************************)

\* A status, stored or read, came from a committed request for the action, and
\* so did a result.
StatusCause(m) ==
  \A a \in Actions : m[a] # "pending" =>
    \E r \in Handled : ActionOf[r] = a /\ outcome[r] = m[a]

ResultCause(c) ==
  \A a \in Actions : c[a] # NoRequest =>
    c[a] \in Handled /\ ActionOf[c[a]] = a /\ Succeeded(c[a])

\* What every request knows: what it has read has a cause, and its tool has
\* ended before anything is committed.
RequestInv ==
  \A r \in Requests :
    /\ StatusCause(readMeta[r])
    /\ ResultCause(readCalls[r])
    /\ pc[r] \in {"new", "read"} => r \notin Handled /\ outcome[r] = "none"
    /\ pc[r] = "ran" => r \notin Handled /\ outcome[r] # "none"
    /\ pc[r] = "committed" => r \in Handled
    /\ r \in Handled => outcome[r] # "none"

\* Without overlap a request under way is alone, has read what is stored, and
\* nobody has handled its action.
AloneInv ==
  ~overlapped =>
    \A r \in UnderWay :
      /\ readMeta[r] = meta
      /\ readCalls[r] = calls
      /\ \A s \in UnderWay : s = r
      /\ \A s \in Handled : ActionOf[s] # ActionOf[r]

IInv ==
  /\ TypeOK
  /\ StatusHasCause
  /\ EventsMatchOutcome
  /\ RequestInv
  /\ AloneInv
  /\ HandledOnceInSequence

-----------------------------------------------------------------------------
LEMMA InitInv == Init => IInv
<1> SUFFICES ASSUME Init PROVE IInv
  OBVIOUS
<1> USE RequestsAssumption DEF Init
<1>1. TypeOK
  BY DEF TypeOK, Statuses
<1>2. Handled = {} /\ UnderWay = {}
  BY DEF Handled, UnderWay
<1>3. StatusHasCause /\ EventsMatchOutcome /\ AloneInv /\ HandledOnceInSequence
  BY <1>2 DEF StatusHasCause, EventsMatchOutcome, AloneInv,
              HandledOnceInSequence
<1>4. RequestInv
  BY <1>2 DEF RequestInv, StatusCause, ResultCause
<1> QED
  BY <1>1, <1>3, <1>4 DEF IInv

\* A step that leaves the chat and the outcomes alone keeps what is said of
\* them.
LEMMA ChatUnchanged ==
  ASSUME IInv, UNCHANGED <<meta, calls, outcome, events, queued>>,
         ~deleted' => ~deleted,
         ~overlapped' => ~overlapped
  PROVE  /\ Handled' = Handled
         /\ StatusHasCause'
         /\ EventsMatchOutcome'
         /\ HandledOnceInSequence'
<1>1. Handled' = Handled
  BY DEF Handled
<1>2. \A r : Succeeded(r)' <=> Succeeded(r)
  BY DEF Succeeded
<1>3. StatusHasCause'
  BY <1>1, <1>2 DEF IInv, StatusHasCause
<1>4. EventsMatchOutcome'
  BY <1>1, <1>2 DEF IInv, EventsMatchOutcome, Phases
<1>5. HandledOnceInSequence'
  BY <1>1, <1>2 DEF IInv, HandledOnceInSequence
<1> QED
  BY <1>1, <1>3, <1>4, <1>5

LEMMA ReadStep == ASSUME IInv, NEW r \in Requests, Read(r) PROVE IInv'
<1> USE RequestsAssumption DEF IInv
<1>1. TypeOK'
  BY DEF Read, TypeOK
<1>2. Handled' = Handled
  BY DEF Read, Handled
<1>3. StatusHasCause' /\ EventsMatchOutcome' /\ HandledOnceInSequence'
  BY ChatUnchanged DEF Read
<1>4. RequestInv'
  BY <1>2 DEF Read, RequestInv, StatusCause, ResultCause, Succeeded,
              StatusHasCause, TypeOK
<1>5. AloneInv'
  <2> SUFFICES ASSUME ~overlapped' PROVE AloneInv'
    BY DEF AloneInv
  <2>1. ~overlapped /\ UnderWay = {}
    BY DEF Read
  <2>2. UnderWay' \subseteq {r}
    BY <2>1 DEF Read, UnderWay, TypeOK
  <2>3. readMeta'[r] = meta' /\ readCalls'[r] = calls'
    BY DEF Read, TypeOK
  <2>4. ASSUME NEW s \in Handled PROVE ActionOf[s] # ActionOf[r]
    <3>1. s \in Requests
      BY DEF Handled
    <3>2. meta[ActionOf[s]] = outcome[s]
      BY <2>1, <3>1 DEF Read, HandledOnceInSequence
    <3>3. outcome[s] \in {"executed", "failed"}
      BY <3>1 DEF RequestInv, TypeOK
    <3>4. meta[ActionOf[r]] = "pending"
      BY DEF Read
    <3> QED
      BY <3>2, <3>3, <3>4
  <2> QED
    BY <1>2, <2>2, <2>3, <2>4 DEF AloneInv
<1> QED
  BY <1>1, <1>3, <1>4, <1>5

\* A request ends or runs its tool, without touching the chat.
LEMMA RunStep == ASSUME IInv, NEW r \in Requests, Run(r) PROVE IInv'
<1> USE RequestsAssumption DEF IInv
<1>0. PICK o \in {"executed", "failed"} : outcome' = [outcome EXCEPT ![r] = o]
  BY DEF Run
<1>1. TypeOK'
  BY <1>0 DEF Run, TypeOK
<1>2. Handled' = Handled /\ r \notin Handled
  BY DEF Run, Handled, RequestInv
<1>3. \A s \in Handled : outcome'[s] = outcome[s] /\ (Succeeded(s)' <=> Succeeded(s))
  BY <1>0, <1>2 DEF TypeOK, Succeeded
<1>4. StatusHasCause'
  BY <1>2, <1>3 DEF Run, StatusHasCause, TypeOK
<1>5. EventsMatchOutcome'
  <2>1. \A s \in Handled : Phases(s)' = Phases(s)
    BY <1>3 DEF Phases
  <2> QED
    BY <1>2, <1>3, <2>1 DEF Run, EventsMatchOutcome
<1>6. HandledOnceInSequence'
  BY <1>2, <1>3 DEF Run, HandledOnceInSequence
<1>7. RequestInv'
  BY <1>0, <1>2, <1>3 DEF Run, RequestInv, StatusCause, ResultCause, TypeOK
<1>8. AloneInv'
  <2>1. UnderWay' = UnderWay
    BY DEF Run, UnderWay, TypeOK
  <2> QED
    BY <1>2, <2>1 DEF Run, AloneInv
<1> QED
  BY <1>1, <1>4, <1>5, <1>6, <1>7, <1>8

LEMMA EndStep ==
  ASSUME IInv, NEW r \in Requests, Refuse(r) \/ CommitFails(r) PROVE IInv'
<1> USE RequestsAssumption DEF IInv, Refuse, CommitFails
<1>1. TypeOK'
  BY DEF TypeOK
<1>2. Handled' = Handled
  BY DEF Handled
<1>3. StatusHasCause' /\ EventsMatchOutcome' /\ HandledOnceInSequence'
  BY ChatUnchanged
<1>4. RequestInv'
  BY <1>2 DEF RequestInv, StatusCause, ResultCause, Succeeded, TypeOK
<1>5. AloneInv'
  <2>1. UnderWay' \subseteq UnderWay
    BY DEF UnderWay, TypeOK
  <2> QED
    BY <1>2, <2>1 DEF AloneInv
<1> QED
  BY <1>1, <1>3, <1>4, <1>5

LEMMA ContinueStep ==
  ASSUME IInv, NEW r \in Requests, Continue(r) PROVE IInv'
<1> USE RequestsAssumption DEF IInv, Continue
<1>1. TypeOK'
  BY DEF TypeOK
<1>2. Handled' = Handled /\ r \in Handled
  BY DEF Handled, RequestInv
<1>3. \A s : Succeeded(s)' <=> Succeeded(s)
  BY DEF Succeeded
<1>4. StatusHasCause' /\ HandledOnceInSequence'
  BY <1>2, <1>3 DEF StatusHasCause, HandledOnceInSequence
<1>5. EventsMatchOutcome'
  BY <1>2, <1>3 DEF EventsMatchOutcome, Phases
<1>6. RequestInv'
  BY <1>2, <1>3 DEF RequestInv, StatusCause, ResultCause, TypeOK
<1>7. AloneInv'
  <2>1. UnderWay' = UnderWay
    BY DEF UnderWay, TypeOK
  <2> QED
    BY <1>2, <2>1 DEF AloneInv
<1> QED
  BY <1>1, <1>4, <1>5, <1>6, <1>7

LEMMA OutsideStep == ASSUME IInv, DeleteMessage \/ Stop PROVE IInv'
<1> USE RequestsAssumption DEF IInv, DeleteMessage, Stop
<1>1. TypeOK'
  BY DEF TypeOK
<1>2. Handled' = Handled
  BY DEF Handled
<1>3. StatusHasCause' /\ EventsMatchOutcome' /\ HandledOnceInSequence'
  BY ChatUnchanged
<1>4. RequestInv'
  BY <1>2 DEF RequestInv, StatusCause, ResultCause, Succeeded, TypeOK
<1>5. AloneInv'
  <2>1. UnderWay' \subseteq UnderWay
    BY DEF UnderWay, TypeOK
  <2> QED
    BY <1>2, <2>1 DEF AloneInv
<1> QED
  BY <1>1, <1>3, <1>4, <1>5

\* The write of a request: causes survive, because what was read had them and
\* the request is a cause of what it adds.
LEMMA CommitStep == ASSUME IInv, NEW r \in Requests, Commit(r) PROVE IInv'
<1> USE RequestsAssumption DEF IInv
<1>1. /\ r \in UnderWay
      /\ r \notin Handled
      /\ outcome[r] \in {"executed", "failed"}
      /\ outcome' = outcome
      /\ events' = events \cup Phases(r)
  BY DEF Commit, UnderWay, RequestInv, TypeOK
<1>2. Handled' = Handled \cup {r}
  BY <1>1 DEF Handled, Phases
<1>3. \A s : Succeeded(s)' <=> Succeeded(s)
  BY <1>1 DEF Succeeded
<1>4. Status(r) \in [Actions -> Statuses]
      /\ Results(r) \in [Actions -> Requests \cup {NoRequest}]
  BY <1>1 DEF Status, Results, TypeOK, Statuses
<1>5. TypeOK'
  <2>1. events' \subseteq Requests \X {"requested", "completed", "failed"}
    BY <1>1 DEF Phases, TypeOK
  <2> QED
    BY <1>4, <2>1 DEF Commit, TypeOK
<1>6. StatusHasCause'
  <2>1. \A a \in Actions : Status(r)[a] # "pending" =>
          \E s \in Handled' : ActionOf[s] = a /\ outcome[s] = Status(r)[a]
    BY <1>1, <1>2 DEF Status, RequestInv, StatusCause, TypeOK
  <2>2. \A a \in Actions : Results(r)[a] # NoRequest =>
          /\ Results(r)[a] \in Handled'
          /\ ActionOf[Results(r)[a]] = a
          /\ Succeeded(Results(r)[a])
    BY <1>1, <1>2 DEF Results, RequestInv, ResultCause, StatusHasCause, TypeOK
  <2> QED
    BY <1>1, <1>2, <1>3, <2>1, <2>2 DEF Commit, StatusHasCause
<1>7. EventsMatchOutcome'
  <2>1. \A s : Phases(s)' = Phases(s)
    BY <1>1 DEF Phases
  <2>2. ASSUME NEW s \in Requests
        PROVE  {e \in events' : e[1] = s} =
                 IF s \in Handled' THEN Phases(s) ELSE {}
    BY <1>1, <1>2, <2>2 DEF EventsMatchOutcome, Phases
  <2> QED
    BY <1>2, <1>3, <2>1, <2>2 DEF Commit, EventsMatchOutcome
<1>8. RequestInv'
  BY <1>1, <1>2, <1>3 DEF Commit, RequestInv, StatusCause, ResultCause, TypeOK
<1>9. UnderWay' = UnderWay \ {r}
  BY DEF Commit, UnderWay, TypeOK
<1>10. AloneInv'
  BY <1>1, <1>9 DEF Commit, AloneInv
<1>11. HandledOnceInSequence'
  <2> SUFFICES ASSUME ~overlapped', NEW s \in Handled'
               PROVE  /\ \A t \in Handled' : ActionOf[t] = ActionOf[s] => t = s
                      /\ ~deleted' => meta'[ActionOf[s]] = outcome[s]
                      /\ ~deleted' /\ Succeeded(s) => calls'[ActionOf[s]] = s
    BY <1>1, <1>3 DEF HandledOnceInSequence
  <2>1. /\ ~overlapped
        /\ readMeta[r] = meta
        /\ readCalls[r] = calls
        /\ \A t \in Handled : ActionOf[t] # ActionOf[r]
    BY <1>1 DEF Commit, AloneInv
  <2>2. \A t \in Handled' : ActionOf[t] = ActionOf[s] => t = s
    BY <1>2, <2>1 DEF HandledOnceInSequence
  <2>3. s \in Requests /\ ActionOf[s] \in Actions
    BY DEF Handled
  <2>4. ~deleted' => meta'[ActionOf[s]] = outcome[s]
    BY <1>2, <2>1, <2>3 DEF Commit, Status, HandledOnceInSequence, TypeOK
  <2>5. ~deleted' /\ Succeeded(s) => calls'[ActionOf[s]] = s
    BY <1>2, <2>1, <2>3 DEF Commit, Results, HandledOnceInSequence, TypeOK
  <2> QED
    BY <2>2, <2>4, <2>5
<1> QED
  BY <1>5, <1>6, <1>7, <1>8, <1>10, <1>11

LEMMA NextInv == IInv /\ [Next]_vars => IInv'
<1> SUFFICES ASSUME IInv, [Next]_vars PROVE IInv'
  OBVIOUS
<1>1. CASE UNCHANGED vars
  <2> USE <1>1 DEF IInv, vars
  <2>1. Handled' = Handled /\ UnderWay' = UnderWay
    BY DEF Handled, UnderWay
  <2>2. TypeOK'
    BY DEF TypeOK
  <2>3. StatusHasCause' /\ EventsMatchOutcome' /\ HandledOnceInSequence'
    BY ChatUnchanged
  <2>4. RequestInv'
    BY <2>1 DEF RequestInv, StatusCause, ResultCause, Succeeded
  <2>5. AloneInv'
    BY <2>1 DEF AloneInv
  <2> QED
    BY <2>2, <2>3, <2>4, <2>5
<1>2. CASE Next
  BY <1>2, ReadStep, EndStep, RunStep, CommitStep, ContinueStep, OutsideStep
     DEF Next, Request
<1> QED
  BY <1>1, <1>2

-----------------------------------------------------------------------------
\* Every reachable state satisfies the inductive invariant.
THEOREM Inductive == Spec => []IInv
  BY InitInv, NextInv, PTL DEF Spec

\* Every variable keeps its type.
THEOREM TypeCorrect == Spec => []TypeOK
  BY Inductive, PTL DEF IInv

\* Stale writes never invent a status or a result.
THEOREM CausesKept == Spec => []StatusHasCause
  BY Inductive, PTL DEF IInv

\* Events are as atomic as the transaction that writes them.
THEOREM EventsAtomic == Spec => []EventsMatchOutcome
  BY Inductive, PTL DEF IInv

\* Requests that do not overlap handle an action once.
THEOREM OnceInSequence == Spec => []HandledOnceInSequence
  BY Inductive, PTL DEF IInv

\* What is shown of an action is what happened to it (ExecuteConfirmableAction).
THEOREM OutcomesShown == Spec => []OutcomesTold
BY TypeCorrect, CausesKept, EventsAtomic, OnceInSequence, PTL DEF OutcomesTold

(***************************************************************************)
(* The queue: attempts that outlive their time, workers that stop.         *)
(***************************************************************************)

\* What every variable holds.  The Redis of a process is the external one or its own.
QueueTypes ==
  /\ reachable \in BOOLEAN /\ silent \subseteq Processes
  /\ store \in [Processes -> Processes \cup {"external", NoStore}]
  /\ \A p \in Processes : store[p] \in {NoStore, "external", p}
  /\ task \in [Tasks -> [state : {"new", "pending", "active", "retry", "completed",
                                  "archived", "gone"},
                         retried : 0 .. RetryLimit,
                         home : Processes \cup {"external", NoStore}]]
  /\ current \in [Tasks -> 0 .. MaxAttempts]
  /\ begun \in [Tasks -> 0 .. MaxAttempts]
  /\ runner \in [Attempts -> Working \cup {Server}]
  /\ progress \in [Attempts -> {"none", "checking", "running", "refused", "failed",
                                "noting", "succeeded", "writing", "ok", "error",
                                "over", "lost"}]
  /\ ran \in [Attempts -> {"no", "success", "failure"}]
  /\ rows \subseteq [attempt : Attempts, says : {"success", "failure"}]
  /\ result \in [Tasks -> {"none", "success", "failure"}]
  /\ requeued \subseteq Attempts

\* An attempt that has not begun has left no trace, one that has not come to its
\* tool has not run it, and one that ends well has.
AttemptInv ==
  \A a \in Attempts :
    /\ a[2] > begun[a[1]] => progress[a] = "none" /\ a \notin requeued
    /\ progress[a] \in {"none", "checking", "running"} => ran[a] = "no"
    /\ progress[a] \in {"succeeded", "writing", "ok"} => ran[a] = "success"

RowsInv == \A w \in rows : w.says = "success" => ran[w.attempt] = "success"

\* The queue waits for the newest attempt, on the Redis of its process.
WaitInv ==
  \A t \in Tasks : current[t] # 0 =>
    /\ current[t] = begun[t]
    /\ task[t].state = "active"
    /\ task[t].home # NoStore
    /\ store[runner[<<t, current[t]>>]] = task[t].home
    /\ <<t, current[t]>> \notin requeued

\* Every attempt but the first is one the queue was asked for or one that was
\* put back.
Spent(t) == IF task[t].state \in {"new", "pending", "retry"} THEN 0 ELSE 1

BudgetInv ==
  \A t \in Tasks :
    begun[t] <= Spent(t) + task[t].retried + Cardinality(requeued \cap Of(t))

\* A Redis is the external one, or its process is alone with it; a task waits in
\* the external one or in that of the running server.
Kept(home) == home = "external" \/ (home = Server /\ store[Server] = Server)

HomeInv ==
  /\ \A p \in Processes : store[p] \in {NoStore, "external"} \/ Alone(p)
  /\ \A t \in Tasks : task[t].state \in {"pending", "active", "retry"} =>
       Kept(task[t].home)

QueueInv ==
  /\ QueueTypes
  /\ AttemptInv
  /\ RowsInv
  /\ CompletedRan
  /\ WaitInv
  /\ BudgetInv
  /\ HomeInv

LEMMA QueueInitInv == QueueInit => QueueInv
<1> SUFFICES ASSUME QueueInit PROVE QueueInv
  OBVIOUS
<1> USE ToolQueueAssumption DEF QueueInit
<1>1. 0 \in 0 .. RetryLimit /\ 0 \in 0 .. MaxAttempts
  OBVIOUS
<1>2. QueueTypes
  BY <1>1 DEF QueueTypes, NoStore
<1>3. AttemptInv /\ RowsInv
  BY DEF AttemptInv, RowsInv
<1>4. CompletedRan /\ WaitInv /\ HomeInv
  BY DEF CompletedRan, WaitInv, HomeInv
<1>5. BudgetInv
  <2> SUFFICES ASSUME NEW t \in Tasks
               PROVE  begun[t] <= Spent(t) + task[t].retried + Cardinality(requeued \cap Of(t))
    BY DEF BudgetInv
  <2>1. requeued \cap Of(t) = {}
    OBVIOUS
  <2>2. Spent(t) = 0 /\ begun[t] = 0 /\ task[t].retried = 0
    BY DEF Spent
  <2> QED
    BY <2>1, <2>2, FS_EmptySet
<1> QED
  BY <1>2, <1>3, <1>4, <1>5 DEF QueueInv

\* There are no more attempts at a task than numbers for them.
LEMMA OfBounded ==
  ASSUME NEW t \in Tasks, NEW k \in Nat, NEW S \in SUBSET Of(t),
         \A a \in S : a[2] <= k
  PROVE  IsFiniteSet(S) /\ Cardinality(S) \in Nat /\ Cardinality(S) <= k
<1> DEFINE f == [a \in S |-> a[2]]
<1>1. \A a \in S : a = <<t, a[2]>> /\ a[2] \in 1 .. k
  BY ToolQueueAssumption DEF Of, Attempts
<1>2. f \in Injection(S, 1 .. k)
  BY <1>1 DEF Injection, IsInjective
<1>3. IsFiniteSet(1 .. k) /\ Cardinality(1 .. k) <= k
  BY FS_Interval
<1>4. IsFiniteSet(S) /\ Cardinality(S) <= Cardinality(1 .. k)
  BY <1>2, <1>3, FS_Injection
<1>5. Cardinality(S) \in Nat /\ Cardinality(1 .. k) \in Nat
  BY <1>3, <1>4, FS_CardinalityType
<1> QED
  BY <1>3, <1>4, <1>5

LEMMA RequeuedFinite ==
  ASSUME QueueTypes, NEW t \in Tasks
  PROVE  /\ IsFiniteSet(requeued \cap Of(t))
         /\ Cardinality(requeued \cap Of(t)) \in Nat
<1>1. \A a \in requeued \cap Of(t) : a[2] <= MaxAttempts
  BY ToolQueueAssumption DEF Of, Attempts
<1> QED
  BY <1>1, OfBounded, ToolQueueAssumption

LEMMA QueueNumbers ==
  ASSUME QueueTypes, NEW t \in Tasks
  PROVE  /\ begun[t] \in Nat
         /\ task[t].retried \in Nat
         /\ Cardinality(requeued \cap Of(t)) \in Nat
<1>1. begun[t] \in 0 .. MaxAttempts /\ task[t].retried \in 0 .. RetryLimit
  BY DEF QueueTypes
<1> QED
  BY <1>1, RequeuedFinite, ToolQueueAssumption

LEMMA QueueHolds == QueueInv => RunsAccountedFor
<1> SUFFICES ASSUME QueueInv PROVE RunsAccountedFor
  OBVIOUS
<1> USE ToolQueueAssumption DEF QueueInv
<1>1. QueueTypeOK
  <2>1. \A t \in Tasks : current[t] \in 0 .. begun[t]
    <3> TAKE t \in Tasks
    <3>1. begun[t] \in Nat
      BY DEF QueueTypes
    <3>2. current[t] = 0 \/ current[t] = begun[t]
      BY DEF WaitInv
    <3> QED
      BY <3>1, <3>2
  <2>2. \A t \in Tasks : /\ task[t].state \in {"new", "pending", "active", "retry",
                                               "completed", "archived", "gone"}
                         /\ task[t].retried \in 0 .. RetryLimit
    BY DEF QueueTypes
  <2> QED
    BY <2>1, <2>2 DEF QueueTypeOK, QueueTypes, RowsInv
<1>2. RunsBounded
  <2> SUFFICES ASSUME NEW t \in Tasks
               PROVE  Cardinality({a \in Of(t) : ran[a] # "no"})
                        <= 1 + RetryLimit + Cardinality(requeued \cap Of(t))
    BY DEF RunsBounded
  <2> DEFINE done == {a \in Of(t) : ran[a] # "no"}
  <2>1. begun[t] \in Nat
    BY DEF QueueTypes
  <2>2. \A a \in done : a[2] <= begun[t]
    <3> SUFFICES ASSUME NEW a \in Attempts, a[1] = t, ran[a] # "no"
                 PROVE  a[2] <= begun[t]
      BY DEF Of
    <3>1. ~(a[2] > begun[t])
      BY DEF AttemptInv
    <3>2. a[2] \in Nat
      BY DEF Attempts
    <3> QED
      BY <2>1, <3>1, <3>2
  <2>3. Cardinality(done) \in Nat /\ Cardinality(done) <= begun[t]
    BY <2>1, <2>2, OfBounded DEF Of
  <2>4. begun[t] <= Spent(t) + task[t].retried + Cardinality(requeued \cap Of(t))
    BY DEF BudgetInv
  <2>5. Spent(t) \in {0, 1} /\ task[t].retried \in 0 .. RetryLimit
    BY DEF Spent, QueueTypes
  <2>6. Cardinality(requeued \cap Of(t)) \in Nat
    BY RequeuedFinite
  <2> HIDE DEF done
  <2>7. Cardinality(done) <= 1 + RetryLimit + Cardinality(requeued \cap Of(t))
    BY <2>1, <2>3, <2>4, <2>5, <2>6
  <2> QED
    BY <2>7 DEF done
<1>3. WaitsWhereTaken
  BY ToolQueueAssumption DEF WaitsWhereTaken, HomeInv, Kept, Alone, NoStore, QueueTypes
<1> QED
  BY <1>1, <1>2, <1>3 DEF RunsAccountedFor

\* The steps of an attempt, up to its end, leave the queue alone.
LEMMA AttemptStep ==
  ASSUME QueueInv, NEW a \in Attempts,
         \/ Check(a) \/ RunTool(a) \/ WriteFailure(a) \/ NoteFailure(a)
         \/ NoteSuccess(a) \/ WriteSuccess(a)
  PROVE  QueueInv'
<1> USE ToolQueueAssumption DEF QueueInv
<1>1. UNCHANGED <<reachable, store, task, current, begun, runner, silent, requeued>>
  BY DEF Check, RunTool, WriteFailure, NoteFailure, NoteSuccess, WriteSuccess
<1>2. PICK to, got :
        /\ progress' = [progress EXCEPT ![a] = to]
        /\ ran' = [ran EXCEPT ![a] = got]
        /\ progress[a] \notin {"none", "over", "lost"}
        /\ to \in {"running", "refused", "failed", "noting", "succeeded", "writing",
                   "ok", "error"}
        /\ got \in {"no", "success", "failure"}
        /\ to = "running" => got = "no"
        /\ to \in {"succeeded", "writing", "ok"} => got = "success"
        /\ got = ran[a] \/ ran[a] = "no"
  <2>1. ran \in [Attempts -> {"no", "success", "failure"}]
    BY DEF QueueTypes
  <2>2. ran = [ran EXCEPT ![a] = ran[a]]
    BY <2>1
  <2>3. CASE Check(a)
    BY <2>1, <2>2, <2>3 DEF Check, Advance, AttemptInv
  <2>4. CASE RunTool(a)
    BY <2>1, <2>4 DEF RunTool, Advance, AttemptInv
  <2>5. CASE WriteFailure(a)
    BY <2>1, <2>2, <2>5 DEF WriteFailure, Advance
  <2>6. CASE NoteFailure(a)
    BY <2>1, <2>2, <2>6 DEF NoteFailure, Advance
  <2>7. CASE NoteSuccess(a)
    BY <2>1, <2>2, <2>7 DEF NoteSuccess, Advance, AttemptInv
  <2>8. CASE WriteSuccess(a)
    BY <2>1, <2>2, <2>8 DEF WriteSuccess, Advance, AttemptInv
  <2> QED
    BY <2>3, <2>4, <2>5, <2>6, <2>7, <2>8
<1>3. \A b \in Attempts : /\ progress'[b] = IF b = a THEN to ELSE progress[b]
                          /\ ran'[b] = IF b = a THEN got ELSE ran[b]
  BY <1>2 DEF QueueTypes
<1>4. \A w \in rows' : \/ w \in rows
                       \/ /\ w \in [attempt : Attempts, says : {"success", "failure"}]
                          /\ w.attempt = a
                          /\ w.says = "success" => ran[a] = "success"
  <2>1. CASE UNCHANGED rows
    BY <2>1
  <2>2. CASE NoteFailure(a)
    BY <2>2 DEF NoteFailure, Persist
  <2>3. CASE NoteSuccess(a)
    BY <2>3 DEF NoteSuccess, Advance, Persist, AttemptInv
  <2> QED
    BY <2>1, <2>2, <2>3 DEF Check, RunTool, WriteFailure, WriteSuccess
<1>5. result' \in [Tasks -> {"none", "success", "failure"}]
  <2>1. a[1] \in Tasks
    BY DEF Attempts
  <2> QED
    BY <2>1 DEF QueueTypes, Check, RunTool, WriteFailure, NoteFailure, NoteSuccess,
                WriteSuccess
<1>6. QueueTypes'
  <2>1. rows' \subseteq [attempt : Attempts, says : {"success", "failure"}]
    BY <1>4 DEF QueueTypes
  <2>2. /\ progress' \in [Attempts -> {"none", "checking", "running", "refused",
                          "failed", "noting", "succeeded", "writing", "ok", "error",
                          "over", "lost"}]
        /\ ran' \in [Attempts -> {"no", "success", "failure"}]
    BY <1>2 DEF QueueTypes
  <2> QED
    BY <1>1, <1>5, <2>1, <2>2 DEF QueueTypes
<1>7. AttemptInv'
  BY <1>1, <1>2, <1>3 DEF AttemptInv
<1>8. RowsInv'
  <2>1. \A w \in rows' : w.attempt \in Attempts
    BY <1>4 DEF QueueTypes
  <2> QED
    BY <1>2, <1>3, <1>4, <2>1 DEF RowsInv
<1>9. CompletedRan'
  BY <1>1, <1>2, <1>3 DEF CompletedRan, Of
<1>10. WaitInv' /\ HomeInv'
  BY <1>1 DEF WaitInv, HomeInv, Kept, Alone
<1>11. BudgetInv'
  BY <1>1 DEF BudgetInv, Spent
<1> QED
  BY <1>6, <1>7, <1>8, <1>9, <1>10, <1>11

\* Nothing else than attempts changes what is said of them.
LEMMA AttemptsKept ==
  ASSUME QueueInv, UNCHANGED <<progress, ran, rows>>,
         \A t \in Tasks : begun'[t] = begun[t] /\ begun[t] \in Nat,
         \A a \in Attempts : a \in requeued' => a \in requeued \/ a[2] <= begun[a[1]]
  PROVE  AttemptInv' /\ RowsInv'
<1>1. \A a \in Attempts : a[1] \in Tasks /\ a[2] \in Nat
  BY ToolQueueAssumption DEF Attempts
<1>2. AttemptInv'
  BY <1>1 DEF QueueInv, AttemptInv
<1>3. RowsInv'
  BY DEF QueueInv, RowsInv
<1> QED
  BY <1>2, <1>3

LEMMA ComeOrGoStep == ASSUME QueueInv, ComeOrGo PROVE QueueInv'
<1> USE DEF QueueInv, ComeOrGo
<1>1. QueueTypes'
  BY DEF QueueTypes
<1>2. AttemptInv' /\ RowsInv' /\ CompletedRan' /\ WaitInv'
  BY DEF AttemptInv, RowsInv, CompletedRan, WaitInv
<1>3. BudgetInv'
  BY DEF BudgetInv, Spent
<1>4. HomeInv'
  BY DEF HomeInv, Kept, Alone
<1> QED
  BY <1>1, <1>2, <1>3, <1>4

LEMMA StartProcessStep ==
  ASSUME QueueInv, NEW p \in Processes, StartProcess(p) PROVE QueueInv'
<1> USE ToolQueueAssumption DEF QueueInv, StartProcess
<1>1. \A q \in Processes : store'[q] = IF q = p THEN Resolve(p) ELSE store[q]
  BY DEF QueueTypes
<1>2. Resolve(p) \in {"external", p}
  BY DEF Resolve
<1>3. QueueTypes'
  <2>1. store' \in [Processes -> Processes \cup {"external", NoStore}]
    BY <1>2 DEF QueueTypes
  <2>2. \A q \in Processes : store'[q] \in {NoStore, "external", q}
    BY <1>1, <1>2 DEF QueueTypes
  <2> QED
    BY <2>1, <2>2 DEF QueueTypes
<1>4. AttemptInv' /\ RowsInv' /\ CompletedRan'
  BY DEF AttemptInv, RowsInv, CompletedRan
<1>5. WaitInv'
  <2> SUFFICES ASSUME NEW t \in Tasks, current[t] # 0
               PROVE  store'[runner[<<t, current[t]>>]] = task[t].home
    BY DEF WaitInv
  <2>1. store[runner[<<t, current[t]>>]] = task[t].home /\ task[t].home # NoStore
    BY DEF WaitInv
  <2>2. <<t, current[t]>> \in Attempts
    BY DEF Attempts, QueueTypes
  <2>3. runner[<<t, current[t]>>] \in Processes
    BY <2>2 DEF QueueTypes
  <2> QED
    BY <1>1, <2>1, <2>3
<1>6. BudgetInv'
  BY DEF BudgetInv, Spent
<1>7. HomeInv'
  <2>1. \A q \in Processes : store'[q] \in {NoStore, "external"} \/ Alone(q)'
    BY <1>1, <1>2 DEF HomeInv, Alone, Resolve
  <2>2. \A h : Kept(h) => Kept(h)'
    BY <1>1 DEF Kept, NoStore
  <2> QED
    BY <2>1, <2>2 DEF HomeInv
<1> QED
  BY <1>3, <1>4, <1>5, <1>6, <1>7

\* What the queue does about one task: it goes from one state to another and may
\* count a retry.
LEMMA TaskStep ==
  ASSUME QueueInv, NEW t \in Tasks, NEW new,
         task' = [task EXCEPT ![t] = new],
         UNCHANGED <<reachable, store, begun, runner, ran, rows, result, silent, requeued>>,
         new \in [state : {"new", "pending", "active", "retry", "completed",
                           "archived", "gone"},
                  retried : 0 .. RetryLimit,
                  home : Processes \cup {"external", NoStore}],
         \/ current' = [current EXCEPT ![t] = 0]
         \/ current' = current /\ task[t].state # "active",
         progress' \in [Attempts -> {"none", "checking", "running", "refused", "failed",
                                     "noting", "succeeded", "writing", "ok", "error",
                                     "over", "lost"}],
         \A a \in Attempts : progress'[a] = progress[a]
                               \/ (progress[a] # "none" /\ progress'[a] = "over"),
         new.state = "completed" =>
           \E a \in Of(t) : ran[a] = "success" /\ progress'[a] = "over",
         \/ new.state \in {"active", "completed", "archived", "gone"}
              /\ new.retried = task[t].retried
         \/ /\ new.state = "retry" /\ new.retried = task[t].retried + 1
            /\ task[t].state \notin {"new", "pending", "retry"}
         \/ /\ new.state = "pending" /\ new.retried = task[t].retried
            /\ task[t].state = "new",
         new.state \in {"pending", "active", "retry"} => Kept(new.home)
  PROVE  QueueInv'
<1> USE ToolQueueAssumption DEF QueueInv
<1>1. \A u \in Tasks : task'[u] = IF u = t THEN new ELSE task[u]
  BY DEF QueueTypes
<1>2. \A u \in Tasks : current'[u] = current[u] \/ (u = t /\ current'[u] = 0)
  BY DEF QueueTypes
<1>3. current[t] # 0 => current'[t] = 0
  <2>1. CASE current' = [current EXCEPT ![t] = 0]
    BY <2>1 DEF QueueTypes
  <2>2. CASE task[t].state # "active"
    BY <1>2, <2>2 DEF WaitInv
  <2> QED
    BY <2>1, <2>2
<1>4. QueueTypes'
  <2>1. current' \in [Tasks -> 0 .. MaxAttempts]
    BY DEF QueueTypes
  <2>2. task' \in [Tasks -> [state : {"new", "pending", "active", "retry", "completed",
                                      "archived", "gone"},
                             retried : 0 .. RetryLimit,
                             home : Processes \cup {"external", NoStore}]]
    BY DEF QueueTypes
  <2> QED
    BY <2>1, <2>2 DEF QueueTypes
<1>5. AttemptInv' /\ RowsInv'
  BY DEF AttemptInv, RowsInv
<1>6. CompletedRan'
  BY <1>1 DEF CompletedRan, Of
<1>7. WaitInv'
  BY <1>1, <1>2, <1>3 DEF WaitInv
<1>8. BudgetInv'
  <2> SUFFICES ASSUME NEW u \in Tasks
               PROVE  begun[u] <= Spent(u)' + task'[u].retried
                                    + Cardinality(requeued \cap Of(u))
    BY DEF BudgetInv, Of
  <2>1. begun[u] <= Spent(u) + task[u].retried + Cardinality(requeued \cap Of(u))
    BY DEF BudgetInv
  <2>2. /\ Cardinality(requeued \cap Of(u)) \in Nat
        /\ task[u].retried \in Nat /\ begun[u] \in Nat
    BY QueueNumbers
  <2>3. CASE u # t
    BY <1>1, <2>1, <2>3 DEF Spent
  <2>4. CASE u = t
    <3>1. task'[u] = new
      BY <1>1, <2>4
    <3>2. Spent(u) + task[u].retried <= Spent(u)' + new.retried
      BY <2>2, <2>4, <3>1 DEF Spent
    <3>3. Spent(u) \in Nat /\ Spent(u)' \in Nat
      BY DEF Spent
    <3>4. new.retried \in Nat
      OBVIOUS
    <3> QED
      BY <2>1, <2>2, <3>1, <3>2, <3>3, <3>4
  <2> QED
    BY <2>3, <2>4
<1>9. HomeInv'
  BY <1>1 DEF HomeInv, Kept, Alone
<1> QED
  BY <1>4, <1>5, <1>6, <1>7, <1>8, <1>9

LEMMA AgainIs ==
  ASSUME QueueTypes, NEW t \in Tasks
  PROVE  /\ Again(t) \in [state : {"retry", "archived"}, retried : 0 .. RetryLimit,
                          home : Processes \cup {"external", NoStore}]
         /\ Again(t).home = task[t].home
         /\ \/ Again(t).state = "retry" /\ Again(t).retried = task[t].retried + 1
            \/ Again(t).state = "archived" /\ Again(t).retried = task[t].retried
<1>1. task[t] \in [state : {"new", "pending", "active", "retry", "completed",
                           "archived", "gone"},
                  retried : 0 .. RetryLimit,
                  home : Processes \cup {"external", NoStore}]
  BY DEF QueueTypes
<1>2. CASE task[t].retried < RetryLimit
  <2>1. Again(t) = [task[t] EXCEPT !.state = "retry", !.retried = @ + 1]
    BY <1>2 DEF Again
  <2>2. task[t].retried \in Nat /\ task[t].retried + 1 \in 0 .. RetryLimit
    BY <1>1, <1>2, ToolQueueAssumption
  <2>3. /\ Again(t) = [state |-> "retry", retried |-> task[t].retried + 1,
                       home |-> task[t].home]
        /\ task[t].home \in Processes \cup {"external", NoStore}
    BY <1>1, <2>1
  <2> QED
    BY <2>2, <2>3
<1>3. CASE ~(task[t].retried < RetryLimit)
  <2>1. Again(t) = [task[t] EXCEPT !.state = "archived"]
    BY <1>3 DEF Again
  <2> QED
    BY <1>1, <2>1, ToolQueueAssumption
<1> QED
  BY <1>2, <1>3

LEMMA EnqueueToolStep ==
  ASSUME QueueInv, NEW t \in Tasks, EnqueueTool(t) PROVE QueueInv'
<1> USE ToolQueueAssumption DEF QueueInv, EnqueueTool
<1> DEFINE new == [task[t] EXCEPT !.state = "pending", !.home = store[Server]]
<1>1. task' = [task EXCEPT ![t] = new]
  BY DEF QueueTypes
<1>2. /\ new \in [state : {"new", "pending", "active", "retry", "completed",
                           "archived", "gone"},
                  retried : 0 .. RetryLimit,
                  home : Processes \cup {"external", NoStore}]
      /\ new.state = "pending" /\ new.retried = task[t].retried
      /\ new.home = store[Server]
  BY DEF QueueTypes
<1>3. Kept(store[Server])
  BY DEF Answers, Kept, QueueTypes
<1>4. \A a \in Attempts : progress'[a] = progress[a]
  OBVIOUS
<1>5. progress' \in [Attempts -> {"none", "checking", "running", "refused", "failed",
                                  "noting", "succeeded", "writing", "ok", "error",
                                  "over", "lost"}]
  BY DEF QueueTypes
<1>6. /\ UNCHANGED <<reachable, store, begun, runner, ran, rows, result, silent, requeued>>
      /\ current' = current /\ task[t].state = "new"
  OBVIOUS
<1> HIDE DEF new, EnqueueTool
<1> QED
  BY <1>1, <1>2, <1>3, <1>4, <1>5, <1>6, TaskStep

\* A task that is given up or found is tried again, if it may be.
LEMMA AgainStep ==
  ASSUME QueueInv, NEW t \in Tasks, TimeOut(t) \/ RecoverTask(t) PROVE QueueInv'
<1> USE ToolQueueAssumption DEF QueueInv
<1>1. task[t].state = "active"
  BY DEF TimeOut, RecoverTask, WaitInv
<1>2. task' = [task EXCEPT ![t] = Again(t)]
  BY DEF TimeOut, RecoverTask
<1>3. Kept(task[t].home)
  BY <1>1 DEF HomeInv
<1>4. current' = [current EXCEPT ![t] = 0]
  BY DEF TimeOut, RecoverTask, QueueTypes
<1>5. UNCHANGED <<reachable, store, begun, runner, progress, ran, rows, result, silent,
                  requeued>>
  BY DEF TimeOut, RecoverTask
<1>6. progress' \in [Attempts -> {"none", "checking", "running", "refused", "failed",
                                  "noting", "succeeded", "writing", "ok", "error",
                                  "over", "lost"}]
  BY <1>5 DEF QueueTypes
<1> QED
  BY <1>1, <1>2, <1>3, <1>4, <1>5, <1>6, AgainIs, TaskStep

LEMMA EndAttemptStep == ASSUME QueueInv, NEW a \in Attempts, End(a) PROVE QueueInv'
<1> USE ToolQueueAssumption DEF QueueInv
<1>1. /\ UNCHANGED <<reachable, store, begun, runner, ran, rows, result, silent, requeued>>
      /\ progress[a] \in {"ok", "refused", "error"}
      /\ progress' = [progress EXCEPT ![a] = "over"]
  BY DEF End, Advance
<1>2. progress' \in [Attempts -> {"none", "checking", "running", "refused", "failed",
                                  "noting", "succeeded", "writing", "ok", "error",
                                  "over", "lost"}]
  BY <1>1 DEF QueueTypes
<1>3. \A b \in Attempts : progress'[b] = IF b = a THEN "over" ELSE progress[b]
  BY <1>1 DEF QueueTypes
<1>4. a[1] \in Tasks /\ a \in Of(a[1]) /\ a[2] \in Nat \ {0}
  BY DEF Attempts, Of
<1>5. CASE current[a[1]] = a[2]
  <2>1. /\ task' = [task EXCEPT ![a[1]] = After(a)]
        /\ current' = [current EXCEPT ![a[1]] = 0]
    BY <1>5 DEF End
  <2>2. task[a[1]].state = "active"
    BY <1>4, <1>5 DEF WaitInv
  <2>3. Kept(task[a[1]].home)
    BY <1>4, <2>2 DEF HomeInv
  <2>4. /\ After(a) \in [state : {"retry", "archived", "completed"},
                         retried : 0 .. RetryLimit,
                         home : Processes \cup {"external", NoStore}]
        /\ After(a).home = task[a[1]].home
        /\ \/ After(a).state = "retry" /\ After(a).retried = task[a[1]].retried + 1
           \/ After(a).state \in {"archived", "completed"}
                /\ After(a).retried = task[a[1]].retried
        /\ After(a).state = "completed" => ran[a] = "success"
    <3>1. CASE progress[a] = "error"
      <4>1. After(a) = Again(a[1])
        BY <3>1 DEF After
      <4> QED
        BY <1>4, <4>1, AgainIs
    <3>2. CASE progress[a] = "refused"
      BY <1>4, <3>2 DEF After, QueueTypes
    <3>3. CASE progress[a] = "ok"
      BY <1>4, <3>3 DEF After, QueueTypes, AttemptInv
    <3> QED
      BY <1>1, <3>1, <3>2, <3>3
  <2>5. After(a).state = "completed" =>
          \E b \in Of(a[1]) : ran[b] = "success" /\ progress'[b] = "over"
    BY <1>3, <1>4, <2>4
  <2> QED
    BY <1>1, <1>2, <1>3, <1>4, <2>1, <2>2, <2>3, <2>4, <2>5, TaskStep
<1>6. CASE current[a[1]] # a[2]
  <2>1. UNCHANGED <<task, current>>
    BY <1>6 DEF End
  <2>2. QueueTypes'
    BY <1>1, <1>2, <2>1 DEF QueueTypes
  <2>3. AttemptInv' /\ RowsInv'
    BY <1>1, <1>3 DEF AttemptInv, RowsInv
  <2>4. CompletedRan'
    BY <1>1, <1>3, <2>1 DEF CompletedRan, Of
  <2>5. WaitInv' /\ HomeInv'
    BY <1>1, <2>1 DEF WaitInv, HomeInv, Kept, Alone
  <2>6. BudgetInv'
    BY <1>1, <2>1 DEF BudgetInv, Spent
  <2> QED
    BY <2>2, <2>3, <2>4, <2>5, <2>6
<1> QED
  BY <1>5, <1>6

LEMMA ClaimStep ==
  ASSUME QueueInv, NEW p \in Processes, NEW t \in Tasks, Claim(p, t) PROVE QueueInv'
<1> USE ToolQueueAssumption DEF QueueInv, Claim
<1> DEFINE n == begun[t] + 1
<1> DEFINE b == <<t, n>>
<1>1. n \in 1 .. MaxAttempts /\ b \in Attempts /\ begun[t] \in Nat
  BY DEF QueueTypes, Attempts
<1>2. \A u \in Tasks : /\ begun'[u] = IF u = t THEN n ELSE begun[u]
                       /\ current'[u] = IF u = t THEN n ELSE current[u]
  BY DEF QueueTypes
<1>3. /\ runner' = [runner EXCEPT ![b] = p]
      /\ progress' = [progress EXCEPT ![b] = "checking"]
  BY <1>2
<1>4. \A a \in Attempts : /\ runner'[a] = IF a = b THEN p ELSE runner[a]
                          /\ progress'[a] = IF a = b THEN "checking" ELSE progress[a]
  BY <1>3 DEF QueueTypes
<1>5. progress[b] = "none" /\ ran[b] = "no" /\ b \notin requeued
  BY <1>1 DEF AttemptInv
<1>6. \A u \in Tasks : /\ task'[u].retried = task[u].retried
                       /\ task'[u].home = task[u].home
                       /\ task'[u].state = IF u = t THEN "active" ELSE task[u].state
  BY DEF QueueTypes
<1> HIDE DEF n, b
<1>7. QueueTypes'
  <2>1. begun' \in [Tasks -> 0 .. MaxAttempts]
    BY <1>1, <1>2 DEF QueueTypes
  <2>2. current' \in [Tasks -> 0 .. MaxAttempts]
    BY <1>1, <1>2 DEF QueueTypes
  <2>3. task' \in [Tasks -> [state : {"new", "pending", "active", "retry", "completed",
                                      "archived", "gone"},
                             retried : 0 .. RetryLimit,
                             home : Processes \cup {"external", NoStore}]]
    BY DEF QueueTypes
  <2>4. runner' \in [Attempts -> Working \cup {Server}]
    <3>1. runner \in [Attempts -> Working \cup {Server}] /\ p \in Working
      BY DEF QueueTypes
    <3> QED
      BY <1>3, <3>1, Zenon
  <2>5. progress' \in [Attempts -> {"none", "checking", "running", "refused", "failed",
                          "noting", "succeeded", "writing", "ok", "error", "over", "lost"}]
    BY <1>3 DEF QueueTypes
  <2> QED
    BY <2>1, <2>2, <2>3, <2>4, <2>5 DEF QueueTypes
<1>8. AttemptInv'
  <2>1. \A a \in Attempts : a[1] \in Tasks /\ a[2] \in Nat
    BY DEF Attempts
  <2>2. \A a \in Attempts : a[2] > begun'[a[1]] => a # b /\ a[2] > begun[a[1]]
    BY <1>1, <1>2, <2>1 DEF n, b
  <2> QED
    BY <1>4, <1>5, <2>2 DEF AttemptInv
<1>9. RowsInv'
  BY DEF RowsInv
<1>10. CompletedRan'
  BY <1>4, <1>5, <1>6 DEF CompletedRan, Of
<1>11. WaitInv'
  <2> SUFFICES ASSUME NEW u \in Tasks, current'[u] # 0
               PROVE  /\ current'[u] = begun'[u]
                      /\ task'[u].state = "active"
                      /\ task'[u].home # NoStore
                      /\ store[runner'[<<u, current'[u]>>]] = task'[u].home
                      /\ <<u, current'[u]>> \notin requeued
    BY DEF WaitInv
  <2>1. CASE u = t
    <3>1. <<u, current'[u]>> = b
      BY <1>2, <2>1 DEF b
    <3> QED
      BY <1>1, <1>2, <1>4, <1>5, <1>6, <2>1, <3>1 DEF Answers
  <2>2. CASE u # t
    <3>1. current'[u] = current[u] /\ <<u, current[u]>> # b
      BY <1>2, <2>2 DEF b
    <3>2. <<u, current[u]>> \in Attempts
      BY <3>1 DEF Attempts, QueueTypes
    <3> QED
      BY <1>2, <1>4, <1>6, <2>2, <3>1, <3>2 DEF WaitInv
  <2> QED
    BY <2>1, <2>2
<1>12. BudgetInv'
  <2> SUFFICES ASSUME NEW u \in Tasks
               PROVE  begun'[u] <= Spent(u)' + task'[u].retried
                                     + Cardinality(requeued \cap Of(u))
    BY DEF BudgetInv, Of
  <2>1. begun[u] <= Spent(u) + task[u].retried + Cardinality(requeued \cap Of(u))
    BY DEF BudgetInv
  <2>2. /\ Cardinality(requeued \cap Of(u)) \in Nat
        /\ task[u].retried \in Nat /\ begun[u] \in Nat
    BY QueueNumbers
  <2>3. CASE u # t
    <3>1. Spent(u)' = Spent(u)
      BY <1>6, <2>3 DEF Spent
    <3> QED
      BY <1>2, <1>6, <2>1, <2>3, <3>1
  <2>4. CASE u = t
    <3>1. Spent(u)' = 1 /\ Spent(u) = 0
      BY <1>6, <2>4 DEF Spent
    <3> QED
      BY <1>2, <1>6, <2>1, <2>2, <2>4, <3>1 DEF n
  <2> QED
    BY <2>3, <2>4
<1>13. HomeInv'
  BY <1>6 DEF HomeInv, Kept, Alone
<1> QED
  BY <1>7, <1>8, <1>9, <1>10, <1>11, <1>12, <1>13

LEMMA StopProcessStep ==
  ASSUME QueueInv, NEW p \in Processes, StopProcess(p) PROVE QueueInv'
<1> USE ToolQueueAssumption DEF QueueInv
<1> DEFINE on(t) == current[t] # 0 /\ runner[<<t, current[t]>>] = p
<1>1. PICK back \in SUBSET Tasks :
        /\ \A t \in back : on(t) /\ Answers(task[t].home)
        /\ task' = [t \in Tasks |->
             CASE task[t].home = p -> [task[t] EXCEPT !.state = "gone"]
               [] task[t].home # p /\ t \in back -> [task[t] EXCEPT !.state = "pending"]
               [] OTHER -> task[t]]
        /\ requeued' = requeued \cup {<<t, current[t]>> : t \in back}
  BY DEF StopProcess
<1>2. /\ UNCHANGED <<reachable, begun, runner, ran, rows, result>>
      /\ silent' = silent \ {p}
      /\ store' = [store EXCEPT ![p] = NoStore]
      /\ progress' = [a \in Attempts |->
           IF Running(a) /\ runner[a] = p THEN "lost" ELSE progress[a]]
      /\ current' = [t \in Tasks |-> IF on(t) THEN 0 ELSE current[t]]
  BY DEF StopProcess
<1> HIDE DEF on
<1>3. \A t \in Tasks : /\ task'[t].retried = task[t].retried
                       /\ task'[t].home = task[t].home
                       /\ task'[t].state = IF task[t].home = p THEN "gone"
                                           ELSE IF t \in back THEN "pending"
                                           ELSE task[t].state
  BY <1>1 DEF QueueTypes
<1>4. \A t \in Tasks : current'[t] = IF on(t) THEN 0 ELSE current[t]
  BY <1>2
<1>5. \A a \in Attempts : \/ progress'[a] = progress[a]
                          \/ progress'[a] = "lost" /\ progress[a] \notin {"none", "over", "lost"}
  BY <1>2 DEF Running
<1>6. \A q \in Processes : store'[q] = IF q = p THEN NoStore ELSE store[q]
  BY <1>2 DEF QueueTypes
<1>7. \A t \in back : /\ t \in Tasks /\ current[t] \in Nat \ {0}
                      /\ current[t] = begun[t]
                      /\ task[t].state = "active"
                      /\ <<t, current[t]>> \in Attempts \ requeued
  <2> TAKE t \in back
  <2>1. t \in Tasks /\ current[t] # 0
    BY <1>1 DEF on
  <2>2. current[t] \in 1 .. MaxAttempts
    BY <2>1 DEF QueueTypes
  <2> QED
    BY <2>1, <2>2 DEF WaitInv, Attempts
<1>8. QueueTypes'
  <2>1. task' \in [Tasks -> [state : {"new", "pending", "active", "retry", "completed",
                                      "archived", "gone"},
                             retried : 0 .. RetryLimit,
                             home : Processes \cup {"external", NoStore}]]
    BY <1>1 DEF QueueTypes
  <2>2. current' \in [Tasks -> 0 .. MaxAttempts]
    BY <1>2 DEF QueueTypes
  <2>3. progress' \in [Attempts -> {"none", "checking", "running", "refused", "failed",
                          "noting", "succeeded", "writing", "ok", "error", "over", "lost"}]
    BY <1>2 DEF QueueTypes
  <2>4. requeued' \subseteq Attempts
    BY <1>1, <1>7 DEF QueueTypes
  <2>5. store' \in [Processes -> Processes \cup {"external", NoStore}]
    BY <1>2 DEF QueueTypes
  <2>6. \A q \in Processes : store'[q] \in {NoStore, "external", q}
    BY <1>6 DEF QueueTypes
  <2> QED
    BY <1>2, <2>1, <2>2, <2>3, <2>4, <2>5, <2>6 DEF QueueTypes
<1>9. AttemptInv'
  <2>1. \A a \in Attempts : a[2] > begun[a[1]] => a \notin requeued'
    <3> SUFFICES ASSUME NEW t \in back, <<t, current[t]>> \in Attempts,
                        current[t] > begun[t]
                 PROVE  FALSE
      BY <1>1, <1>7 DEF AttemptInv
    <3> QED
      BY <1>7
  <2> QED
    BY <1>2, <1>5, <2>1 DEF AttemptInv
<1>10. RowsInv'
  BY <1>2 DEF RowsInv
<1>11. CompletedRan'
  BY <1>2, <1>3, <1>5 DEF CompletedRan, Of
<1>12. WaitInv'
  <2> SUFFICES ASSUME NEW t \in Tasks, current'[t] # 0
               PROVE  /\ current'[t] = begun[t]
                      /\ task'[t].state = "active"
                      /\ task'[t].home # NoStore
                      /\ store'[runner[<<t, current'[t]>>]] = task'[t].home
                      /\ <<t, current'[t]>> \notin requeued'
    BY <1>2 DEF WaitInv
  <2>1. current'[t] = current[t] /\ current[t] # 0 /\ ~on(t)
    BY <1>4
  <2>2. <<t, current[t]>> \in Attempts
    BY <2>1 DEF Attempts, QueueTypes
  <2>3. runner[<<t, current[t]>>] \in Processes /\ runner[<<t, current[t]>>] # p
    BY <2>1, <2>2 DEF on, QueueTypes
  <2>4. task[t].home # p
    <3>1. store[runner[<<t, current[t]>>]] = task[t].home /\ task[t].home # NoStore
      BY <2>1 DEF WaitInv
    <3> QED
      BY <2>3, <3>1 DEF QueueTypes
  <2>5. t \notin back
    BY <1>1, <2>1
  <2>6. <<t, current[t]>> \notin requeued'
    BY <1>1, <2>1, <2>5 DEF WaitInv
  <2> QED
    BY <1>3, <1>6, <2>1, <2>3, <2>4, <2>5, <2>6 DEF WaitInv
<1>13. BudgetInv'
  <2> SUFFICES ASSUME NEW t \in Tasks
               PROVE  begun[t] <= Spent(t)' + task'[t].retried
                                    + Cardinality(requeued' \cap Of(t))
    BY <1>2 DEF BudgetInv, Of
  <2>1. begun[t] <= Spent(t) + task[t].retried + Cardinality(requeued \cap Of(t))
    BY DEF BudgetInv
  <2>2. /\ begun[t] \in Nat /\ task[t].retried \in Nat
        /\ Cardinality(requeued \cap Of(t)) \in Nat
        /\ IsFiniteSet(requeued \cap Of(t))
    BY QueueNumbers, RequeuedFinite
  <2>3. Spent(t) \in {0, 1} /\ Spent(t)' \in {0, 1}
    BY DEF Spent
  <2>4. CASE t \in back
    <3>1. requeued' \cap Of(t) = (requeued \cap Of(t)) \cup {<<t, current[t]>>}
      BY <1>1, <1>7, <2>4 DEF Of
    <3>2. <<t, current[t]>> \notin requeued \cap Of(t)
      BY <1>7, <2>4
    <3>3. Cardinality(requeued' \cap Of(t)) = Cardinality(requeued \cap Of(t)) + 1
      BY <2>2, <3>1, <3>2, FS_AddElement
    <3> QED
      BY <1>3, <2>1, <2>2, <2>3, <3>3
  <2>5. CASE t \notin back
    <3>1. requeued' \cap Of(t) = requeued \cap Of(t)
      BY <1>1, <2>5 DEF Of
    <3>2. Cardinality(requeued' \cap Of(t)) = Cardinality(requeued \cap Of(t))
      BY <3>1
    <3>3. task'[t].state = task[t].state \/ task'[t].state = "gone"
      BY <1>3, <2>5
    <3>4. Spent(t)' = Spent(t) \/ Spent(t)' = 1
      BY <3>3 DEF Spent
    <3>5. task'[t].retried = task[t].retried
      BY <1>3
    <3> QED
      BY <2>1, <2>2, <2>3, <3>2, <3>4, <3>5
  <2> QED
    BY <2>4, <2>5
<1>14. HomeInv'
  <2>1. \A q \in Processes : store'[q] \in {NoStore, "external"} \/ Alone(q)'
    BY <1>2, <1>6 DEF HomeInv, Alone
  <2>2. ASSUME NEW t \in Tasks, task'[t].state \in {"pending", "active", "retry"}
        PROVE  task'[t].home = "external" \/ (task'[t].home = Server /\ store'[Server] = Server)
    <3>1. task[t].state \in {"pending", "active", "retry"} /\ task[t].home # p
      BY <1>3, <1>7, <2>2
    <3>2. Kept(task[t].home)
      BY <3>1 DEF HomeInv
    <3> QED
      BY <1>3, <1>6, <3>1, <3>2 DEF Kept
  <2> QED
    BY <2>1, <2>2 DEF HomeInv, Kept
<1> QED
  BY <1>8, <1>9, <1>10, <1>11, <1>12, <1>13, <1>14

\* A task waits where workers take it, is completed only by a run of its tool, and
\* that runs at most once for each attempt the queue was asked for or a worker put
\* back, for any processes, tasks and retries (EnqueueTool, HandleToolExecution,
\* ResolveRedisRuntime).
THEOREM RunsCounted == QueueSpec => []RunsAccountedFor
<1>1. QueueInv /\ [QueueNext]_queueVars => QueueInv'
  <2> SUFFICES ASSUME QueueInv, [QueueNext]_queueVars PROVE QueueInv'
    OBVIOUS
  <2>1. ASSUME NEW p \in Processes, StartProcess(p) \/ StopProcess(p) PROVE QueueInv'
    BY <2>1, StartProcessStep, StopProcessStep
  <2>2. ASSUME NEW t \in Tasks, EnqueueTool(t) \/ TimeOut(t) \/ RecoverTask(t)
        PROVE  QueueInv'
    BY <2>2, EnqueueToolStep, AgainStep
  <2>3. ASSUME NEW p \in Processes, NEW t \in Tasks, Claim(p, t) PROVE QueueInv'
    BY <2>3, ClaimStep
  <2>4. ASSUME NEW a \in Attempts, End(a) PROVE QueueInv'
    BY <2>4, EndAttemptStep
  <2>5. ASSUME NEW a \in Attempts,
               \/ Check(a) \/ RunTool(a) \/ WriteFailure(a) \/ NoteFailure(a)
               \/ NoteSuccess(a) \/ WriteSuccess(a)
        PROVE  QueueInv'
    BY <2>5, AttemptStep
  <2>6. CASE UNCHANGED queueVars
    <3> USE <2>6 DEF queueVars, QueueInv
    <3>1. QueueTypes' /\ AttemptInv' /\ RowsInv'
      BY DEF QueueTypes, AttemptInv, RowsInv
    <3>2. CompletedRan' /\ WaitInv'
      BY DEF CompletedRan, WaitInv
    <3>3. BudgetInv'
      BY DEF BudgetInv, Spent
    <3>4. HomeInv'
      BY DEF HomeInv, Kept, Alone
    <3> QED
      BY <3>1, <3>2, <3>3, <3>4
  <2> QED
    BY <2>1, <2>2, <2>3, <2>4, <2>5, <2>6, ComeOrGoStep DEF QueueNext
<1> QED
  BY QueueInitInv, <1>1, QueueHolds, PTL DEF QueueSpec

(***************************************************************************)
(* The cache: requests that store, count, choose and delete rows at once.  *)
(***************************************************************************)

\* A row holds a response to its own path and session, and a request is answered
\* with what its row held.
BodyInv ==
  /\ \A k \in Keys : body[k] # Nobody => CacheKey(body[k]) = k
  /\ \A r \in Fetches : answer[r] # Nobody => CacheKey(answer[r]) = CacheKey(r)

\* The clock ticks once for a request.
ClockInv == clock <= Cardinality({r \in Fetches : reached[r] # "new"})

\* How many rows a request that prunes will still remove: those it has counted
\* too many, or those of its choice that are still there.
Removes(r) ==
  IF reached[r] = "counted" THEN over[r] ELSE Cardinality(victims[r] \cap LiveRows)

Counting == {r \in Fetches : reached[r] \in {"counted", "chosen"}}

\* Of any requests that have counted, one removes enough rows for all of them.
RemovesInv ==
  \A X \in SUBSET Counting : X # {} =>
    \E r \in X :
      Cardinality(LiveRows) <= MaxRows + Removes(r) + Cardinality(Pruning \ X)

\* What was chosen is older than what was not, but for rows touched since.
OldestInv ==
  \A r \in Fetches : reached[r] = "chosen" =>
    \A k \in victims[r] \ touched, l \in LiveRows \ (victims[r] \cup touched) :
      validated[k] <= validated[l]

CacheInv ==
  /\ CacheTypeOK
  /\ BodyInv
  /\ ClockInv
  /\ CacheBounded
  /\ RemovesInv
  /\ OldestInv

\* There are finitely many keys, rows and requests.
LEMMA KeysFinite ==
  /\ IsFiniteSet(Keys)
  /\ \A S \in SUBSET Keys : IsFiniteSet(S) /\ Cardinality(S) \in Nat
  /\ \A S \in SUBSET Fetches : IsFiniteSet(S) /\ Cardinality(S) \in Nat
<1> DEFINE f == [r \in Fetches |-> CacheKey(r)]
<1>1. f \in Surjection(Fetches, Keys)
  BY DEF Surjection, Keys, CacheKey
<1>2. IsFiniteSet(Keys)
  BY <1>1, FS_Surjection, CacheAssumption
<1> QED
  BY <1>2, FS_Subset, FS_CardinalityType, CacheAssumption

LEMMA CountsAre ==
  /\ IsFiniteSet(LiveRows) /\ Cardinality(LiveRows) \in Nat
  /\ IsFiniteSet(Pruning) /\ Cardinality(Pruning) \in Nat
  /\ \A X : IsFiniteSet(Pruning \ X) /\ Cardinality(Pruning \ X) \in Nat
  /\ \A V : IsFiniteSet(V \cap LiveRows) /\ Cardinality(V \cap LiveRows) \in Nat
<1>1. LiveRows \in SUBSET Keys /\ Pruning \in SUBSET Fetches
  BY DEF LiveRows, Pruning
<1>2. \A X : (Pruning \ X) \in SUBSET Fetches
  BY <1>1
<1>3. \A V : (V \cap LiveRows) \in SUBSET Keys
  BY <1>1
<1> QED
  BY <1>1, <1>2, <1>3, KeysFinite

LEMMA RemovesNat == ASSUME CacheTypeOK, NEW r \in Fetches PROVE Removes(r) \in Nat
<1>1. over[r] \in Nat
  BY DEF CacheTypeOK
<1> QED
  BY <1>1, CountsAre DEF Removes

LEMMA CacheInitInv == CacheInit => CacheInv
<1> SUFFICES ASSUME CacheInit PROVE CacheInv
  OBVIOUS
<1> USE CacheAssumption DEF CacheInit
<1>1. /\ Warm \in SUBSET Fetches /\ IsFiniteSet(Warm) /\ Cardinality(Warm) \in Nat
      /\ Cardinality(Fetches) \in Nat
  BY KeysFinite
<1>2. CacheTypeOK
  <2>1. body \in [Keys -> Fetches \cup {Nobody}] /\ 0 \in 0 .. Cardinality(Fetches)
    BY <1>1
  <2>2. \A k \in Keys : cached[k] = "none" <=> body[k] = Nobody
    OBVIOUS
  <2> QED
    BY <2>1, <2>2 DEF CacheTypeOK
<1>3. BodyInv
  BY DEF BodyInv
<1>4. ClockInv
  <2>1. {r \in Fetches : reached[r] # "new"} \in SUBSET Fetches
    OBVIOUS
  <2>2. Cardinality({r \in Fetches : reached[r] # "new"}) \in Nat
    BY ONLY <2>1, KeysFinite
  <2> QED
    BY <2>2 DEF ClockInv
<1>5. Cardinality(LiveRows) <= MaxRows
  <2> DEFINE f == [k \in LiveRows |-> body[k]]
  <2>1. \A k \in LiveRows : k \in Keys /\ body[k] \in Warm /\ CacheKey(body[k]) = k
    BY DEF LiveRows
  <2>2. f \in Injection(LiveRows, Warm)
    BY <2>1 DEF Injection, IsInjective
  <2>3. Cardinality(LiveRows) <= Cardinality(Warm)
    BY <1>1, <2>2, FS_Injection
  <2> QED
    BY <1>1, <2>3, CountsAre
<1>6. Pruning = {} /\ Counting = {}
  BY DEF Pruning, Counting
<1>7. CacheBounded /\ RemovesInv
  BY <1>5, <1>6, CountsAre DEF CacheBounded, RemovesInv
<1>8. OldestInv
  BY DEF OldestInv
<1> QED
  BY <1>2, <1>3, <1>4, <1>7, <1>8 DEF CacheInv

\* The rows that are left when some are taken, and that a request will not remove,
\* were left before.
LEMMA FewerRows ==
  ASSUME NEW V, NEW W, LiveRows' = LiveRows \ V
  PROVE  /\ Cardinality(LiveRows') = Cardinality(LiveRows) - Cardinality(V \cap LiveRows)
         /\ Cardinality(LiveRows') - Cardinality(W \cap LiveRows')
              <= Cardinality(LiveRows) - Cardinality(W \cap LiveRows)
<1> DEFINE L == LiveRows
           M == LiveRows'
<1>1. IsFiniteSet(L) /\ IsFiniteSet(M) /\ Cardinality(L) \in Nat /\ Cardinality(M) \in Nat
  BY CountsAre, FS_Subset, FS_CardinalityType
<1>2. IsFiniteSet(L \ W) /\ Cardinality(L \ W) \in Nat
      /\ Cardinality(L \ W) = Cardinality(L) - Cardinality(L \cap W)
  BY <1>1, FS_Difference, FS_CardinalityType
<1>3. Cardinality(M \ W) \in Nat /\ Cardinality(M \ W) = Cardinality(M) - Cardinality(M \cap W)
  BY <1>1, FS_Difference, FS_CardinalityType
<1>4. M \ W \subseteq L \ W
  OBVIOUS
<1>5. Cardinality(M \ W) <= Cardinality(L \ W)
  BY <1>2, <1>4, FS_Subset
<1>6. Cardinality(M) = Cardinality(L) - Cardinality(L \cap V)
  BY <1>1, FS_Difference
<1>7. L \cap W = W \cap LiveRows /\ M \cap W = W \cap LiveRows' /\ L \cap V = V \cap LiveRows
  OBVIOUS
<1> HIDE DEF L, M
<1>8. Cardinality(M) - Cardinality(M \cap W) <= Cardinality(L) - Cardinality(L \cap W)
  BY <1>2, <1>3, <1>5
<1> QED
  BY <1>6, <1>7, <1>8 DEF L, M

\* Steps that take rows, and leave those alone who prune.
LEMMA BoundKept ==
  ASSUME CacheInv, CacheTypeOK', NEW V, LiveRows' = LiveRows \ V,
         Pruning' = Pruning, Counting' = Counting,
         \A q \in Counting : /\ reached'[q] = reached[q]
                             /\ over'[q] = over[q] /\ victims'[q] = victims[q]
  PROVE  CacheBounded' /\ RemovesInv'
<1> USE CacheAssumption DEF CacheInv
<1>1. /\ Cardinality(LiveRows) \in Nat /\ Cardinality(LiveRows') \in Nat
      /\ Cardinality(LiveRows') <= Cardinality(LiveRows)
  <2>1. Cardinality(V \cap LiveRows) \in Nat /\ Cardinality(LiveRows) \in Nat
    BY CountsAre
  <2>2. Cardinality(LiveRows') = Cardinality(LiveRows) - Cardinality(V \cap LiveRows)
    BY FewerRows
  <2>3. LiveRows' \in SUBSET LiveRows
    OBVIOUS
  <2>4. Cardinality(LiveRows') \in Nat
    BY <2>3, CountsAre, FS_Subset, FS_CardinalityType
  <2> QED
    BY <2>1, <2>2, <2>4
<1>2. CacheBounded'
  BY <1>1, CountsAre DEF CacheBounded
<1>3. RemovesInv'
  <2> SUFFICES ASSUME NEW X \in SUBSET Counting, X # {}
               PROVE  \E r \in X : Cardinality(LiveRows')
                        <= MaxRows + Removes(r)' + Cardinality(Pruning \ X)
    BY DEF RemovesInv
  <2>1. PICK r \in X : Cardinality(LiveRows)
                         <= MaxRows + Removes(r) + Cardinality(Pruning \ X)
    BY DEF RemovesInv
  <2>2. r \in Fetches /\ r \in Counting
    BY DEF Counting
  <2>3. Cardinality(Pruning \ X) \in Nat /\ Removes(r) \in Nat
    BY <2>2, CountsAre, RemovesNat
  <2>4. CASE reached[r] = "counted"
    <3>1. Removes(r)' = Removes(r)
      BY <2>2, <2>4 DEF Removes
    <3> QED
      BY <1>1, <2>1, <2>3, <3>1
  <2>5. CASE reached[r] # "counted"
    <3>1. /\ Removes(r) = Cardinality(victims[r] \cap LiveRows)
          /\ Removes(r)' = Cardinality(victims[r] \cap LiveRows')
      BY <2>2, <2>5 DEF Removes
    <3>2. Cardinality(LiveRows') - Removes(r)' <= Cardinality(LiveRows) - Removes(r)
      BY <3>1, FewerRows
    <3>3. (victims[r] \cap LiveRows') \in SUBSET LiveRows
      OBVIOUS
    <3>4. Removes(r)' \in Nat
      BY <3>1, <3>3, CountsAre, FS_Subset, FS_CardinalityType
    <3> QED
      BY <1>1, <2>1, <2>3, <3>2, <3>4
  <2> QED
    BY <2>4, <2>5
<1> QED
  BY <1>2, <1>3

\* A request goes on from one place to another; the clock ticks when it comes.
LEMMA ReachStep ==
  ASSUME CacheInv, NEW r \in Fetches, NEW from, NEW to, Reach(r, from, to), to # "new",
         clock' = clock \/ (from = "new" /\ clock' = clock + 1),
         to \in {"storing", "stored", "counted", "chosen", "serving", "expired",
                 "offline", "done"}
  PROVE  /\ \A q \in Fetches : reached'[q] = IF q = r THEN to ELSE reached[q]
         /\ reached' \in [Fetches -> {"new", "storing", "stored", "counted", "chosen",
                                      "serving", "expired", "offline", "done"}]
         /\ clock \in Nat /\ clock' \in 0 .. Cardinality(Fetches) /\ clock <= clock'
         /\ ClockInv'
<1> USE CacheAssumption DEF CacheInv, Reach
<1>1. \A q \in Fetches : reached'[q] = IF q = r THEN to ELSE reached[q]
  BY DEF CacheTypeOK
<1>2. reached' \in [Fetches -> {"new", "storing", "stored", "counted", "chosen",
                                "serving", "expired", "offline", "done"}]
  BY DEF CacheTypeOK
<1> DEFINE S == {q \in Fetches : reached[q] # "new"}
           T == {q \in Fetches : reached'[q] # "new"}
<1>3. /\ IsFiniteSet(S) /\ Cardinality(S) \in Nat
      /\ IsFiniteSet(T) /\ Cardinality(T) \in Nat
      /\ Cardinality(Fetches) \in Nat
  BY KeysFinite
<1>4. Cardinality(S) <= Cardinality(T) /\ Cardinality(T) <= Cardinality(Fetches)
  <2>1. S \subseteq T /\ T \subseteq Fetches
    BY <1>1
  <2> QED
    BY <1>3, <2>1, FS_Subset
<1>5. from = "new" => Cardinality(T) = Cardinality(S) + 1
  <2> SUFFICES ASSUME from = "new" PROVE Cardinality(T) = Cardinality(S) + 1
    OBVIOUS
  <2>1. T = S \cup {r} /\ r \notin S
    BY <1>1
  <2> QED
    BY <1>3, <2>1, FS_AddElement
<1>6. clock \in Nat /\ clock <= Cardinality(S)
  BY <1>3 DEF CacheTypeOK, ClockInv
<1>7. ClockInv' <=> clock' <= Cardinality(T)
  BY DEF ClockInv
<1> HIDE DEF S, T
<1>8. clock' \in 0 .. Cardinality(Fetches) /\ clock <= clock' /\ ClockInv'
  BY <1>3, <1>4, <1>5, <1>6, <1>7
<1> QED
  BY <1>1, <1>2, <1>6, <1>8

\* A request that is not among those that prune, neither before nor after.
LEMMA PrunersKept ==
  ASSUME NEW r \in Fetches, NEW to,
         \A q \in Fetches : reached'[q] = IF q = r THEN to ELSE reached[q],
         {reached[r], to} \cap {"stored", "counted", "chosen"} = {}
  PROVE  /\ Pruning' = Pruning /\ Counting' = Counting
         /\ \A q \in Counting : q \in Fetches /\ q # r /\ reached'[q] = reached[q]
  BY DEF Pruning, Counting

LEMMA RespondStep ==
  ASSUME CacheInv, NEW r \in Fetches, Respond(r) PROVE CacheInv'
<1> USE CacheAssumption DEF CacheInv
<1>1. /\ UNCHANGED <<enabled, cached, body, expired, validated, over, victims, touched>>
      /\ answer' = [answer EXCEPT ![r] = r]
  BY DEF Respond
<1>2. PICK to \in {"storing", "done"} : Reach(r, "new", to)
  BY DEF Respond
<1>3. clock' = clock \/ clock' = clock + 1
  BY DEF Respond
<1>4. stamp' = stamp \/ (clock' = clock + 1 /\ stamp' = [stamp EXCEPT ![r] = clock + 1])
  BY DEF Respond
<1>5. /\ \A q \in Fetches : reached'[q] = IF q = r THEN to ELSE reached[q]
      /\ reached' \in [Fetches -> {"new", "storing", "stored", "counted", "chosen",
                                   "serving", "expired", "offline", "done"}]
      /\ clock \in Nat /\ clock' \in 0 .. Cardinality(Fetches) /\ clock <= clock'
      /\ ClockInv'
  BY <1>2, <1>3, ReachStep
<1>6. CacheTypeOK'
  <2>1. answer' \in [Fetches -> Fetches \cup {Nobody}]
    BY <1>1 DEF CacheTypeOK
  <2>2. clock' \in Nat /\ (0 .. clock) \subseteq (0 .. clock')
    BY <1>5, KeysFinite
  <2>3. stamp' \in [Fetches -> 0 .. clock']
    BY <1>4, <1>5, <2>2 DEF CacheTypeOK
  <2>4. validated' \in [Keys -> 0 .. clock']
    BY <1>1, <2>2 DEF CacheTypeOK
  <2> QED
    BY <1>1, <1>5, <2>1, <2>3, <2>4 DEF CacheTypeOK
<1>7. BodyInv'
  <2>1. \A q \in Fetches : answer'[q] = IF q = r THEN r ELSE answer[q]
    BY <1>1 DEF CacheTypeOK
  <2> QED
    BY <1>1, <2>1 DEF BodyInv, CacheKey
<1>8. CacheBounded' /\ RemovesInv'
  <2>1. reached[r] = "new"
    BY <1>2 DEF Reach
  <2>2. LiveRows' = LiveRows \ {}
    BY <1>1 DEF LiveRows
  <2>3. /\ Pruning' = Pruning /\ Counting' = Counting
        /\ \A q \in Counting : q \in Fetches /\ q # r /\ reached'[q] = reached[q]
    BY <1>5, <2>1, PrunersKept
  <2> QED
    BY <1>1, <1>6, <2>2, <2>3, BoundKept
<1>9. OldestInv'
  BY <1>1, <1>5 DEF OldestInv, LiveRows
<1> QED
  BY <1>5, <1>6, <1>7, <1>8, <1>9

LEMMA LookUpStep ==
  ASSUME CacheInv, NEW r \in Fetches, LookUp(r) PROVE CacheInv'
<1> USE CacheAssumption DEF CacheInv
<1>1. UNCHANGED <<enabled, cached, body, expired, validated, over, touched>>
  BY DEF LookUp
<1>2. PICK to \in {"serving", "expired", "offline"} : Reach(r, "new", to)
  BY DEF LookUp
<1>3. clock' = clock \/ clock' = clock + 1
  BY DEF LookUp
<1>4. stamp' = stamp \/ (clock' = clock + 1 /\ stamp' = [stamp EXCEPT ![r] = clock + 1])
  BY DEF LookUp
<1>5. /\ \A q \in Fetches : reached'[q] = IF q = r THEN to ELSE reached[q]
      /\ reached' \in [Fetches -> {"new", "storing", "stored", "counted", "chosen",
                                   "serving", "expired", "offline", "done"}]
      /\ clock \in Nat /\ clock' \in 0 .. Cardinality(Fetches) /\ clock <= clock'
      /\ ClockInv'
  BY <1>2, <1>3, ReachStep
<1>6. CacheKey(r) \in Keys
  BY DEF CacheKey, Keys
<1>7. /\ victims' \in [Fetches -> SUBSET Keys]
      /\ \A q \in Fetches : q # r => victims'[q] = victims[q]
  BY <1>6 DEF CacheTypeOK, LookUp
<1>8. answer' = answer \/ (CacheKey(r) \in LiveRows
                           /\ answer' = [answer EXCEPT ![r] = body[CacheKey(r)]])
  BY DEF LookUp
<1>9. CacheTypeOK'
  <2>1. answer' \in [Fetches -> Fetches \cup {Nobody}]
    BY <1>6, <1>8 DEF CacheTypeOK
  <2>2. clock' \in Nat /\ (0 .. clock) \subseteq (0 .. clock')
    BY <1>5, KeysFinite
  <2>3. stamp' \in [Fetches -> 0 .. clock']
    BY <1>4, <1>5, <2>2 DEF CacheTypeOK
  <2>4. validated' \in [Keys -> 0 .. clock']
    BY <1>1, <2>2 DEF CacheTypeOK
  <2> QED
    BY <1>1, <1>5, <1>7, <2>1, <2>3, <2>4 DEF CacheTypeOK
<1>10. BodyInv'
  <2>1. \A q \in Fetches : answer'[q] = answer[q]
                           \/ (q = r /\ answer'[q] = body[CacheKey(r)])
    BY <1>8 DEF CacheTypeOK
  <2> QED
    BY <1>1, <1>6, <2>1 DEF BodyInv
<1>11. CacheBounded' /\ RemovesInv'
  <2>1. reached[r] = "new"
    BY <1>2 DEF Reach
  <2>2. LiveRows' = LiveRows \ {}
    BY <1>1 DEF LiveRows
  <2>3. /\ Pruning' = Pruning /\ Counting' = Counting
        /\ \A q \in Counting : q \in Fetches /\ q # r /\ reached'[q] = reached[q]
    BY <1>5, <2>1, PrunersKept
  <2> QED
    BY <1>1, <1>7, <1>9, <2>2, <2>3, BoundKept
<1>12. OldestInv'
  BY <1>1, <1>5, <1>7 DEF OldestInv, LiveRows
<1> QED
  BY <1>5, <1>9, <1>10, <1>11, <1>12

\* Of the choices, what is stored or served counts as touched.
LEMMA TouchIs ==
  ASSUME CacheInv, NEW k \in Keys, Touch(k), UNCHANGED victims
  PROVE  /\ touched \subseteq touched' /\ touched' \subseteq Keys
         /\ \A r \in Fetches : victims[r] # {} => k \in touched'
  BY DEF CacheInv, CacheTypeOK, Touch

LEMMA ServeStep == ASSUME CacheInv, NEW r \in Fetches, Serve(r) PROVE CacheInv'
<1> USE CacheAssumption DEF CacheInv
<1> DEFINE k == CacheKey(r)
<1>1. /\ UNCHANGED <<enabled, cached, body, expired, clock, over, victims, answer>>
      /\ Reach(r, "serving", "done")
      /\ validated' = [validated EXCEPT ![k] = stamp[r]]
      /\ stamp' = [stamp EXCEPT ![r] = 0]
      /\ Touch(k)
  BY DEF Serve
<1>2. k \in Keys
  BY DEF CacheKey, Keys
<1> HIDE DEF k
<1>3. /\ \A q \in Fetches : reached'[q] = IF q = r THEN "done" ELSE reached[q]
      /\ reached' \in [Fetches -> {"new", "storing", "stored", "counted", "chosen",
                                   "serving", "expired", "offline", "done"}]
      /\ clock \in Nat /\ ClockInv'
  BY <1>1, ReachStep
<1>4. /\ touched \subseteq touched' /\ touched' \subseteq Keys
      /\ \A q \in Fetches : victims[q] # {} => k \in touched'
  BY <1>1, <1>2, TouchIs
<1>5. CacheTypeOK'
  <2>1. stamp[r] \in 0 .. clock /\ 0 \in 0 .. clock
    BY <1>3 DEF CacheTypeOK
  <2>2. validated' \in [Keys -> 0 .. clock]
    BY <1>1, <2>1 DEF CacheTypeOK
  <2>3. stamp' \in [Fetches -> 0 .. clock]
    BY <1>1, <2>1 DEF CacheTypeOK
  <2> QED
    BY <1>1, <1>3, <1>4, <2>2, <2>3 DEF CacheTypeOK
<1>6. BodyInv'
  BY <1>1 DEF BodyInv
<1>7. CacheBounded' /\ RemovesInv'
  <2>1. LiveRows' = LiveRows \ {} /\ reached[r] = "serving"
    BY <1>1 DEF LiveRows, Reach
  <2> QED
    BY <1>1, <1>3, <1>5, <2>1, PrunersKept, BoundKept
<1>8. OldestInv'
  <2> SUFFICES ASSUME NEW q \in Fetches, reached'[q] = "chosen",
                      NEW j \in victims[q] \ touched',
                      NEW l \in LiveRows \ (victims[q] \cup touched')
               PROVE  validated'[j] <= validated'[l]
    BY <1>1 DEF OldestInv, LiveRows
  <2>1. reached[q] = "chosen" /\ j \in victims[q] \ touched
        /\ l \in LiveRows \ (victims[q] \cup touched) /\ j # k /\ l # k
    BY <1>3, <1>4
  <2>2. j \in Keys /\ l \in Keys
    BY DEF CacheTypeOK, LiveRows
  <2>3. validated'[j] = validated[j] /\ validated'[l] = validated[l]
    BY <1>1, <2>1, <2>2 DEF CacheTypeOK
  <2> QED
    BY <2>1, <2>3 DEF OldestInv
<1> QED
  BY <1>3, <1>5, <1>6, <1>7, <1>8

LEMMA ExpireRowStep == ASSUME CacheInv, NEW k \in Keys, ExpireRow(k) PROVE CacheInv'
<1> USE CacheAssumption DEF CacheInv
<1>1. /\ UNCHANGED <<enabled, cached, body, validated, clock, reached, stamp, over,
                     victims, answer, touched>>
      /\ expired' = [expired EXCEPT ![k] = TRUE]
  BY DEF ExpireRow
<1>2. CacheTypeOK'
  BY <1>1 DEF CacheTypeOK
<1>3. BodyInv' /\ ClockInv'
  BY <1>1 DEF BodyInv, ClockInv
<1>4. CacheBounded' /\ RemovesInv'
  <2>1. LiveRows' = LiveRows \ {} /\ Pruning' = Pruning /\ Counting' = Counting
    BY <1>1 DEF LiveRows, Pruning, Counting
  <2> QED
    BY <1>1, <1>2, <2>1, BoundKept
<1>5. OldestInv'
  BY <1>1 DEF OldestInv, LiveRows
<1> QED
  BY <1>2, <1>3, <1>4, <1>5

LEMMA StoreResponseStep ==
  ASSUME CacheInv, NEW r \in Fetches, StoreResponse(r) PROVE CacheInv'
<1> USE CacheAssumption DEF CacheInv
<1> DEFINE k == CacheKey(r)
<1>1. /\ UNCHANGED <<enabled, clock, over, victims, answer>>
      /\ Reach(r, "storing", "stored")
      /\ cached' = [cached EXCEPT ![k] = IF @ = "none" THEN "live" ELSE @]
      /\ body' = [body EXCEPT ![k] = r]
      /\ expired' = [expired EXCEPT ![k] = FALSE]
      /\ validated' = [validated EXCEPT ![k] = stamp[r]]
      /\ stamp' = [stamp EXCEPT ![r] = 0]
      /\ Touch(k)
  BY DEF StoreResponse
<1>2. k \in Keys
  BY DEF CacheKey, Keys
<1>3. k = CacheKey(r)
  OBVIOUS
<1> HIDE DEF k
<1>4. /\ \A q \in Fetches : reached'[q] = IF q = r THEN "stored" ELSE reached[q]
      /\ reached' \in [Fetches -> {"new", "storing", "stored", "counted", "chosen",
                                   "serving", "expired", "offline", "done"}]
      /\ clock \in Nat /\ ClockInv'
  BY <1>1, ReachStep
<1>5. /\ touched \subseteq touched' /\ touched' \subseteq Keys
      /\ \A q \in Fetches : victims[q] # {} => k \in touched'
  BY <1>1, <1>2, TouchIs
<1>6. \A j \in Keys : /\ cached'[j] = IF j = k /\ cached[j] = "none" THEN "live" ELSE cached[j]
                      /\ body'[j] = IF j = k THEN r ELSE body[j]
  BY <1>1 DEF CacheTypeOK
<1>7. CacheTypeOK'
  <2>1. stamp[r] \in 0 .. clock /\ 0 \in 0 .. clock
    BY <1>4 DEF CacheTypeOK
  <2>2. validated' \in [Keys -> 0 .. clock]
    BY <1>1, <2>1 DEF CacheTypeOK
  <2>3. stamp' \in [Fetches -> 0 .. clock]
    BY <1>1, <2>1 DEF CacheTypeOK
  <2>4. cached' \in [Keys -> {"none", "live", "deleted"}]
        /\ body' \in [Keys -> Fetches \cup {Nobody}] /\ expired' \in [Keys -> BOOLEAN]
    BY <1>1 DEF CacheTypeOK
  <2>5. \A j \in Keys : cached'[j] = "none" <=> body'[j] = Nobody
    BY <1>6 DEF CacheTypeOK
  <2> QED
    BY <1>1, <1>4, <1>5, <2>2, <2>3, <2>4, <2>5 DEF CacheTypeOK
<1>8. BodyInv'
  BY <1>1, <1>3, <1>6 DEF BodyInv
<1>9. /\ LiveRows \subseteq LiveRows' /\ LiveRows' \subseteq LiveRows \cup {k}
  BY <1>2, <1>6 DEF LiveRows
<1>10. reached[r] = "storing"
  BY <1>1 DEF Reach
<1>11. /\ Counting' = Counting /\ r \notin Counting
       /\ r \notin Pruning /\ Pruning' = Pruning \cup {r}
  BY <1>4, <1>10 DEF Counting, Pruning
<1>12. /\ Cardinality(LiveRows) \in Nat
       /\ IsFiniteSet(LiveRows') /\ Cardinality(LiveRows') \in Nat
       /\ Cardinality(LiveRows') <= Cardinality(LiveRows) + 1
  <2>1. IsFiniteSet(LiveRows) /\ Cardinality(LiveRows) \in Nat
    BY CountsAre
  <2>2. /\ IsFiniteSet(LiveRows \cup {k})
        /\ Cardinality(LiveRows \cup {k}) <= Cardinality(LiveRows) + 1
        /\ Cardinality(LiveRows \cup {k}) \in Nat
    <3>1. CASE k \in LiveRows
      <4>1. LiveRows \cup {k} = LiveRows
        BY <3>1
      <4> QED
        BY <2>1, <4>1
    <3>2. CASE k \notin LiveRows
      BY <2>1, <3>2, FS_AddElement
    <3> QED
      BY <3>1, <3>2
  <2>3. /\ IsFiniteSet(LiveRows') /\ Cardinality(LiveRows') \in Nat
        /\ Cardinality(LiveRows') <= Cardinality(LiveRows \cup {k})
    BY <1>9, <2>2, FS_Subset, FS_CardinalityType
  <2> QED
    BY <2>1, <2>2, <2>3
<1>13. \A X \in SUBSET Counting : /\ Cardinality(Pruning \ X) \in Nat
                                 /\ Cardinality(Pruning' \ X) = Cardinality(Pruning \ X) + 1
  <2> TAKE X \in SUBSET Counting
  <2>1. Pruning' \ X = (Pruning \ X) \cup {r} /\ r \notin Pruning \ X
    BY <1>11
  <2> QED
    BY <2>1, CountsAre, FS_AddElement
<1>14. CacheBounded'
  <2>1. Cardinality(Pruning) \in Nat /\ Cardinality(Pruning') = Cardinality(Pruning) + 1
    BY <1>11, CountsAre, FS_AddElement
  <2> QED
    BY <1>12, <2>1 DEF CacheBounded
<1>15. RemovesInv'
  <2> SUFFICES ASSUME NEW X \in SUBSET Counting, X # {}
               PROVE  \E q \in X : Cardinality(LiveRows')
                        <= MaxRows + Removes(q)' + Cardinality(Pruning' \ X)
    BY <1>11 DEF RemovesInv
  <2>1. PICK q \in X : Cardinality(LiveRows)
                         <= MaxRows + Removes(q) + Cardinality(Pruning \ X)
    BY DEF RemovesInv
  <2>2. q \in Fetches /\ q # r /\ reached'[q] = reached[q]
    BY <1>4, <1>11 DEF Counting
  <2>3. Removes(q) \in Nat
    BY <2>2, RemovesNat
  <2>4. Removes(q)' \in Nat /\ Removes(q) <= Removes(q)'
    <3>1. CASE reached[q] = "counted"
      BY <1>1, <2>2, <2>3, <3>1 DEF Removes
    <3>2. CASE reached[q] # "counted"
      <4>1. /\ Removes(q) = Cardinality(victims[q] \cap LiveRows)
            /\ Removes(q)' = Cardinality(victims[q] \cap LiveRows')
        BY <1>1, <2>2, <3>2 DEF Removes
      <4>2. /\ (victims[q] \cap LiveRows) \in SUBSET (victims[q] \cap LiveRows')
            /\ (victims[q] \cap LiveRows') \in SUBSET LiveRows'
        BY <1>9
      <4>3. IsFiniteSet(victims[q] \cap LiveRows')
        BY <1>12, <4>2, FS_Subset
      <4> QED
        BY <4>1, <4>2, <4>3, FS_Subset, FS_CardinalityType
    <3> QED
      BY <3>1, <3>2
  <2>5. /\ Cardinality(Pruning \ X) \in Nat
        /\ Cardinality(Pruning' \ X) = Cardinality(Pruning \ X) + 1
    BY <1>13
  <2>6. Cardinality(LiveRows') <= MaxRows + Removes(q)' + Cardinality(Pruning' \ X)
    BY <1>12, <2>1, <2>3, <2>4, <2>5
  <2> QED
    BY <2>6
<1>16. OldestInv'
  <2> SUFFICES ASSUME NEW q \in Fetches, reached'[q] = "chosen",
                      NEW j \in victims[q] \ touched',
                      NEW l \in LiveRows' \ (victims[q] \cup touched')
               PROVE  validated'[j] <= validated'[l]
    BY <1>1 DEF OldestInv
  <2>1. reached[q] = "chosen" /\ j \in victims[q] \ touched
        /\ l \in LiveRows \ (victims[q] \cup touched) /\ j # k /\ l # k
    BY <1>4, <1>5, <1>9
  <2>2. j \in Keys /\ l \in Keys
    BY <2>1 DEF CacheTypeOK, LiveRows
  <2>3. validated'[j] = validated[j] /\ validated'[l] = validated[l]
    BY <1>1, <2>1, <2>2 DEF CacheTypeOK
  <2> QED
    BY <2>1, <2>3 DEF OldestInv
<1> QED
  BY <1>4, <1>7, <1>8, <1>14, <1>15, <1>16

LEMMA CountRowsStep ==
  ASSUME CacheInv, NEW r \in Fetches, CountRows(r) PROVE CacheInv'
<1> USE CacheAssumption DEF CacheInv
<1>1. /\ UNCHANGED <<enabled, cached, body, expired, validated, clock, stamp,
                     victims, answer, touched>>
      /\ reached[r] = "stored"
  BY DEF CountRows
<1>2. LiveRows' = LiveRows
  BY <1>1 DEF LiveRows
<1>3. PICK to \in {"counted", "done"} :
        /\ Reach(r, "stored", to)
        /\ to = "done" => Cardinality(LiveRows) <= MaxRows /\ over' = over
        /\ to = "counted" =>
             /\ Cardinality(LiveRows) > MaxRows
             /\ over' = [over EXCEPT ![r] = Cardinality(LiveRows) - MaxRows]
  BY CountsAre DEF CountRows, Reach
<1>4. /\ \A q \in Fetches : reached'[q] = IF q = r THEN to ELSE reached[q]
      /\ reached' \in [Fetches -> {"new", "storing", "stored", "counted", "chosen",
                                   "serving", "expired", "offline", "done"}]
      /\ ClockInv'
  BY <1>1, <1>3, ReachStep
<1>5. /\ over' \in [Fetches -> Nat]
      /\ \A q \in Fetches : q # r => over'[q] = over[q]
      /\ to = "counted" => over'[r] = Cardinality(LiveRows) - MaxRows
  BY <1>3, CountsAre DEF CacheTypeOK
<1>6. CacheTypeOK'
  BY <1>1, <1>4, <1>5 DEF CacheTypeOK
<1>7. BodyInv'
  BY <1>1 DEF BodyInv
<1>8. OldestInv'
  BY <1>1, <1>2, <1>4 DEF OldestInv
<1>9. /\ Cardinality(LiveRows) \in Nat
      /\ \A X : Cardinality(Pruning' \ X) \in Nat
      /\ Cardinality(Pruning') \in Nat
  <2>1. Pruning' \in SUBSET Fetches /\ \A X : (Pruning' \ X) \in SUBSET Fetches
    BY DEF Pruning
  <2> QED
    BY <2>1, CountsAre, KeysFinite
<1>10. \A q \in Counting' : Removes(q)' \in Nat
  <2> SUFFICES ASSUME NEW q \in Fetches PROVE Removes(q)' \in Nat
    BY DEF Counting
  <2>1. (victims[q] \cap LiveRows) \in SUBSET Keys
    BY DEF LiveRows
  <2>2. Cardinality(victims[q] \cap LiveRows) \in Nat
    BY <2>1, KeysFinite
  <2> QED
    BY <1>1, <1>2, <1>5, <2>2 DEF Removes
<1>11. CASE to = "done"
  <2>1. CacheBounded'
    BY <1>2, <1>3, <1>9, <1>11 DEF CacheBounded
  <2>2. RemovesInv'
    <3> SUFFICES ASSUME NEW X \in SUBSET Counting', X # {}
                 PROVE  \E q \in X : Cardinality(LiveRows)
                          <= MaxRows + Removes(q)' + Cardinality(Pruning' \ X)
      BY <1>2 DEF RemovesInv
    <3>1. PICK q \in X : TRUE
      OBVIOUS
    <3>2. Removes(q)' \in Nat /\ Cardinality(Pruning' \ X) \in Nat
      BY <1>9, <1>10
    <3>3. Cardinality(LiveRows) <= MaxRows
      BY <1>3, <1>11
    <3> QED
      BY <1>9, <3>2, <3>3
  <2> QED
    BY <1>4, <1>6, <1>7, <1>8, <2>1, <2>2
<1>12. CASE to = "counted"
  <2>1. Pruning' = Pruning /\ r \in Pruning /\ Counting' = Counting \cup {r}
    BY <1>1, <1>4, <1>12 DEF Pruning, Counting
  <2>2. CacheBounded'
    BY <1>2, <2>1 DEF CacheBounded
  <2>3. RemovesInv'
    <3> SUFFICES ASSUME NEW X \in SUBSET Counting', X # {}
                 PROVE  \E q \in X : Cardinality(LiveRows)
                          <= MaxRows + Removes(q)' + Cardinality(Pruning \ X)
      BY <1>2, <2>1 DEF RemovesInv
    <3>1. CASE r \in X
      <4>1. Removes(r)' = Cardinality(LiveRows) - MaxRows
        BY <1>4, <1>5, <1>12 DEF Removes
      <4>2. Cardinality(Pruning \ X) \in Nat
        BY CountsAre
      <4>3. Cardinality(LiveRows) <= MaxRows + Removes(r)' + Cardinality(Pruning \ X)
        BY <1>9, <4>1, <4>2
      <4> QED
        BY <3>1, <4>3
    <3>2. CASE r \notin X
      <4>1. X \in SUBSET Counting
        BY <2>1, <3>2
      <4>2. PICK q \in X : Cardinality(LiveRows)
                             <= MaxRows + Removes(q) + Cardinality(Pruning \ X)
        BY <4>1 DEF RemovesInv
      <4>3. q \in Fetches /\ q # r
        BY <4>1, <3>2 DEF Counting
      <4>4. Removes(q)' = Removes(q)
        BY <1>1, <1>2, <1>4, <1>5, <4>3 DEF Removes
      <4> QED
        BY <4>2, <4>4
    <3> QED
      BY <3>1, <3>2
  <2> QED
    BY <1>4, <1>6, <1>7, <1>8, <2>2, <2>3
<1> QED
  BY <1>11, <1>12

LEMMA ChooseOldestStep ==
  ASSUME CacheInv, NEW r \in Fetches, ChooseOldest(r) PROVE CacheInv'
<1> USE CacheAssumption DEF CacheInv
<1>1. /\ UNCHANGED <<enabled, cached, body, expired, validated, clock, stamp, answer,
                     touched>>
      /\ Reach(r, "counted", "chosen")
      /\ over' = [over EXCEPT ![r] = 0]
      /\ reached[r] = "counted"
  BY DEF ChooseOldest, Reach
<1>2. PICK S \in Oldest(over[r]) : victims' = [victims EXCEPT ![r] = S]
  BY DEF ChooseOldest
<1>3. LiveRows' = LiveRows
  BY <1>1 DEF LiveRows
<1>4. /\ \A q \in Fetches : reached'[q] = IF q = r THEN "chosen" ELSE reached[q]
      /\ reached' \in [Fetches -> {"new", "storing", "stored", "counted", "chosen",
                                   "serving", "expired", "offline", "done"}]
      /\ ClockInv'
  BY <1>1, ReachStep
<1>5. /\ S \in SUBSET LiveRows
      /\ Cardinality(S) = over[r] \/ S = LiveRows
      /\ \A k \in S, l \in LiveRows \ S : validated[k] <= validated[l]
  BY <1>2 DEF Oldest
<1>6. \A q \in Fetches : /\ victims'[q] = IF q = r THEN S ELSE victims[q]
                         /\ q # r => over'[q] = over[q]
  BY <1>1, <1>2 DEF CacheTypeOK
<1>7. CacheTypeOK'
  <2>1. victims' \in [Fetches -> SUBSET Keys]
    BY <1>2, <1>5 DEF CacheTypeOK, LiveRows
  <2>2. over' \in [Fetches -> Nat]
    BY <1>1 DEF CacheTypeOK
  <2> QED
    BY <1>1, <1>4, <2>1, <2>2 DEF CacheTypeOK
<1>8. BodyInv'
  BY <1>1 DEF BodyInv
<1>9. Pruning' = Pruning /\ Counting' = Counting
  BY <1>1, <1>4 DEF Pruning, Counting
<1>10. CacheBounded'
  BY <1>3, <1>9 DEF CacheBounded
<1>11. RemovesInv'
  <2> SUFFICES ASSUME NEW X \in SUBSET Counting, X # {}
               PROVE  \E q \in X : Cardinality(LiveRows)
                        <= MaxRows + Removes(q)' + Cardinality(Pruning \ X)
    BY <1>3, <1>9 DEF RemovesInv
  <2>1. PICK q \in X : Cardinality(LiveRows)
                         <= MaxRows + Removes(q) + Cardinality(Pruning \ X)
    BY DEF RemovesInv
  <2>2. q \in Fetches
    BY DEF Counting
  <2>3. CASE q # r
    <3>1. Removes(q)' = Removes(q)
      BY <1>3, <1>4, <1>6, <2>2, <2>3 DEF Removes
    <3> QED
      BY <2>1, <3>1
  <2>4. CASE q = r
    <3>1. Removes(r) = over[r] /\ Removes(r)' = Cardinality(S \cap LiveRows)
      BY <1>1, <1>3, <1>4, <1>6 DEF Removes
    <3>2. S \cap LiveRows = S
      BY <1>5
    <3>3. CASE Cardinality(S) = over[r]
      BY <2>1, <2>4, <3>1, <3>2, <3>3
    <3>4. CASE S = LiveRows
      <4>1. Removes(r)' = Cardinality(LiveRows)
        BY <3>1, <3>2, <3>4
      <4>2. Cardinality(LiveRows) \in Nat /\ Cardinality(Pruning \ X) \in Nat
        BY CountsAre
      <4>3. Cardinality(LiveRows) <= MaxRows + Removes(r)' + Cardinality(Pruning \ X)
        BY <4>1, <4>2
      <4> QED
        BY <2>4, <4>3
    <3> QED
      BY <1>5, <3>3, <3>4
  <2> QED
    BY <2>3, <2>4
<1>12. OldestInv'
  <2> SUFFICES ASSUME NEW q \in Fetches, reached'[q] = "chosen",
                      NEW j \in victims'[q] \ touched,
                      NEW l \in LiveRows \ (victims'[q] \cup touched)
               PROVE  validated[j] <= validated[l]
    BY <1>1, <1>3 DEF OldestInv
  <2>1. CASE q = r
    BY <1>5, <1>6, <2>1
  <2>2. CASE q # r
    BY <1>4, <1>6, <2>2 DEF OldestInv
  <2> QED
    BY <2>1, <2>2
<1> QED
  BY <1>4, <1>7, <1>8, <1>10, <1>11, <1>12

LEMMA DeleteIs ==
  ASSUME CacheTypeOK, NEW r \in Fetches, DeleteRows(r)
  PROVE  /\ LiveRows' = LiveRows \ victims[r]
         /\ cached' \in [Keys -> {"none", "live", "deleted"}]
         /\ \A k \in Keys : cached'[k] = "none" <=> cached[k] = "none"
         /\ victims' \in [Fetches -> SUBSET Keys]
         /\ \A q \in Fetches : q # r => victims'[q] = victims[q]
         /\ victims'[r] = {}
<1>1. \A k \in Keys : cached'[k] = IF k \in victims[r] /\ cached[k] = "live"
                                   THEN "deleted" ELSE cached[k]
  BY DEF DeleteRows
<1>2. cached' \in [Keys -> {"none", "live", "deleted"}]
  BY DEF DeleteRows, CacheTypeOK
<1>3. LiveRows' = LiveRows \ victims[r]
  BY <1>1 DEF LiveRows
<1> QED
  BY <1>1, <1>2, <1>3 DEF DeleteRows, CacheTypeOK

LEMMA PruneRowsStep ==
  ASSUME CacheInv, NEW r \in Fetches, PruneRows(r) PROVE CacheInv'
<1> USE CacheAssumption DEF CacheInv
<1>1. /\ UNCHANGED <<enabled, body, expired, validated, clock, stamp, over, answer,
                     touched>>
      /\ Reach(r, "chosen", "done") /\ DeleteRows(r)
      /\ reached[r] = "chosen"
  BY DEF PruneRows, Reach
<1>2. /\ \A q \in Fetches : reached'[q] = IF q = r THEN "done" ELSE reached[q]
      /\ reached' \in [Fetches -> {"new", "storing", "stored", "counted", "chosen",
                                   "serving", "expired", "offline", "done"}]
      /\ ClockInv'
  BY <1>1, ReachStep
<1>3. /\ LiveRows' = LiveRows \ victims[r]
      /\ cached' \in [Keys -> {"none", "live", "deleted"}]
      /\ \A k \in Keys : cached'[k] = "none" <=> cached[k] = "none"
      /\ victims' \in [Fetches -> SUBSET Keys]
      /\ \A q \in Fetches : q # r => victims'[q] = victims[q]
  BY <1>1, DeleteIs
<1>4. CacheTypeOK'
  BY <1>1, <1>2, <1>3 DEF CacheTypeOK
<1>5. BodyInv'
  BY <1>1 DEF BodyInv
<1>6. /\ r \in Pruning /\ Pruning' = Pruning \ {r}
      /\ r \in Counting /\ Counting' = Counting \ {r}
  BY <1>1, <1>2 DEF Pruning, Counting
<1> DEFINE L == Cardinality(LiveRows)
           M == Cardinality(LiveRows')
<1>7. /\ L \in Nat /\ M \in Nat /\ Removes(r) \in Nat /\ M = L - Removes(r)
      /\ IsFiniteSet(LiveRows')
  <2>1. Removes(r) = Cardinality(victims[r] \cap LiveRows) /\ Removes(r) \in Nat
    BY <1>1, CountsAre DEF Removes
  <2>2. M = L - Cardinality(victims[r] \cap LiveRows)
    BY <1>3, FewerRows
  <2>3. IsFiniteSet(LiveRows') /\ M \in Nat
    BY <1>3, CountsAre, FS_Subset, FS_CardinalityType
  <2> QED
    BY <2>1, <2>2, <2>3, CountsAre
\* Who would remove enough before still does so, or the one that was over did.
<1>8. ASSUME NEW X \in SUBSET Counting'
      PROVE  \/ M <= MaxRows + Cardinality(Pruning' \ X)
             \/ \E q \in X : M <= MaxRows + Removes(q)' + Cardinality(Pruning' \ X)
  <2> DEFINE Y == X \cup {r}
  <2>1. Y \in SUBSET Counting /\ Y # {} /\ Pruning \ Y = Pruning' \ X
    BY <1>6
  <2>2. PICK q \in Y : L <= MaxRows + Removes(q) + Cardinality(Pruning \ Y)
    BY <2>1 DEF RemovesInv
  <2>3. q \in Fetches
    BY <2>1 DEF Counting
  <2>4. /\ Cardinality(Pruning' \ X) \in Nat
        /\ L <= MaxRows + Removes(q) + Cardinality(Pruning' \ X)
    BY <2>1, <2>2, CountsAre
  <2>5. Removes(q) \in Nat
    BY <2>3, RemovesNat
  <2> HIDE DEF L, M
  <2>6. CASE q = r
    BY <1>7, <2>4, <2>5, <2>6
  <2>7. CASE q # r
    <3>1. q \in X
      BY <2>7
    <3>2. Removes(q)' \in Nat /\ M - Removes(q)' <= L - Removes(q)
      <4>1. CASE reached[q] = "counted"
        <5>1. Removes(q)' = Removes(q)
          BY <1>1, <1>2, <2>3, <2>7, <4>1 DEF Removes
        <5> QED
          BY <1>7, <2>5, <5>1
      <4>2. CASE reached[q] # "counted"
        <5>1. /\ Removes(q) = Cardinality(victims[q] \cap LiveRows)
              /\ Removes(q)' = Cardinality(victims[q] \cap LiveRows')
          BY <1>2, <1>3, <2>3, <2>7, <4>2 DEF Removes
        <5>2. M - Removes(q)' <= L - Removes(q)
          BY <1>3, <5>1, FewerRows DEF L, M
        <5>3. (victims[q] \cap LiveRows') \in SUBSET LiveRows'
          OBVIOUS
        <5> QED
          BY <1>7, <5>1, <5>2, <5>3, FS_Subset, FS_CardinalityType
      <4> QED
        BY <4>1, <4>2
    <3>3. M <= MaxRows + Removes(q)' + Cardinality(Pruning' \ X)
      BY <1>7, <2>4, <2>5, <3>2
    <3> QED
      BY <3>1, <3>3
  <2> QED
    BY <2>6, <2>7
<1>9. CacheBounded'
  <2>1. {} \in SUBSET Counting' /\ Pruning' \ {} = Pruning'
    OBVIOUS
  <2>2. M <= MaxRows + Cardinality(Pruning' \ {})
    BY <1>8, <2>1
  <2> QED
    BY <2>1, <2>2 DEF CacheBounded
<1>10. RemovesInv'
  <2> SUFFICES ASSUME NEW X \in SUBSET Counting', X # {}
               PROVE  \E q \in X : M <= MaxRows + Removes(q)' + Cardinality(Pruning' \ X)
    BY DEF RemovesInv
  <2>1. PICK q \in X : TRUE
    OBVIOUS
  <2>2. q \in Fetches /\ (victims'[q] \cap LiveRows') \in SUBSET LiveRows'
    BY DEF Counting
  <2>3. Removes(q)' \in Nat
    <3>1. Cardinality(victims'[q] \cap LiveRows') \in Nat
      BY <1>7, <2>2, FS_Subset, FS_CardinalityType
    <3>2. over'[q] \in Nat
      BY <1>4, <2>2 DEF CacheTypeOK
    <3> QED
      BY <3>1, <3>2 DEF Removes
  <2>4. (Pruning' \ X) \in SUBSET Fetches
    BY DEF Pruning
  <2>5. Cardinality(Pruning' \ X) \in Nat
    BY <2>4, KeysFinite
  <2>6. M <= MaxRows + Cardinality(Pruning' \ X)
        => M <= MaxRows + Removes(q)' + Cardinality(Pruning' \ X)
    BY <1>7, <2>3, <2>5
  <2> HIDE DEF M
  <2> QED
    BY <1>8, <2>1, <2>6
<1>11. OldestInv'
  BY <1>1, <1>2, <1>3 DEF OldestInv
<1> QED
  BY <1>2, <1>4, <1>5, <1>9, <1>10, <1>11

LEMMA DropExpiredStep ==
  ASSUME CacheInv, NEW r \in Fetches, DropExpired(r) PROVE CacheInv'
<1> USE CacheAssumption DEF CacheInv
<1>1. /\ UNCHANGED <<enabled, body, expired, validated, clock, stamp, over, answer,
                     touched>>
      /\ Reach(r, "expired", "offline") /\ DeleteRows(r)
      /\ reached[r] = "expired"
  BY DEF DropExpired, Reach
<1>2. /\ \A q \in Fetches : reached'[q] = IF q = r THEN "offline" ELSE reached[q]
      /\ reached' \in [Fetches -> {"new", "storing", "stored", "counted", "chosen",
                                   "serving", "expired", "offline", "done"}]
      /\ ClockInv'
  BY <1>1, ReachStep
<1>3. /\ LiveRows' = LiveRows \ victims[r]
      /\ cached' \in [Keys -> {"none", "live", "deleted"}]
      /\ \A k \in Keys : cached'[k] = "none" <=> cached[k] = "none"
      /\ victims' \in [Fetches -> SUBSET Keys]
      /\ \A q \in Fetches : q # r => victims'[q] = victims[q]
  BY <1>1, DeleteIs
<1>4. CacheTypeOK'
  BY <1>1, <1>2, <1>3 DEF CacheTypeOK
<1>5. BodyInv'
  BY <1>1 DEF BodyInv
<1>6. CacheBounded' /\ RemovesInv'
  <2>1. /\ Pruning' = Pruning /\ Counting' = Counting
        /\ \A q \in Counting : q \in Fetches /\ q # r /\ reached'[q] = reached[q]
    BY <1>1, <1>2, PrunersKept
  <2> QED
    BY <1>1, <1>3, <1>4, <2>1, BoundKept
<1>7. OldestInv'
  BY <1>1, <1>2, <1>3 DEF OldestInv
<1> QED
  BY <1>2, <1>4, <1>5, <1>6, <1>7

\* The cache holds at most one row too many for each store not pruned yet, what is
\* pruned is the oldest but for rows stored or served since, and every answer is one
\* to the same path and session, for any requests and any limit
\* (storeMobileProxyCacheResponse, pruneMobileProxyCache,
\* tryServeMobileProxyCachedResponse).
THEOREM CacheHeld == CacheSpec => CacheKept
<1>1. CacheInv /\ [CacheNext]_cacheVars => CacheInv'
  <2> SUFFICES ASSUME CacheInv, [CacheNext]_cacheVars PROVE CacheInv'
    OBVIOUS
  <2>1. ASSUME NEW r \in Fetches,
               \/ Respond(r) \/ StoreResponse(r)
               \/ CountRows(r) \/ ChooseOldest(r) \/ PruneRows(r)
               \/ LookUp(r) \/ Serve(r) \/ DropExpired(r)
        PROVE  CacheInv'
    BY <2>1, RespondStep, StoreResponseStep, CountRowsStep, ChooseOldestStep,
       PruneRowsStep, LookUpStep, ServeStep, DropExpiredStep
  <2>2. ASSUME NEW k \in Keys, ExpireRow(k) PROVE CacheInv'
    BY <2>2, ExpireRowStep
  <2>3. CASE UNCHANGED cacheVars
    <3> USE <2>3 DEF cacheVars, CacheInv
    <3>1. CacheTypeOK' /\ BodyInv' /\ ClockInv'
      BY DEF CacheTypeOK, BodyInv, ClockInv
    <3>2. LiveRows' = LiveRows /\ Pruning' = Pruning /\ Counting' = Counting
      BY DEF LiveRows, Pruning, Counting
    <3>3. CacheBounded' /\ OldestInv'
      BY <3>2 DEF CacheBounded, OldestInv
    <3>4. RemovesInv'
      BY <3>2 DEF RemovesInv, Removes
    <3> QED
      BY <3>1, <3>3, <3>4
  <2> QED
    BY <2>1, <2>2, <2>3 DEF CacheNext
<1>2. CacheInv => CacheTypeOK /\ CacheBounded /\ OwnAnswers
  <2> SUFFICES ASSUME CacheInv PROVE OwnAnswers
    BY DEF CacheInv
  <2>1. \A r \in Fetches : answer[r] # Nobody => CacheKey(answer[r]) = CacheKey(r)
    BY DEF CacheInv, BodyInv
  <2> QED
    BY <2>1 DEF OwnAnswers, CacheKey
<1>3. CacheInv /\ [CacheNext]_cacheVars =>
        [\A r \in Fetches :
           reached[r] = "chosen" /\ reached'[r] = "done" =>
             \A k \in victims[r] \ touched, l \in LiveRows \ (victims[r] \cup touched) :
               validated[k] <= validated[l]]_cacheVars
  BY DEF CacheInv, OldestInv
<1> QED
  BY CacheInitInv, <1>1, <1>2, <1>3, PTL DEF CacheSpec, CacheKept, PrunesOldest

(***************************************************************************)
(* Bots: requests, and starts that find what others left half done.        *)
(***************************************************************************)

\* What every variable holds; a profile is for a user that is a bot.
BotsTypes ==
  /\ phase \in {"down", "migrating", "starting", "up"}
  /\ next \in Nat \ {0}
  /\ user \in [Bots -> {"none", "plain", "bot"}]
  /\ profile \in [Bots -> [Columns -> Values] \cup {NoProfile}]
  /\ \A b \in Profiles :
       /\ profile[b].user \in Bots /\ user[profile[b].user] = "bot"
       /\ profile[b].owner \in People
  /\ owners \in [Bots -> SUBSET People]
  /\ contacts \in [People \X Bots -> Nat]
  /\ blank = {} \/ \E b \in Creates : blank = {b}
  /\ at \in [BotRequests -> {"new", "write", "commit", "schedule", "add", "ok",
                             "failed", "done"}]
  /\ DOMAIN read = Edits \cup Interactions
  /\ scheduled \subseteq Interactions

\* A request has no profile before it comes, and writes to one that it found active.
RequestsInv ==
  /\ \A r \in Creates : at[r] = "new" => profile[r] = NoProfile
  /\ \A q \in Edits : at[q] = "write" => read[q].active /\ EditBot[q] \in Profiles
  /\ \A i \in Interactions : at[i] = "schedule" => i \in committed

\* What a start owes an entry.
Served(e) ==
  /\ user[e] = "bot"
  /\ \A p \in {EntryOwner[e]} \cup MoreOwners[e] : contacts[<<p, e>>] > 0
  /\ \E b \in Profiles :
       /\ profile[b].owner = EntryOwner[e] /\ profile[b].name = EntryName[e]
       /\ {EntryOwner[e]} \cup MoreOwners[e] \subseteq owners[b]

\* A start has settled the entries before the one it is at, and left no user
\* without a username.
StartInv ==
  /\ phase = "migrating" => next = 1
  /\ phase = "starting" =>
       /\ blank = {}
       /\ \A i \in 1 .. Len(Config) : i < next => Served(Config[i])

BotsInv ==
  /\ BotsTypes
  /\ RequestsInv
  /\ InteractionsWhole
  /\ StartInv

LEMMA BotsInitInv == BotsInit => BotsInv
<1> SUFFICES ASSUME BotsInit PROVE BotsInv
  OBVIOUS
<1> USE BotAssumption DEF BotsInit
<1>1. BotsTypes
  BY DEF BotsTypes, Profiles
<1>2. RequestsInv
  BY DEF RequestsInv, BotRequests, Bots
<1>3. InteractionsWhole /\ StartInv
  BY DEF InteractionsWhole, StartInv, BotRequests
<1> QED
  BY <1>1, <1>2, <1>3 DEF BotsInv

\* Contacts are only added.
LEMMA FirstOrCreateIs ==
  ASSUME BotsTypes, NEW people \in SUBSET People, NEW b \in Bots,
         contacts' = FirstOrCreate(people, b)
  PROVE  /\ contacts' \in [People \X Bots -> Nat]
         /\ \A k \in People \X Bots : contacts[k] > 0 => contacts'[k] > 0
         /\ \A p \in people : contacts'[<<p, b>>] > 0
<1>1. \A k \in People \X Bots :
        contacts'[k] = IF k[1] \in people /\ k[2] = b /\ contacts[k] = 0
                       THEN 1 ELSE contacts[k]
  BY DEF BotsTypes, FirstOrCreate
<1>2. \A k \in People \X Bots : contacts[k] \in Nat
  BY DEF BotsTypes
<1>3. contacts' \in [People \X Bots -> Nat]
  BY <1>2 DEF BotsTypes, FirstOrCreate
<1>4. ASSUME NEW p \in people PROVE contacts'[<<p, b>>] > 0
  <2>1. <<p, b>> \in People \X Bots
    OBVIOUS
  <2> QED
    BY <1>1, <1>2, <2>1
<1> QED
  BY <1>1, <1>2, <1>3, <1>4

\* What a start has given an entry stays, while nothing is taken away.
LEMMA ServedKept ==
  ASSUME BotsTypes, NEW e \in Entries, Served(e),
         user[e] = "bot" => user'[e] = "bot",
         \A k \in People \X Bots : contacts[k] > 0 => contacts'[k] > 0,
         \A b \in Profiles : /\ b \in Profiles'
                             /\ profile'[b].owner = profile[b].owner
                             /\ profile'[b].name = profile[b].name
                             /\ owners[b] \subseteq owners'[b]
  PROVE  Served(e)'
<1> USE BotAssumption
<1>1. {EntryOwner[e]} \cup MoreOwners[e] \subseteq People /\ e \in Bots
  BY DEF Bots
<1>2. \A p \in {EntryOwner[e]} \cup MoreOwners[e] : contacts'[<<p, e>>] > 0
  BY <1>1 DEF Served
<1>3. \E b \in Profiles' :
        /\ profile'[b].owner = EntryOwner[e] /\ profile'[b].name = EntryName[e]
        /\ {EntryOwner[e]} \cup MoreOwners[e] \subseteq owners'[b]
  BY DEF Served
<1> QED
  BY <1>2, <1>3 DEF Served

\* Steps that are not a request's.
LEMMA RequestsKept ==
  ASSUME BotsInv, UNCHANGED requestVars, Profiles \subseteq Profiles',
         \A r \in Creates : profile[r] = NoProfile => profile'[r] = NoProfile
  PROVE  RequestsInv' /\ InteractionsWhole'
  BY DEF BotsInv, RequestsInv, InteractionsWhole, requestVars

\* Steps of a start that leave the profiles, owners and contacts alone.
LEMMA UserStep ==
  ASSUME BotsInv, NEW b \in Bots,
         BackfillUsername(b) \/ CreateUser(b) \/ MarkAutomated(b)
  PROVE  BotsInv'
<1> USE BotAssumption DEF BotsInv
<1>1. UNCHANGED <<startVars, profile, owners, contacts, requestVars>>
  BY DEF BackfillUsername, CreateUser, MarkAutomated
<1>2. blank' \subseteq blank
  BY DEF BackfillUsername, CreateUser, MarkAutomated
<1>3. /\ user' \in [Bots -> {"none", "plain", "bot"}]
      /\ \A c \in Bots : user[c] = "bot" => user'[c] = "bot"
  BY DEF BackfillUsername, CreateUser, MarkAutomated, BotsTypes
<1>4. Profiles' = Profiles
  BY <1>1 DEF Profiles
<1>5. blank' = {} \/ \E c \in Creates : blank' = {c}
  BY <1>2 DEF BotsTypes
<1>6. BotsTypes'
  BY <1>1, <1>3, <1>4, <1>5 DEF BotsTypes, startVars, requestVars
<1>7. RequestsInv' /\ InteractionsWhole'
  BY <1>1, <1>4, RequestsKept
<1>8. StartInv'
  <2>1. \A e \in Entries : Served(e) => Served(e)'
    <3>1. Entries \subseteq Bots
      BY DEF Bots
    <3> QED
      BY <1>1, <1>3, <1>4, <3>1 DEF Served
  <2>2. \A i \in 1 .. Len(Config) : Config[i] \in Entries
    BY DEF Entries
  <2> QED
    BY <1>1, <1>2, <2>1, <2>2 DEF StartInv, startVars
<1> QED
  BY <1>6, <1>7, <1>8

LEMMA StartStep == ASSUME BotsInv, Start PROVE BotsInv'
<1> USE DEF BotsInv, Start
<1>1. UNCHANGED <<user, blank, profile, owners, contacts, read, committed, scheduled>>
  BY DEF tableVars
<1>2. \A r \in BotRequests :
        at'[r] = IF at[r] \in {"write", "commit", "schedule", "add"} THEN "done" ELSE at[r]
  OBVIOUS
<1>3. Profiles' = Profiles
  BY <1>1 DEF Profiles
<1>4. BotsTypes'
  <2>1. at' \in [BotRequests -> {"new", "write", "commit", "schedule", "add", "ok",
                                 "failed", "done"}]
    BY DEF BotsTypes
  <2> QED
    BY <1>1, <1>3, <2>1 DEF BotsTypes
<1>5. RequestsInv' /\ InteractionsWhole'
  BY <1>1, <1>2, <1>3 DEF RequestsInv, InteractionsWhole, BotRequests
<1>6. StartInv'
  BY DEF StartInv
<1> QED
  BY <1>4, <1>5, <1>6

\* The server goes down.
LEMMA DownStep ==
  ASSUME BotsInv, Crash \/ \E e \in Entries : RefuseEntry(e) PROVE BotsInv'
<1> USE DEF BotsInv
<1>1. phase' = "down" /\ UNCHANGED <<next, user, blank, profile, owners, contacts, requestVars>>
  BY DEF Crash, RefuseEntry, tableVars
<1>2. Profiles' = Profiles
  BY <1>1 DEF Profiles
<1>3. BotsTypes'
  BY <1>1, <1>2 DEF BotsTypes, requestVars
<1>4. RequestsInv' /\ InteractionsWhole'
  BY <1>1, <1>2, RequestsKept
<1>5. StartInv'
  BY <1>1 DEF StartInv
<1> QED
  BY <1>3, <1>4, <1>5

LEMMA BackfillOwnersStep == ASSUME BotsInv, BackfillOwners PROVE BotsInv'
<1> USE DEF BotsInv
<1>1. /\ UNCHANGED <<next, user, blank, profile, contacts, requestVars>>
      /\ phase = "migrating" /\ blank = {} /\ phase' = "starting"
      /\ owners' = [b \in Bots |->
           IF b \in Profiles THEN owners[b] \cup {profile[b].owner} ELSE owners[b]]
  BY DEF BackfillOwners
<1>2. Profiles' = Profiles
  BY <1>1 DEF Profiles
<1>3. owners' \in [Bots -> SUBSET People]
  BY <1>1 DEF BotsTypes
<1>4. BotsTypes'
  BY <1>1, <1>2, <1>3 DEF BotsTypes, requestVars
<1>5. RequestsInv' /\ InteractionsWhole'
  BY <1>1, <1>2, RequestsKept
<1>6. StartInv'
  BY <1>1 DEF StartInv
<1> QED
  BY <1>4, <1>5, <1>6

LEMMA NewProfileIs ==
  ASSUME NEW b \in Bots, NEW p \in People, NEW n \in Values
  PROVE  /\ NewProfile(b, p, n) \in [Columns -> Values]
         /\ NewProfile(b, p, n).user = b /\ NewProfile(b, p, n).owner = p
         /\ NewProfile(b, p, n).name = n /\ NewProfile(b, p, n).active
<1>1. b \in Values /\ p \in Values /\ TRUE \in Values /\ FALSE \in Values
  BY DEF Values
<1> DEFINE new == NewProfile(b, p, n)
<1>2. new = [c \in Columns |-> new[c]]
  BY DEF NewProfile, Columns
<1>3. \A c \in Columns : new[c] \in Values
  <2>1. /\ new["user"] = b /\ new["owner"] = p /\ new["name"] = n /\ new["config"] = b
    BY DEF NewProfile
  <2>2. new["active"] = TRUE
    BY DEF NewProfile
  <2>3. new["public"] = (b \in Public)
    BY DEF NewProfile
  <2>4. new["active"] \in Values
    BY <1>1, <2>2, Zenon
  <2>5. new["public"] \in Values
    <3>1. CASE b \in Public
      BY <1>1, <2>3, <3>1, Zenon
    <3>2. CASE b \notin Public
      <4>1. (b \in Public) = FALSE
        BY <3>2
      <4> QED
        BY <1>1, <2>3, <4>1, Zenon
    <3> QED
      BY <3>1, <3>2
  <2> HIDE DEF new
  <2> QED
    BY <1>1, <2>1, <2>4, <2>5 DEF Columns
<1>4. new \in [Columns -> Values]
  BY <1>2, <1>3
<1> QED
  BY <1>4 DEF NewProfile

\* The default bot's profile when a start ends.
Published(f) == [f EXCEPT !.active = TRUE, !.public = TRUE]

LEMMA OverwrittenIs ==
  ASSUME NEW f \in [Columns -> Values], NEW e \in Bots
  PROVE  /\ Overwritten(f, e) \in [Columns -> Values]
         /\ Overwritten(f, e).user = e
         /\ Overwritten(f, e).owner = f.owner /\ Overwritten(f, e).name = f.name
<1> DEFINE g == Overwritten(f, e)
<1>1. /\ g = [c \in Columns |-> g[c]]
      /\ g.user = e /\ g.config = e /\ g.owner = f.owner /\ g.name = f.name
  BY DEF Columns, Overwritten
<1>2. g["active"] = TRUE \/ g["active"] = FALSE
  <2>1. g["active"] = (e \notin Inactive)
    BY DEF Columns, Overwritten
  <2>2. CASE e \in Inactive
    BY <2>1, <2>2, Zenon
  <2>3. CASE e \notin Inactive
    BY <2>1, <2>3, Zenon
  <2> QED
    BY <2>2, <2>3
<1>3. g["public"] = TRUE \/ g["public"] = FALSE
  <2>1. g["public"] = (e \in Public)
    BY DEF Columns, Overwritten
  <2>2. CASE e \in Public
    BY <2>1, <2>2, Zenon
  <2>3. CASE e \notin Public
    <3>1. (e \in Public) = FALSE
      BY <2>3
    <3> QED
      BY <2>1, <3>1, Zenon
  <2> QED
    BY <2>2, <2>3
<1>4. e \in Values /\ TRUE \in Values /\ FALSE \in Values
  BY DEF Values
<1>5. g["active"] \in Values /\ g["public"] \in Values
  BY <1>2, <1>3, <1>4, Zenon
<1>6. g["user"] \in Values /\ g["owner"] \in Values /\ g["name"] \in Values
      /\ g["config"] \in Values
  BY <1>1, <1>4 DEF Columns
<1> HIDE DEF g
<1>7. \A c \in Columns : g[c] \in Values
  BY <1>5, <1>6 DEF Columns
<1>8. g \in [Columns -> Values]
  BY <1>1, <1>7
<1> QED
  BY <1>1, <1>8 DEF g

LEMMA PublishedIs ==
  ASSUME NEW f \in [Columns -> Values]
  PROVE  /\ Published(f) \in [Columns -> Values]
         /\ Published(f).user = f.user
         /\ Published(f).owner = f.owner /\ Published(f).name = f.name
         /\ Published(f).active /\ Published(f).public
<1> DEFINE g == Published(f)
<1>1. /\ g = [c \in Columns |-> g[c]]
      /\ g.user = f.user /\ g.config = f.config
      /\ g.owner = f.owner /\ g.name = f.name
  BY DEF Columns, Published
<1>2. g["active"] = TRUE
  BY DEF Columns, Published
<1>3. g["public"] = TRUE
  BY DEF Columns, Published
<1>4. TRUE \in Values /\ FALSE \in Values
  BY DEF Values
<1>5. g["active"] \in Values /\ g["public"] \in Values
  BY <1>2, <1>3, <1>4, Zenon
<1>6. g["user"] \in Values /\ g["owner"] \in Values /\ g["name"] \in Values
      /\ g["config"] \in Values
  BY <1>1, <1>4 DEF Columns
<1> HIDE DEF g
<1>7. \A c \in Columns : g[c] \in Values
  BY <1>5, <1>6 DEF Columns
<1>8. g \in [Columns -> Values]
  BY <1>1, <1>7
<1> QED
  BY <1>1, <1>2, <1>3, <1>8 DEF g

\* The rows that an entry's transaction leaves.
LEMMA WithEntryIs ==
  ASSUME BotsTypes, NEW e \in Entries, user[e] = "bot",
         profile[e] # NoProfile => Found(e) # {}, profile' = WithEntry(e),
         UNCHANGED user
  PROVE  /\ profile' \in [Bots -> [Columns -> Values] \cup {NoProfile}]
         /\ \A b \in Profiles : /\ b \in Profiles'
                                /\ profile'[b].owner = profile[b].owner
                                /\ profile'[b].name = profile[b].name
         /\ \A b \in Profiles' : /\ profile'[b].user \in Bots
                                 /\ user[profile'[b].user] = "bot"
                                 /\ profile'[b].owner \in People
         /\ \A b \in Profiles' : b \in Profiles \/ b = e
         /\ Found(e) = {} => e \in Profiles' /\ profile'[e].owner = EntryOwner[e]
                             /\ profile'[e].name = EntryName[e]
         /\ \A r \in Creates : profile[r] = NoProfile => profile'[r] = NoProfile
<1> USE BotAssumption
<1>1. e \in Bots /\ EntryOwner[e] \in People /\ EntryName[e] \in Values
  <2>1. EntryName[e] \in {EntryName[d] : d \in Entries}
    OBVIOUS
  <2>2. EntryName[e] \in Values
    BY <2>1 DEF Values
  <2> QED
    BY <2>2 DEF Bots
<1> DEFINE new == NewProfile(e, EntryOwner[e], EntryName[e])
<1>2. /\ new \in [Columns -> Values] /\ new.user = e /\ new.owner = EntryOwner[e]
      /\ new.name = EntryName[e]
  BY <1>1, NewProfileIs
<1> DEFINE rewritten(b) == Overwritten(profile[b], e)
<1>3. \A b \in Profiles : profile[b] \in [Columns -> Values] /\ b \in Bots
  BY DEF BotsTypes, Profiles
<1>4. \A b \in Profiles : /\ rewritten(b) \in [Columns -> Values]
                          /\ rewritten(b).user = e /\ rewritten(b).owner = profile[b].owner
                          /\ rewritten(b).name = profile[b].name
  BY <1>1, <1>3, OverwrittenIs
<1>5. Found(e) \subseteq Profiles
  BY DEF Found
<1>6. /\ DOMAIN profile' = Bots
      /\ profile' = [b \in Bots |-> profile'[b]]
      /\ \A b \in Bots :
           profile'[b] = IF Found(e) = {} /\ b = e THEN new
                         ELSE IF b \in Found(e) /\ e \in Overwrite THEN rewritten(b)
                         ELSE profile[b]
  BY DEF WithEntry
<1> HIDE DEF new, rewritten
<1>7. \A b \in Bots : profile'[b] \in [Columns -> Values] \cup {NoProfile}
  BY <1>2, <1>4, <1>5, <1>6 DEF BotsTypes
<1>8. profile' \in [Bots -> [Columns -> Values] \cup {NoProfile}]
  BY <1>6, <1>7
<1>9. ASSUME NEW b \in Profiles
      PROVE  /\ b \in Profiles'
             /\ profile'[b].owner = profile[b].owner
             /\ profile'[b].name = profile[b].name
             /\ profile'[b].user \in {e, profile[b].user}
  <2>1. b \in Bots /\ profile[b] # NoProfile
    BY DEF Profiles
  <2>2. ~(Found(e) = {} /\ b = e)
    BY <2>1
  <2>3. profile'[b] = rewritten(b) \/ profile'[b] = profile[b]
    BY <1>6, <2>1, <2>2
  <2>4. profile'[b] # NoProfile
    BY <1>3, <1>4, <2>3
  <2> QED
    BY <1>4, <2>1, <2>3, <2>4 DEF Profiles
<1>10. Found(e) = {} => e \in Profiles' /\ profile'[e] = new
  BY <1>1, <1>2, <1>6 DEF Profiles
<1>11. \A b \in Profiles' : b \in Profiles \/ (b = e /\ Found(e) = {})
  BY <1>5, <1>6 DEF Profiles
<1>12. \A b \in Profiles' : /\ profile'[b].user \in Bots
                            /\ user[profile'[b].user] = "bot"
                            /\ profile'[b].owner \in People
  <2> SUFFICES ASSUME NEW b \in Profiles'
               PROVE  /\ profile'[b].user \in Bots
                      /\ user[profile'[b].user] = "bot"
                      /\ profile'[b].owner \in People
    OBVIOUS
  <2>1. CASE b \in Profiles
    BY <1>1, <1>9, <2>1 DEF BotsTypes
  <2>2. CASE b = e /\ Found(e) = {}
    BY <1>1, <1>2, <1>10, <2>2
  <2> QED
    BY <1>11, <2>1, <2>2
<1>13. \A r \in Creates : profile[r] = NoProfile => profile'[r] = NoProfile
  <2>1. \A r \in Creates : r \in Bots /\ r # e
    BY DEF Bots
  <2> QED
    BY <1>5, <1>6, <2>1 DEF Profiles
<1> QED
  BY <1>2, <1>8, <1>9, <1>10, <1>11, <1>12, <1>13

LEMMA ApplyEntryStep ==
  ASSUME BotsInv, NEW e \in Entries, ApplyEntry(e) PROVE BotsInv'
<1> USE BotAssumption DEF BotsInv
<1> DEFINE their == {EntryOwner[e]} \cup MoreOwners[e]
           row == IF Found(e) = {} THEN e ELSE CHOOSE f \in Found(e) : TRUE
<1>1. /\ phase = "starting" /\ next <= Len(Config) /\ e = Config[next]
      /\ user[e] = "bot" /\ next' = next + 1
      /\ UNCHANGED <<phase, user, blank, at, read, committed, scheduled, requestVars>>
      /\ profile' = WithEntry(e) /\ contacts' = FirstOrCreate(their, e)
      /\ profile[e] # NoProfile => Found(e) # {}
      /\ owners' = [owners EXCEPT ![row] = @ \cup {EntryOwner[e]} \cup MoreOwners[e]]
  BY DEF ApplyEntry, EntryUser, requestVars
<1>2. /\ profile' \in [Bots -> [Columns -> Values] \cup {NoProfile}]
      /\ \A b \in Profiles : /\ b \in Profiles'
                             /\ profile'[b].owner = profile[b].owner
                             /\ profile'[b].name = profile[b].name
      /\ \A b \in Profiles' : /\ profile'[b].user \in Bots
                              /\ user[profile'[b].user] = "bot"
                              /\ profile'[b].owner \in People
      /\ Found(e) = {} => e \in Profiles' /\ profile'[e].owner = EntryOwner[e]
                          /\ profile'[e].name = EntryName[e]
      /\ \A r \in Creates : profile[r] = NoProfile => profile'[r] = NoProfile
  BY <1>1, WithEntryIs
<1>3. e \in Bots /\ their \in SUBSET People
  BY DEF Bots
<1>4. /\ contacts' \in [People \X Bots -> Nat]
      /\ \A k \in People \X Bots : contacts[k] > 0 => contacts'[k] > 0
      /\ \A p \in their : contacts'[<<p, e>>] > 0
  BY <1>1, <1>3, FirstOrCreateIs
<1>5. /\ row \in Profiles' /\ row \in Bots
      /\ profile'[row].owner = EntryOwner[e] /\ profile'[row].name = EntryName[e]
  <2>1. CASE Found(e) = {}
    BY <1>2, <1>3, <2>1
  <2>2. CASE Found(e) # {}
    <3>1. row \in Found(e)
      BY <2>2
    <3> HIDE DEF row
    <3>2. row \in Profiles /\ profile[row].owner = EntryOwner[e]
          /\ profile[row].name = EntryName[e]
      BY <3>1 DEF Found
    <3> QED
      BY <1>2, <3>2 DEF Profiles
  <2> QED
    BY <2>1, <2>2
<1> HIDE DEF row
<1>6. /\ owners' \in [Bots -> SUBSET People]
      /\ \A b \in Bots : owners[b] \subseteq owners'[b]
      /\ their \subseteq owners'[row]
  BY <1>1, <1>3, <1>5 DEF BotsTypes
<1> HIDE DEF their
<1>7. BotsTypes'
  <2>1. next' \in Nat \ {0}
    BY <1>1 DEF BotsTypes
  <2> QED
    BY <1>1, <1>2, <1>4, <1>6, <2>1 DEF BotsTypes
<1>8. RequestsInv' /\ InteractionsWhole'
  BY <1>1, <1>2, RequestsKept
<1>9. StartInv'
  <2>1. \A d \in Entries : Served(d) => Served(d)'
    <3>1. \A b \in Profiles : b \in Bots
      BY DEF Profiles
    <3> QED
      BY <1>1, <1>2, <1>4, <1>6, <3>1, ServedKept
  <2>2. Served(e)'
    BY <1>1, <1>4, <1>5, <1>6 DEF Served, their
  <2>3. ASSUME NEW i \in 1 .. Len(Config), i < next' PROVE Served(Config[i])'
    <3>1. next \in Nat /\ i \in Nat
      BY DEF BotsTypes
    <3>2. i < next \/ i = next
      BY <1>1, <2>3, <3>1
    <3>3. Config[i] \in Entries
      BY DEF Entries
    <3> QED
      BY <1>1, <2>1, <2>2, <3>2, <3>3 DEF StartInv
  <2> QED
    BY <1>1, <2>3 DEF StartInv
<1> QED
  BY <1>7, <1>8, <1>9

\* The last step of a start leaves what a start is to achieve.
LEMMA ConnectBaseStep ==
  ASSUME BotsInv, ConnectBase
  PROVE  /\ BotsInv'
         /\ blank' = {}
         /\ profile'[Base].active /\ profile'[Base].public /\ Admin \in owners'[Base]
         /\ \A p \in People : contacts'[<<p, Base>>] > 0
         /\ \A e \in Entries : Served(e)'
<1> USE BotAssumption DEF BotsInv
<1> DEFINE name == IF BaseName \in Taken THEN SpareName ELSE BaseName
           new == NewProfile(Base, Admin, name)
<1>1. /\ phase = "starting" /\ phase' = "up" /\ next > Len(Config) /\ user[Base] = "bot"
      /\ UNCHANGED <<next, user, blank, requestVars>>
      /\ profile' = [profile EXCEPT ![Base] =
           IF @ = NoProfile THEN [new EXCEPT !.public = TRUE]
           ELSE [@ EXCEPT !.active = TRUE, !.public = TRUE]]
      /\ owners' = [owners EXCEPT ![Base] = @ \cup {Admin}]
      /\ contacts' = FirstOrCreate(People, Base)
  BY DEF ConnectBase
<1>2. Base \in Bots /\ name \in Values
  <2>1. {BaseName, SpareName} \subseteq Values
    BY DEF Values
  <2> QED
    BY <2>1 DEF Bots
<1>3. /\ new \in [Columns -> Values] /\ new.user = Base /\ new.owner = Admin
  BY <1>2, NewProfileIs
<1>4. [new EXCEPT !.public = TRUE] = Published(new)
  <2> DEFINE h == [new EXCEPT !.public = TRUE]
             k == Published(new)
  <2>1. h = [c \in Columns |-> h[c]] /\ k = [c \in Columns |-> k[c]]
    BY <1>3 DEF Columns, Published
  <2>2. \A c \in Columns \ {"active"} : h[c] = k[c]
    BY <1>3 DEF Columns, Published
  <2>3. h["active"] = new["active"]
    BY <1>3 DEF Columns
  <2>4. new["active"] = TRUE
    BY DEF NewProfile
  <2>5. k["active"] = TRUE
    BY <1>3 DEF Columns, Published
  <2>6. h["active"] = k["active"]
    BY <2>3, <2>4, <2>5, Zenon
  <2> HIDE DEF h, k
  <2>7. h = k
    BY <2>1, <2>2, <2>6
  <2> QED
    BY <2>7 DEF h, k
<1> HIDE DEF new, name
<1>5. /\ Published(new) \in [Columns -> Values]
      /\ Published(new).user = Base /\ Published(new).owner = Admin
      /\ Published(new).active /\ Published(new).public
  BY <1>3, PublishedIs
<1>6. \A b \in Profiles : profile[b] \in [Columns -> Values] /\ b \in Bots
  BY DEF BotsTypes, Profiles
<1>7. \A b \in Profiles :
        /\ Published(profile[b]) \in [Columns -> Values]
        /\ Published(profile[b]).user = profile[b].user
        /\ Published(profile[b]).owner = profile[b].owner
        /\ Published(profile[b]).name = profile[b].name
        /\ Published(profile[b]).active /\ Published(profile[b]).public
  BY <1>6, PublishedIs
<1>8. /\ profile' = [b \in Bots |-> profile'[b]]
      /\ \A b \in Bots : b # Base => profile'[b] = profile[b]
      /\ profile[Base] = NoProfile => profile'[Base] = Published(new)
      /\ profile[Base] # NoProfile => profile'[Base] = Published(profile[Base])
  <2>1. profile' = [profile EXCEPT ![Base] =
          IF profile[Base] = NoProfile THEN Published(new) ELSE Published(profile[Base])]
    BY <1>1, <1>4 DEF Published
  <2>2. DOMAIN profile = Bots
    BY DEF BotsTypes
  <2> QED
    BY <1>2, <2>1, <2>2
<1>9. /\ profile'[Base] \in [Columns -> Values]
      /\ profile'[Base].user = Base \/ (Base \in Profiles /\ profile'[Base].user = profile[Base].user)
      /\ profile'[Base].owner \in People
      /\ profile'[Base].active /\ profile'[Base].public
  <2>1. CASE profile[Base] = NoProfile
    BY <1>5, <1>8, <2>1
  <2>2. CASE profile[Base] # NoProfile
    <3>1. Base \in Profiles
      BY <1>2, <2>2 DEF Profiles
    <3> QED
      BY <1>7, <1>8, <2>2, <3>1 DEF BotsTypes
  <2> QED
    BY <2>1, <2>2
<1>10. \A b \in Profiles : /\ b \in Profiles'
                           /\ profile'[b].owner = profile[b].owner
                           /\ profile'[b].name = profile[b].name
  <2> SUFFICES ASSUME NEW b \in Profiles
               PROVE  /\ b \in Profiles'
                      /\ profile'[b].owner = profile[b].owner
                      /\ profile'[b].name = profile[b].name
    OBVIOUS
  <2>1. b \in Bots /\ profile[b] # NoProfile
    BY DEF Profiles
  <2>2. CASE b = Base
    <3>1. profile'[b] # NoProfile
      BY <1>9, <2>2
    <3> QED
      BY <1>7, <1>8, <2>1, <2>2, <3>1 DEF Profiles
  <2>3. CASE b # Base
    BY <1>8, <2>1, <2>3 DEF Profiles
  <2> QED
    BY <2>2, <2>3
<1>11. profile' \in [Bots -> [Columns -> Values] \cup {NoProfile}]
  <2>1. \A b \in Bots : profile'[b] \in [Columns -> Values] \cup {NoProfile}
    BY <1>8, <1>9 DEF BotsTypes
  <2> QED
    BY <1>8, <2>1
<1>12. \A b \in Profiles' : /\ profile'[b].user \in Bots
                            /\ user[profile'[b].user] = "bot"
                            /\ profile'[b].owner \in People
  <2> SUFFICES ASSUME NEW b \in Profiles'
               PROVE  /\ profile'[b].user \in Bots
                      /\ user[profile'[b].user] = "bot"
                      /\ profile'[b].owner \in People
    OBVIOUS
  <2>1. CASE b = Base
    BY <1>1, <1>2, <1>9, <2>1 DEF BotsTypes
  <2>2. CASE b # Base
    BY <1>8, <2>2 DEF BotsTypes, Profiles
  <2> QED
    BY <2>1, <2>2
<1>13. /\ contacts' \in [People \X Bots -> Nat]
       /\ \A k \in People \X Bots : contacts[k] > 0 => contacts'[k] > 0
       /\ \A p \in People : contacts'[<<p, Base>>] > 0
  BY <1>1, <1>2, FirstOrCreateIs
<1>14. /\ owners' \in [Bots -> SUBSET People] /\ Admin \in owners'[Base]
       /\ \A b \in Bots : owners[b] \subseteq owners'[b]
  BY <1>1, <1>2 DEF BotsTypes
<1>15. BotsTypes'
  BY <1>1, <1>11, <1>12, <1>13, <1>14 DEF BotsTypes, requestVars
<1>16. RequestsInv' /\ InteractionsWhole'
  <2>1. \A r \in Creates : r \in Bots /\ r # Base
    BY DEF Bots
  <2> QED
    BY <1>1, <1>8, <1>10, <2>1, RequestsKept
<1>17. StartInv'
  BY <1>1 DEF StartInv
<1>18. ASSUME NEW e \in Entries PROVE Served(e)'
  <2>1. PICK i \in 1 .. Len(Config) : e = Config[i]
    BY DEF Entries
  <2>2. Len(Config) \in Nat
    OBVIOUS
  <2>3. i < next
    BY <1>1, <2>2 DEF BotsTypes
  <2>4. Served(e)
    BY <1>1, <2>1, <2>3 DEF StartInv
  <2>5. \A b \in Profiles : b \in Bots
    BY DEF Profiles
  <2> QED
    BY <1>1, <1>10, <1>13, <1>14, <2>4, <2>5, ServedKept
<1> QED
  BY <1>1, <1>9, <1>13, <1>14, <1>15, <1>16, <1>17, <1>18 DEF StartInv

\* A request goes on, and the tables of profiles stay as they are.
LEMMA TurnStep ==
  ASSUME BotsInv, phase = "up", UNCHANGED <<startVars, tableVars>>,
         NEW r \in BotRequests, NEW to, Turn(r, to),
         to \in {"write", "commit", "schedule", "add", "ok", "failed", "done"},
         DOMAIN read' = DOMAIN read,
         \A q \in Edits : at[q] = "write" => read'[q] = read[q],
         r \in Edits /\ to = "write" => read'[r].active /\ EditBot[r] \in Profiles,
         committed \subseteq committed',
         r \in Interactions /\ to = "schedule" => r \in committed',
         scheduled \subseteq scheduled', scheduled' \subseteq committed' \cap Interactions,
         r \in Interactions /\ to = "ok" => r \in scheduled'
  PROVE  BotsInv'
<1> USE BotAssumption DEF BotsInv
<1>1. UNCHANGED <<phase, next, user, blank, profile, owners, contacts>>
  BY DEF startVars, tableVars
<1>2. Profiles' = Profiles
  BY <1>1 DEF Profiles
<1>3. \A s \in BotRequests : at'[s] = IF s = r THEN to ELSE at[s]
  BY DEF Turn, BotsTypes
<1>4. BotsTypes'
  <2>1. at' \in [BotRequests -> {"new", "write", "commit", "schedule", "add", "ok",
                                 "failed", "done"}]
    BY DEF Turn, BotsTypes
  <2> QED
    BY <1>1, <1>2, <2>1 DEF BotsTypes
<1>5. RequestsInv'
  BY <1>1, <1>2, <1>3 DEF RequestsInv, BotRequests
<1>6. InteractionsWhole'
  BY <1>3 DEF InteractionsWhole, BotRequests
<1>7. StartInv'
  BY <1>1 DEF StartInv
<1> QED
  BY <1>4, <1>5, <1>6, <1>7

LEMMA ResolveStep ==
  ASSUME BotsInv,
         \/ \E q \in Edits : ResolveOwned(q)
         \/ \E i \in Interactions : ResolveReadable(i)
  PROVE  BotsInv'
<1> USE BotAssumption DEF BotsInv
<1>1. PICK r \in Edits \cup Interactions, to \in {"write", "commit", "done"},
             b \in Bots :
        /\ phase = "up" /\ at[r] = "new" /\ Turn(r, to)
        /\ UNCHANGED <<startVars, tableVars, committed, scheduled>>
        /\ \/ read' = [read EXCEPT ![r] = profile[b]] /\ b \in Profiles /\ profile[b].active
           \/ read' = read /\ to = "done"
        /\ to = "write" => r \in Edits /\ b = EditBot[r]
  <2>1. Base \in Bots /\ \A b \in Profiles : b \in Bots
    BY DEF Bots, Profiles
  <2>2. ASSUME NEW q \in Edits, ResolveOwned(q)
        PROVE  /\ phase = "up" /\ at[q] = "new"
               /\ UNCHANGED <<startVars, tableVars, committed, scheduled>>
               /\ \/ /\ Turn(q, "write") /\ EditBot[q] \in Profiles /\ profile[EditBot[q]].active
                     /\ read' = [read EXCEPT ![q] = profile[EditBot[q]]]
                  \/ Turn(q, "done") /\ read' = read
    BY <2>2 DEF ResolveOwned, Arrives, FindActive
  <2>3. ASSUME NEW i \in Interactions, ResolveReadable(i)
        PROVE  /\ phase = "up" /\ at[i] = "new"
               /\ UNCHANGED <<startVars, tableVars, committed, scheduled>>
               /\ \/ /\ Turn(i, "commit") /\ InteractionBot[i] \in Profiles
                     /\ profile[InteractionBot[i]].active
                     /\ read' = [read EXCEPT ![i] = profile[InteractionBot[i]]]
                  \/ Turn(i, "done") /\ read' = read
    BY <2>3 DEF ResolveReadable, Arrives, FindActive
  <2> QED
    BY <2>1, <2>2, <2>3
<1>2. DOMAIN read' = DOMAIN read /\ r \in DOMAIN read
  BY <1>1 DEF BotsTypes
<1>3. \A q \in Edits : at[q] = "write" => read'[q] = read[q]
  BY <1>1, <1>2 DEF BotsTypes
<1>4. to = "write" => read'[r].active /\ EditBot[r] \in Profiles
  BY <1>1, <1>2
<1>5. scheduled \subseteq committed \cap Interactions
  BY DEF BotsTypes, InteractionsWhole
<1>6. r \in BotRequests
  BY <1>1 DEF BotRequests
<1> QED
  BY <1>1, <1>2, <1>3, <1>4, <1>5, <1>6, TurnStep

LEMMA InteractionStep ==
  ASSUME BotsInv, NEW i \in Interactions, CommitInteraction(i) \/ ScheduleInteraction(i)
  PROVE  BotsInv'
<1> USE BotAssumption DEF BotsInv
<1>1. scheduled \subseteq committed \cap Interactions
  BY DEF BotsTypes, InteractionsWhole
<1>2. i \in BotRequests
  BY DEF BotRequests
<1>3. CASE CommitInteraction(i)
  <2>1. /\ phase = "up" /\ UNCHANGED <<startVars, tableVars, read, scheduled>>
        /\ \/ committed' = committed \cup {i} /\ Turn(i, "schedule")
           \/ committed' = committed /\ Turn(i, "failed")
    BY <1>3 DEF CommitInteraction
  <2> QED
    BY <1>1, <1>2, <2>1, TurnStep
<1>4. CASE ScheduleInteraction(i)
  <2>1. /\ phase = "up" /\ UNCHANGED <<startVars, tableVars, read, committed>>
        /\ \/ scheduled' = scheduled \cup {i} /\ Turn(i, "ok")
           \/ scheduled' = scheduled /\ Turn(i, "failed")
    BY <1>4 DEF ScheduleInteraction
  <2>2. i \in committed
    BY <1>4 DEF ScheduleInteraction, RequestsInv
  <2> QED
    BY <1>1, <1>2, <2>1, <2>2, TurnStep
<1> QED
  BY <1>3, <1>4

LEMMA FindContactStep == ASSUME BotsInv, NEW a \in Adds, FindContact(a) PROVE BotsInv'
<1> USE BotAssumption DEF BotsInv
<1>1. PICK to \in {"add", "done"} :
        /\ phase = "up" /\ UNCHANGED <<startVars, tableVars, read, committed, scheduled>>
        /\ Turn(a, to)
  BY DEF FindContact, Arrives
<1>2. scheduled \subseteq committed \cap Interactions /\ a \in BotRequests
  BY DEF BotsTypes, InteractionsWhole, BotRequests
<1> QED
  BY <1>1, <1>2, TurnStep

LEMMA AddContactStep == ASSUME BotsInv, NEW a \in Adds, AddContact(a) PROVE BotsInv'
<1> USE BotAssumption DEF BotsInv
<1> DEFINE k == <<By[a], AddBot[a]>>
<1>1. /\ phase = "up" /\ at' = [at EXCEPT ![a] = "done"]
      /\ contacts' = [contacts EXCEPT ![k] = @ + 1]
      /\ UNCHANGED <<phase, next, user, blank, profile, owners, read, committed, scheduled>>
  BY DEF AddContact, Turn, startVars
<1>2. a \in BotRequests /\ k \in People \X Bots
  BY DEF BotRequests
<1> HIDE DEF k
<1>3. contacts' \in [People \X Bots -> Nat]
  BY <1>1, <1>2 DEF BotsTypes
<1>4. Profiles' = Profiles
  BY <1>1 DEF Profiles
<1>5. \A s \in BotRequests : at'[s] = IF s = a THEN "done" ELSE at[s]
  BY <1>1 DEF BotsTypes
<1>6. BotsTypes'
  <2>1. at' \in [BotRequests -> {"new", "write", "commit", "schedule", "add", "ok",
                                 "failed", "done"}]
    BY <1>1 DEF BotsTypes
  <2> QED
    BY <1>1, <1>3, <1>4, <2>1 DEF BotsTypes
<1>7. RequestsInv' /\ InteractionsWhole'
  BY <1>1, <1>4, <1>5 DEF RequestsInv, InteractionsWhole, BotRequests
<1>8. StartInv'
  BY <1>1 DEF StartInv
<1> QED
  BY <1>6, <1>7, <1>8

\* A request makes a profile where there was none.
LEMMA CreateBotStep ==
  ASSUME BotsInv, NEW r \in Creates, CreateBot(r)
  PROVE  /\ BotsInv'
         /\ \A b \in Profiles : profile'[b] = profile[b]
<1> USE BotAssumption DEF BotsInv
<1>1. /\ phase = "up" /\ at[r] = "new" /\ Turn(r, "done")
      /\ UNCHANGED <<startVars, phase, next, read, committed, scheduled>>
  BY DEF CreateBot, Arrives, startVars
<1>2. r \in BotRequests /\ r \in Bots /\ By[r] \in People
  BY DEF BotRequests, Bots
<1>3. CASE UNCHANGED tableVars
  <2>1. scheduled \subseteq committed \cap Interactions
    BY DEF BotsTypes, InteractionsWhole
  <2> QED
    BY <1>1, <1>2, <1>3, <2>1, TurnStep DEF tableVars
<1>4. CASE ~UNCHANGED tableVars
  <2> DEFINE new == NewProfile(r, By[r], NameOf[r])
  <2>1. /\ user' = [user EXCEPT ![r] = "bot"]
        /\ blank' = {r}
        /\ profile' = [profile EXCEPT ![r] = new]
        /\ owners' = [owners EXCEPT ![r] = {By[r]}]
        /\ contacts' = FirstOrCreate({By[r]}, r)
    BY <1>4 DEF CreateBot
  <2>2. NameOf[r] \in Values
    <3>1. NameOf[r] \in {NameOf[s] : s \in Creates}
      OBVIOUS
    <3> QED
      BY <3>1 DEF Values
  <2>3. new \in [Columns -> Values] /\ new.user = r /\ new.owner = By[r]
    BY <1>2, <2>2, NewProfileIs
  <2> HIDE DEF new
  <2>4. profile[r] = NoProfile
    BY <1>1 DEF RequestsInv
  <2>5. /\ profile' \in [Bots -> [Columns -> Values] \cup {NoProfile}]
        /\ \A b \in Bots : profile'[b] = IF b = r THEN new ELSE profile[b]
    BY <1>2, <2>1, <2>3 DEF BotsTypes
  <2>6. Profiles' = Profiles \cup {r} /\ \A b \in Profiles : b \in Bots /\ b # r
    BY <1>2, <2>3, <2>4, <2>5 DEF Profiles
  <2>7. /\ user' \in [Bots -> {"none", "plain", "bot"}]
        /\ \A b \in Bots : user'[b] = IF b = r THEN "bot" ELSE user[b]
    BY <1>2, <2>1 DEF BotsTypes
  <2>8. \A b \in Profiles' : /\ profile'[b].user \in Bots
                             /\ user'[profile'[b].user] = "bot"
                             /\ profile'[b].owner \in People
    <3> SUFFICES ASSUME NEW b \in Profiles'
                 PROVE  /\ profile'[b].user \in Bots
                        /\ user'[profile'[b].user] = "bot"
                        /\ profile'[b].owner \in People
      OBVIOUS
    <3>1. CASE b = r
      BY <1>2, <2>3, <2>5, <2>7, <3>1
    <3>2. CASE b \in Profiles
      <4>1. profile'[b] = profile[b]
        BY <2>5, <2>6, <3>2
      <4>2. /\ profile[b].user \in Bots /\ user[profile[b].user] = "bot"
            /\ profile[b].owner \in People
        BY <3>2 DEF BotsTypes
      <4> QED
        BY <2>7, <4>1, <4>2
    <3> QED
      BY <2>6, <3>1, <3>2
  <2>9. owners' \in [Bots -> SUBSET People]
    BY <1>2, <2>1 DEF BotsTypes
  <2>10. contacts' \in [People \X Bots -> Nat]
    BY <1>2, <2>1, FirstOrCreateIs
  <2>11. /\ at' \in [BotRequests -> {"new", "write", "commit", "schedule", "add", "ok",
                                     "failed", "done"}]
         /\ \A s \in BotRequests : at'[s] = IF s = r THEN "done" ELSE at[s]
    BY <1>1 DEF Turn, BotsTypes
  <2>12. BotsTypes'
    BY <1>1, <2>1, <2>5, <2>7, <2>8, <2>9, <2>10, <2>11 DEF BotsTypes
  <2>13. RequestsInv'
    <3>1. \A s \in Creates : at'[s] = "new" => profile'[s] = NoProfile
      <4>1. \A s \in Creates : s \in Bots /\ s \in BotRequests
        BY DEF Bots, BotRequests
      <4> QED
        BY <2>5, <2>11, <4>1 DEF RequestsInv
    <3>2. \A q \in Edits : at'[q] = "write" => read'[q].active /\ EditBot[q] \in Profiles'
      BY <1>1, <2>6, <2>11 DEF RequestsInv, BotRequests
    <3>3. \A i \in Interactions : at'[i] = "schedule" => i \in committed'
      BY <1>1, <2>11 DEF RequestsInv, BotRequests
    <3> QED
      BY <3>1, <3>2, <3>3 DEF RequestsInv
  <2>14. InteractionsWhole'
    BY <1>1, <2>11 DEF InteractionsWhole, BotRequests
  <2>15. StartInv'
    BY <1>1 DEF StartInv
  <2>16. \A b \in Profiles : profile'[b] = profile[b]
    BY <2>5, <2>6
  <2> QED
    BY <2>12, <2>13, <2>14, <2>15, <2>16
<1>5. (UNCHANGED tableVars) => \A b \in Profiles : profile'[b] = profile[b]
  BY DEF tableVars
<1> QED
  BY <1>3, <1>4, <1>5

\* A request writes columns of the one profile it is about.
LEMMA WriteProfileStep ==
  ASSUME BotsInv, NEW q \in Edits, WriteProfile(q)
  PROVE  /\ BotsInv'
         /\ \A b \in Profiles : b # EditBot[q] => profile'[b] = profile[b]
         /\ at[q] = "write" /\ at'[q] = "done" /\ read[q].active
<1> USE BotAssumption DEF BotsInv
<1> DEFINE bot == EditBot[q]
           new == [c \in DOMAIN profile[bot] |->
                     IF c \in DOMAIN Change[q] THEN Change[q][c] ELSE profile[bot][c]]
<1>1. /\ phase = "up" /\ at[q] = "write" /\ at' = [at EXCEPT ![q] = "done"]
      /\ UNCHANGED <<phase, next, user, blank, owners, contacts, read, committed, scheduled>>
      /\ profile' \in {profile, [profile EXCEPT ![bot] = new]}
  BY DEF WriteProfile, Turn, startVars, Changed
<1>2. q \in BotRequests /\ bot \in Bots /\ bot \in Profiles /\ read[q].active
  BY <1>1 DEF BotRequests, RequestsInv
<1>3. profile[bot] \in [Columns -> Values]
  BY <1>2 DEF BotsTypes, Profiles
<1>4. /\ new \in [Columns -> Values]
      /\ new.user = profile[bot].user /\ new.owner = profile[bot].owner
  <2>1. Written(q) \subseteq Values
    BY DEF Values
  <2>2. \A c \in DOMAIN Change[q] : Change[q][c] \in Values
    BY <2>1 DEF Written
  <2>3. "user" \notin DOMAIN Change[q] /\ "owner" \notin DOMAIN Change[q]
    OBVIOUS
  <2> QED
    BY <1>3, <2>2, <2>3 DEF Columns
<1> HIDE DEF bot, new
<1>5. /\ profile' \in [Bots -> [Columns -> Values] \cup {NoProfile}]
      /\ \A b \in Bots : b # bot => profile'[b] = profile[b]
      /\ profile'[bot] \in {profile[bot], new}
  <2>1. CASE profile' = profile
    BY <1>2, <2>1 DEF BotsTypes
  <2>2. CASE profile' = [profile EXCEPT ![bot] = new]
    BY <1>2, <1>4, <2>2 DEF BotsTypes
  <2> QED
    BY <1>1, <2>1, <2>2
<1>6. Profiles' = Profiles
  BY <1>2, <1>3, <1>4, <1>5 DEF Profiles
<1>7. \A b \in Profiles : /\ profile'[b].user = profile[b].user
                          /\ profile'[b].owner = profile[b].owner
  BY <1>4, <1>5 DEF Profiles
<1>8. /\ at' \in [BotRequests -> {"new", "write", "commit", "schedule", "add", "ok",
                                  "failed", "done"}]
      /\ \A s \in BotRequests : at'[s] = IF s = q THEN "done" ELSE at[s]
  BY <1>1 DEF BotsTypes
<1>9. BotsTypes'
  BY <1>1, <1>5, <1>6, <1>7, <1>8 DEF BotsTypes
<1>10. RequestsInv'
  <2>1. \A s \in Creates : at'[s] = "new" => profile'[s] = NoProfile
    <3> SUFFICES ASSUME NEW s \in Creates, at'[s] = "new" PROVE profile'[s] = NoProfile
      OBVIOUS
    <3>1. s \in Bots /\ s \in BotRequests
      BY DEF Bots, BotRequests
    <3>2. profile[s] = NoProfile
      BY <1>8, <3>1 DEF RequestsInv
    <3>3. s \notin Profiles'
      BY <1>6, <3>2 DEF Profiles
    <3> QED
      BY <3>1, <3>3 DEF Profiles
  <2>2. \A s \in Edits : at'[s] = "write" => read'[s].active /\ EditBot[s] \in Profiles'
    BY <1>1, <1>6, <1>8 DEF RequestsInv, BotRequests
  <2>3. \A i \in Interactions : at'[i] = "schedule" => i \in committed'
    BY <1>1, <1>8 DEF RequestsInv, BotRequests
  <2> QED
    BY <2>1, <2>2, <2>3 DEF RequestsInv
<1>11. InteractionsWhole'
  BY <1>1, <1>8 DEF InteractionsWhole, BotRequests
<1>12. StartInv'
  BY <1>1 DEF StartInv
<1> QED
  BY <1>1, <1>2, <1>5, <1>8, <1>9, <1>10, <1>11, <1>12 DEF bot, Profiles

LEMMA BotsInductive ==
  ASSUME BotsInv, [BotsNext]_botVars
  PROVE  BotsInv'
<1>1. ASSUME NEW b \in Bots, BackfillUsername(b) \/ CreateUser(b) \/ MarkAutomated(b)
      PROVE  BotsInv'
  BY <1>1, UserStep
<1>2. ASSUME NEW e \in Entries, ApplyEntry(e) \/ RefuseEntry(e) PROVE BotsInv'
  BY <1>2, ApplyEntryStep, DownStep
<1>3. ASSUME NEW q \in Edits, ResolveOwned(q) \/ WriteProfile(q) PROVE BotsInv'
  BY <1>3, ResolveStep, WriteProfileStep
<1>4. ASSUME NEW i \in Interactions,
             ResolveReadable(i) \/ CommitInteraction(i) \/ ScheduleInteraction(i)
      PROVE  BotsInv'
  BY <1>4, ResolveStep, InteractionStep
<1>5. ASSUME NEW a \in Adds, FindContact(a) \/ AddContact(a) PROVE BotsInv'
  BY <1>5, FindContactStep, AddContactStep
<1>6. ASSUME NEW r \in Creates, CreateBot(r) PROVE BotsInv'
  BY <1>6, CreateBotStep
<1>7. CASE UNCHANGED botVars
  <2>1. UNCHANGED <<phase, next, user, blank, profile, owners, contacts, at, read,
                    committed, scheduled>>
    BY <1>7 DEF botVars
  <2>2. Profiles' = Profiles
    BY <2>1 DEF Profiles
  <2>3. BotsTypes'
    BY <2>1, <2>2 DEF BotsInv, BotsTypes
  <2>4. RequestsInv' /\ InteractionsWhole'
    BY <2>1, <2>2, RequestsKept DEF requestVars
  <2>5. StartInv'
    BY <2>1, <2>2 DEF BotsInv, StartInv, Served
  <2> QED
    BY <2>3, <2>4, <2>5 DEF BotsInv
<1> QED
  BY <1>1, <1>2, <1>3, <1>4, <1>5, <1>6, <1>7, StartStep, BackfillOwnersStep,
     ConnectBaseStep, DownStep DEF BotsNext

LEMMA BotsHold == BotsInv => InteractionsKept
<1> SUFFICES ASSUME BotsInv PROVE InteractionsKept
  OBVIOUS
<1>1. Cardinality(blank) <= 1
  <2>1. CASE blank = {}
    BY <2>1, FS_EmptySet
  <2>2. CASE \E b \in Creates : blank = {b}
    <3>1. PICK b : blank = {b}
      BY <2>2
    <3>2. Cardinality({b}) = 1
      BY FS_Singleton
    <3> QED
      BY <3>1, <3>2
  <2> QED
    BY <2>1, <2>2 DEF BotsInv, BotsTypes
<1>2. \A b \in Profiles : user[profile[b].user] = "bot" /\ owners[b] \subseteq People
  BY DEF BotsInv, BotsTypes, Profiles
<1> QED
  BY <1>1, <1>2 DEF BotsInv, BotsTypes, BotsTypeOK, InteractionsKept

\* A profile is for a bot, and clients, database and queue agree on interactions, for
\* any bots, people, requests and starts (BotsHandler.CreateInteraction,
\* ensureBootstrapUser, applyBotBootstrapConfig).
THEOREM InteractionsHeld == BotsSpec => []InteractionsKept
  BY BotsInitInv, BotsInductive, BotsHold, PTL DEF BotsSpec

\* A start that comes to its end has served every entry of the configuration and the
\* default bot, whatever earlier starts left half done, and only a request that found
\* a deleted bot active revives it (ServerCli, SetupBaseConnections, resolveOwnedBot).
THEOREM StartsHeld == BotsSpec => StartsRepair
<1> DEFINE complete ==
             (phase = "starting" /\ phase' = "up") =>
               /\ blank' = {}
               /\ profile'[Base].active /\ profile'[Base].public /\ Admin \in owners'[Base]
               /\ \A p \in People : contacts'[<<p, Base>>] > 0
               /\ \A e \in Entries :
                    /\ user'[e] = "bot"
                    /\ \A p \in {EntryOwner[e]} \cup MoreOwners[e] : contacts'[<<p, e>>] > 0
                    /\ \E b \in Bots :
                         /\ profile'[b] # NoProfile
                         /\ profile'[b].owner = EntryOwner[e] /\ profile'[b].name = EntryName[e]
                         /\ {EntryOwner[e]} \cup MoreOwners[e] \subseteq owners'[b]
           knowing ==
             \A b \in Profiles :
               /\ ~profile[b].active /\ phase = "up"
               /\ profile'[b] # profile[b]
               => \E q \in Edits : /\ EditBot[q] = b
                                   /\ at[q] = "write" /\ at'[q] = "done"
                                   /\ read[q].active
<1>1. BotsInv /\ [BotsNext]_botVars => [complete]_botVars
  <2> SUFFICES ASSUME BotsInv, BotsNext, phase = "starting", phase' = "up" PROVE complete
    BY DEF botVars
  <2>1. ConnectBase
    BY DEF BotsNext, Start, BackfillOwners, Crash, BackfillUsername, CreateUser,
           MarkAutomated, ApplyEntry, RefuseEntry, EntryUser, CreateBot, ResolveOwned,
           WriteProfile, ResolveReadable, CommitInteraction, ScheduleInteraction,
           FindContact, AddContact, Arrives, startVars
  <2>2. \A e \in Entries : Served(e)'
    BY <2>1, ConnectBaseStep
  <2>3. \A e \in Entries :
          /\ user'[e] = "bot"
          /\ \A p \in {EntryOwner[e]} \cup MoreOwners[e] : contacts'[<<p, e>>] > 0
          /\ \E b \in Bots :
               /\ profile'[b] # NoProfile
               /\ profile'[b].owner = EntryOwner[e] /\ profile'[b].name = EntryName[e]
               /\ {EntryOwner[e]} \cup MoreOwners[e] \subseteq owners'[b]
    BY <2>2 DEF Served, Profiles
  <2> QED
    BY <2>1, <2>3, ConnectBaseStep
<1>2. BotsInv /\ [BotsNext]_botVars => [knowing]_botVars
  <2> SUFFICES ASSUME BotsInv, BotsNext, NEW b \in Profiles, phase = "up",
                      profile'[b] # profile[b]
               PROVE  \E q \in Edits : /\ EditBot[q] = b
                                       /\ at[q] = "write" /\ at'[q] = "done"
                                       /\ read[q].active
    BY DEF botVars
  <2>1. ASSUME NEW r \in Creates, CreateBot(r) PROVE FALSE
    BY <2>1, CreateBotStep
  <2>2. ASSUME NEW q \in Edits, WriteProfile(q)
        PROVE  EditBot[q] = b /\ at[q] = "write" /\ at'[q] = "done" /\ read[q].active
    BY <2>2, WriteProfileStep
  <2>3. PICK q \in Edits : WriteProfile(q)
    BY <2>1
    DEF BotsNext, Start, BackfillOwners, ConnectBase, Crash, BackfillUsername,
        CreateUser, MarkAutomated, ApplyEntry, RefuseEntry, EntryUser, ResolveOwned,
        ResolveReadable, CommitInteraction, ScheduleInteraction, FindContact,
        AddContact, tableVars
  <2> QED
    BY <2>2, <2>3
<1>3. BotsInv /\ [BotsNext]_botVars => BotsInv'
  BY BotsInductive
<1> QED
  BY BotsInitInv, <1>1, <1>2, <1>3, PTL
  DEF BotsSpec, StartsRepair, StartCompletes, RevivedKnowingly
=============================================================================
