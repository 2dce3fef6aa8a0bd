----------------------------- MODULE ToolQueue -----------------------------
(***************************************************************************)
(* Tools that run in the background: the processes and the Redis each of   *)
(* them uses, the queue's tasks (asynq), and HandleToolExecution, which is *)
(* given no context: an attempt goes on when its time is up, while the     *)
(* queue has begun the next one.                                           *)
(***************************************************************************)
EXTENDS Naturals, FiniteSets

CONSTANTS
  Server,      \* the process that answers requests
  Processes,   \* that one, and workers
  Working,     \* those that run a worker: the server only with --start-worker
  Mode,        \* --redis-mode: "auto", "external" or "embedded"
  Tasks,       \* requests to enqueue a tool call
  RetryLimit,  \* asynq.MaxRetry(10)
  MaxAttempts  \* bound on the attempts at a task

ASSUME ToolQueueAssumption ==
  /\ Server \in Processes
  /\ Working \subseteq Processes
  /\ Mode \in [Processes -> {"auto", "external", "embedded"}]
  /\ {RetryLimit, MaxAttempts} \subseteq Nat
  /\ {"external", "none"} \cap Processes = {}

NoStore  == "none"
Attempts == Tasks \X (1 .. MaxAttempts)

VARIABLES
  reachable,  \* does the external Redis answer?
  store,      \* the Redis of a process: "external", its own, or none
  task,       \* state of a task, its retries, and the store it is in
  current,    \* the number of the attempt that the queue waits for, 0 if none
  begun,      \* the attempts begun at a task
  runner,     \* the process of an attempt
  progress,   \* how far an attempt has come
  ran,        \* how its tool has ended: "no", "success" or "failure"
  rows,       \* rows of task_results: the attempt, and what it says
  result,     \* what Redis holds as the result of a task
  \* History.
  silent,     \* the processes that asked the external Redis at their start in vain
  requeued    \* the attempts that were put back without being counted

queueVars == <<reachable, store, task, current, begun, runner, progress, ran, rows,
               result, silent, requeued>>

QueueInit ==
  /\ reachable \in BOOLEAN
  /\ store = [p \in Processes |-> NoStore]
  /\ task = [t \in Tasks |-> [state |-> "new", retried |-> 0, home |-> NoStore]]
  /\ current = [t \in Tasks |-> 0]
  /\ begun = [t \in Tasks |-> 0]
  /\ runner = [a \in Attempts |-> Server]
  /\ progress = [a \in Attempts |-> "none"]
  /\ ran = [a \in Attempts |-> "no"]
  /\ rows = {}
  /\ result = [t \in Tasks |-> "none"]
  /\ silent = {}
  /\ requeued = {}

Answers(s) == s # NoStore /\ (s = "external" => reachable)

(***************************************************************************)
(* Processes.                                                              *)
(***************************************************************************)
ComeOrGo ==
  /\ reachable' = ~reachable
  /\ UNCHANGED <<store, task, current, begun, runner, progress, ran, rows, result,
                 silent, requeued>>

\* Fault: without a mode that is asked for, there is no attempt to reach Redis.
EmbeddedByDefault(p) == IF Mode[p] = "external" THEN "external" ELSE p

\* In auto mode Redis is asked once, and an embedded one takes its place.
Resolve(p) ==
  IF Mode[p] = "external" \/ (Mode[p] = "auto" /\ reachable) THEN "external" ELSE p

StartProcess(p) ==
  /\ store[p] = NoStore
  /\ store' = [store EXCEPT ![p] = Resolve(p)]
  /\ silent' = IF reachable THEN silent ELSE silent \cup {p}
  /\ UNCHANGED <<reachable, task, current, begun, runner, progress, ran, rows, result,
                 requeued>>

Running(a) == progress[a] \notin {"none", "over", "lost"}

\* The attempts of a process end with it, and so does an embedded Redis.  A
\* worker that is shut down puts its tasks back; one that crashes does not.
StopProcess(p) ==
  LET orderly(t) == /\ current[t] # 0
                    /\ runner[<<t, current[t]>>] = p
                    /\ Answers(task[t].home)
  IN
  /\ store[p] # NoStore
  /\ store' = [store EXCEPT ![p] = NoStore]
  /\ \E back \in {{}, {t \in Tasks : orderly(t)}} :
       /\ task' = [t \in Tasks |->
            CASE task[t].home = p -> [task[t] EXCEPT !.state = "gone"]
              [] task[t].home # p /\ t \in back -> [task[t] EXCEPT !.state = "pending"]
              [] OTHER -> task[t]]
       /\ requeued' = requeued \cup {<<t, current[t]>> : t \in back}
  /\ progress' = [a \in Attempts |->
       IF Running(a) /\ runner[a] = p THEN "lost" ELSE progress[a]]
  /\ current' = [t \in Tasks |-> IF current[t] # 0 /\ runner[<<t, current[t]>>] = p
                                 THEN 0 ELSE current[t]]
  /\ silent' = silent \ {p}
  /\ UNCHANGED <<reachable, begun, runner, ran, rows, result>>

(***************************************************************************)
(* The queue.                                                              *)
(***************************************************************************)

\* The tool is not looked at before the task is run.
EnqueueTool(t) ==
  /\ task[t].state = "new"
  /\ Answers(store[Server])
  /\ task' = [task EXCEPT ![t].state = "pending", ![t].home = store[Server]]
  /\ UNCHANGED <<reachable, store, current, begun, runner, progress, ran, rows, result,
                 silent, requeued>>

Claim(p, t) ==
  /\ p \in Working
  /\ store[p] = task[t].home
  /\ Answers(store[p])
  /\ task[t].state \in {"pending", "retry"}
  /\ begun[t] < MaxAttempts
  /\ task' = [task EXCEPT ![t].state = "active"]
  /\ begun' = [begun EXCEPT ![t] = @ + 1]
  /\ current' = [current EXCEPT ![t] = begun'[t]]
  /\ runner' = [runner EXCEPT ![<<t, begun'[t]>>] = p]
  /\ progress' = [progress EXCEPT ![<<t, begun'[t]>>] = "checking"]
  /\ UNCHANGED <<reachable, store, ran, rows, result, silent, requeued>>

Again(t) ==
  IF task[t].retried < RetryLimit
  THEN [task[t] EXCEPT !.state = "retry", !.retried = @ + 1]
  ELSE [task[t] EXCEPT !.state = "archived"]

\* asynq.Timeout(2 * time.Minute): the attempt itself goes on.
TimeOut(t) ==
  /\ current[t] # 0
  /\ Answers(task[t].home)
  /\ task' = [task EXCEPT ![t] = Again(t)]
  /\ current' = [current EXCEPT ![t] = 0]
  /\ UNCHANGED <<reachable, store, begun, runner, progress, ran, rows, result, silent,
                 requeued>>

\* A task whose worker has crashed is found by another worker on its store.
RecoverTask(t) ==
  /\ task[t].state = "active"
  /\ current[t] = 0
  /\ \E p \in Working : store[p] = task[t].home
  /\ Answers(task[t].home)
  /\ task' = [task EXCEPT ![t] = Again(t)]
  /\ UNCHANGED <<reachable, store, current, begun, runner, progress, ran, rows, result,
                 silent, requeued>>

(***************************************************************************)
(* HandleToolExecution.                                                    *)
(***************************************************************************)
Advance(a, from, to) ==
  /\ progress[a] = from
  /\ progress' = [progress EXCEPT ![a] = to]

\* The user is not a bot, or the chat is not theirs (SkipRetry); the tool or its
\* input is not usable; or the tool is to be run.
Check(a) ==
  /\ \E to \in {"refused", "failed", "running"} : Advance(a, "checking", to)
  /\ UNCHANGED <<reachable, store, task, current, begun, runner, ran, rows, result,
                 silent, requeued>>

RunTool(a) ==
  /\ \/ /\ Advance(a, "running", "succeeded")
        /\ ran' = [ran EXCEPT ![a] = "success"]
     \/ /\ Advance(a, "running", "failed")
        /\ ran' = [ran EXCEPT ![a] = "failure"]
  /\ UNCHANGED <<reachable, store, task, current, begun, runner, rows, result, silent,
                 requeued>>

\* A row may fail to be inserted.
Persist(a, says) ==
  \E inserted \in SUBSET {[attempt |-> a, says |-> says]} : rows' = rows \cup inserted

\* A failure: the result, whose error is ignored, then the row.
WriteFailure(a) ==
  /\ Advance(a, "failed", "noting")
  /\ \/ /\ Answers(task[a[1]].home)
        /\ result' = [result EXCEPT ![a[1]] = "failure"]
     \/ UNCHANGED result
  /\ UNCHANGED <<reachable, store, task, current, begun, runner, ran, rows, silent,
                 requeued>>

NoteFailure(a) ==
  /\ Advance(a, "noting", "error")
  /\ Persist(a, "failure")
  /\ UNCHANGED <<reachable, store, task, current, begun, runner, ran, result, silent,
                 requeued>>

\* A success: the row, then the result, whose error is the attempt's.
NoteSuccess(a) ==
  /\ Advance(a, "succeeded", "writing")
  /\ Persist(a, "success")
  /\ UNCHANGED <<reachable, store, task, current, begun, runner, ran, result, silent,
                 requeued>>

WriteSuccess(a) ==
  /\ \/ /\ Answers(task[a[1]].home)
        /\ Advance(a, "writing", "ok")
        /\ result' = [result EXCEPT ![a[1]] = "success"]
     \/ /\ Advance(a, "writing", "error")
        /\ UNCHANGED result
  /\ UNCHANGED <<reachable, store, task, current, begun, runner, ran, rows, silent,
                 requeued>>

\* What the queue makes of the end of an attempt it waits for.
After(a) ==
  CASE progress[a] = "ok"      -> [task[a[1]] EXCEPT !.state = "completed"]
    [] progress[a] = "refused" -> [task[a[1]] EXCEPT !.state = "archived"]
    [] progress[a] = "error"   -> Again(a[1])

\* The end of one that it has given up is not looked at.
End(a) ==
  /\ \E from \in {"ok", "refused", "error"} : Advance(a, from, "over")
  /\ IF current[a[1]] = a[2]
     THEN /\ Answers(task[a[1]].home)
          /\ task' = [task EXCEPT ![a[1]] = After(a)]
          /\ current' = [current EXCEPT ![a[1]] = 0]
     ELSE UNCHANGED <<task, current>>
  /\ UNCHANGED <<reachable, store, begun, runner, ran, rows, result, silent, requeued>>

QueueNext ==
  \/ ComeOrGo
  \/ \E p \in Processes : StartProcess(p) \/ StopProcess(p)
  \/ \E t \in Tasks : EnqueueTool(t) \/ TimeOut(t) \/ RecoverTask(t)
  \/ \E p \in Processes, t \in Tasks : Claim(p, t)
  \/ \E a \in Attempts : \/ Check(a) \/ RunTool(a) \/ WriteFailure(a) \/ NoteFailure(a)
                         \/ NoteSuccess(a) \/ WriteSuccess(a) \/ End(a)

QueueSpec == QueueInit /\ [][QueueNext]_queueVars

(***************************************************************************)
(* Properties.                                                             *)
(***************************************************************************)

Of(t) == {a \in Attempts : a[1] = t}

\* Every variable keeps its type.
QueueTypeOK ==
  /\ store \in [Processes -> Processes \cup {"external", NoStore}]
  /\ \A t \in Tasks :
       /\ task[t].state \in {"new", "pending", "active", "retry", "completed",
                             "archived", "gone"}
       /\ task[t].retried \in 0 .. RetryLimit
       /\ current[t] \in 0 .. begun[t]
       /\ begun[t] \in 0 .. MaxAttempts
  /\ runner \in [Attempts -> Working \cup {Server}]
  /\ ran \in [Attempts -> {"no", "success", "failure"}]
  /\ \A w \in rows : w.says = "success" => ran[w.attempt] = "success"
  /\ result \in [Tasks -> {"none", "success", "failure"}]

\* A task is only completed when its tool has been run with success by an
\* attempt, though attempts overlap after a timeout and one may be refused while
\* another runs (HandleToolExecution).
CompletedRan ==
  \A t \in Tasks :
    task[t].state = "completed" =>
      \E a \in Of(t) : ran[a] = "success" /\ progress[a] = "over"

\* For one request a tool is run at most once, and once more for each retry the
\* queue is asked for and each time that a worker which was shut down put the
\* task back: also when attempts outlive their time, and their results are
\* written late or not at all (EnqueueTool, HandleToolExecution).
RunsBounded ==
  \A t \in Tasks :
    Cardinality({a \in Of(t) : ran[a] # "no"})
      <= 1 + RetryLimit + Cardinality(requeued \cap Of(t))

\* An embedded Redis, which no other process takes from: it was asked for, or
\* the external one was silent when the process began.
Alone(p) == store[p] = p /\ (Mode[p] = "embedded" \/ p \in silent)

\* An accepted task waits in a Redis that every running worker takes from, or
\* the server or that worker is alone with a Redis of its own; a server that
\* works takes what it accepts.  Each process asks for itself, once, at its start
\* (ResolveRedisRuntime): a server and a worker that find the external Redis
\* silent, or one of them, may run side by side while a task waits for ever.
WaitsWhereTaken ==
  \A t \in Tasks, p \in Working :
    /\ task[t].state \in {"pending", "active", "retry"}
    /\ store[p] \notin {NoStore, task[t].home}
    => \/ Alone(p) /\ task[t].home = "external"
       \/ Alone(Server) /\ task[t].home = Server

\* A task waits where it is taken, is completed only by a run, and its tool runs
\* as often as the queue's attempts allow.
RunsAccountedFor ==
  /\ QueueTypeOK
  /\ CompletedRan
  /\ RunsBounded
  /\ WaitsWhereTaken
=============================================================================
