--------------------------- MODULE BotReplyProofs ---------------------------
(***************************************************************************)
(* Proofs about BotReply, for every number of chats, messages, interrupts  *)
(* and attempts, every retry budget and every number of restarts; and, in  *)
(* the last part, about ThinkTags, for every text, tags and pieces.        *)
(***************************************************************************)
EXTENDS BotReplyRefinement, ThinkTags, DataLemmas

\* A task belongs to the chat of the message it carries.
TaskInv ==
  \A c \in Chats :
    /\ task[c].state = "none" <=> task[c].msg = NoMessage
    /\ task[c].state # "none" => ChatOf[task[c].msg] = c

\* The attempt asynq waits for is an attempt at the chat's active task.
WorkerInv ==
  \A c \in Chats : worker[c] # NoAttempt =>
    /\ task[c].state = "active"
    /\ src[worker[c]] = task[c].msg
    /\ fate[worker[c]] = "owner"
    /\ pc[worker[c]] \in Working \cup {"succeeded", "skipped", "errored"}

\* asynq waits for every attempt it has not settled, and an attempt it gave up
\* while the handler was running has a context that is over.
AttemptInv ==
  \A a \in Attempts :
    /\ pc[a] = "unused" => fate[a] = "none" /\ ctx[a] = "live"
    /\ pc[a] # "unused" => src[a] \in Messages /\ fate[a] # "none"
    /\ fate[a] = "owner" => worker[ChatOf[src[a]]] = a
    /\ Running(a) => fate[a] # "done"
    /\ Running(a) /\ fate[a] = "abandoned" => ctx[a] = "ended"

\* The inductive invariant behind LiveHandlerOwnsTask and StatusCoversWork.
IInv == TypeOK /\ TaskInv /\ WorkerInv /\ AttemptInv

\* What the steps make of a task is a task: the retry count never passes
\* MaxRetry, and "none" is the state of NoTask only.
LEMMA NewTaskType ==
  ASSUME NEW m \in Messages
  PROVE  [state |-> "pending", msg |-> m, retried |-> 0] \in TaskRecord
  BY ConstantsAssumption DEF TaskRecord

LEMMA TaskFields ==
  ASSUME NEW t \in TaskRecord \cup {NoTask}
  PROVE  /\ t.state \in {"none", "pending", "active", "retry", "archived"}
         /\ t.state = "none" => t = NoTask
         /\ t.state # "none" => t \in TaskRecord /\ t.msg \in Messages
         /\ t.msg \in Messages \cup {NoMessage}
  BY DEF TaskRecord, NoTask

LEMMA StateChange ==
  ASSUME NEW t \in TaskRecord, NEW s \in {"pending", "active", "archived"}
  PROVE  /\ [t EXCEPT !.state = s] \in TaskRecord
         /\ [t EXCEPT !.state = s].state = s
         /\ [t EXCEPT !.state = s].msg = t.msg
  BY DEF TaskRecord

LEMMA RetriedType ==
  ASSUME NEW t \in TaskRecord
  PROVE  /\ Retried(t) \in TaskRecord
         /\ Retried(t).state \in {"retry", "archived"}
         /\ Retried(t).msg = t.msg
<1>1. CASE t.retried < MaxRetry
  BY <1>1, ConstantsAssumption DEF TaskRecord, Retried
<1>2. CASE ~(t.retried < MaxRetry)
  BY <1>2, ConstantsAssumption DEF TaskRecord, Retried
<1> QED
  BY <1>1, <1>2

\* A step keeps the types.  That a task taken over by a worker is a task at
\* all needs WorkerInv: TypeOK is not inductive by itself.
LEMMA TypeStep ==
  ASSUME TypeOK, WorkerInv, [Next]_vars
  PROVE  TypeOK'
<1> USE DEF TypeOK, requestVars, queueVars, attemptVars, Working, Running
<1>0. \A m \in Messages \cup Interrupts : ChatOf[m] \in Chats
  BY ConstantsAssumption
<1>t. ASSUME NEW c \in Chats, task[c].state # "none"
      PROVE  task[c] \in TaskRecord /\ task[c].msg \in Messages
  BY <1>t, TaskFields
<1>d. ASSUME NEW c \in Chats, DeleteTask(c)
      PROVE  /\ task' \in [Chats -> TaskRecord \cup {NoTask}]
             /\ withdrawn' \subseteq Messages
  BY <1>d, <1>t DEF DeleteTask
<1>1. ASSUME NEW m \in Messages, MessageSend(m) PROVE TypeOK'
  BY <1>1 DEF MessageSend, Insert, Older
<1>2. ASSUME NEW m \in Messages, EnqueueSignal(m) PROVE TypeOK'
  BY <1>2 DEF EnqueueSignal
<1>3. ASSUME NEW m \in Messages, EnqueueClear(m) PROVE TypeOK'
  BY <1>3, <1>0, <1>d DEF EnqueueClear
<1>4. ASSUME NEW m \in Messages, EnqueueTask(m) PROVE TypeOK'
  BY <1>4, NewTaskType DEF EnqueueTask
<1>5. ASSUME NEW m \in Messages, NEW s \in Messages, RerunMessage(m, s) PROVE TypeOK'
  BY <1>5 DEF RerunMessage, Insert, Older
<1>6. ASSUME NEW i \in Interrupts, InterruptSignal(i) PROVE TypeOK'
  BY <1>6 DEF InterruptSignal
<1>7. ASSUME NEW i \in Interrupts, InterruptClear(i) PROVE TypeOK'
  BY <1>7, <1>0, <1>d DEF InterruptClear
<1>8. ASSUME NEW r \in Messages \cup Interrupts, DeliverSignal(r) PROVE TypeOK'
  BY <1>8 DEF DeliverSignal
<1>9. ASSUME NEW c \in Chats, Timeout(c) PROVE TypeOK'
  BY <1>9 DEF Timeout
<1>10. ASSUME NEW c \in Chats, NEW a \in Attempts, Claim(c, a) PROVE TypeOK'
  <2>1. [task[c] EXCEPT !.state = "active"] \in TaskRecord /\ task[c].msg \in Messages
    BY <1>10, <1>t, StateChange DEF Claim
  <2> QED
    BY <1>10, <2>1 DEF Claim
<1>11. ASSUME NEW c \in Chats, AbandonAttempt(c) PROVE TypeOK'
  <2>1. Retried(task[c]) \in TaskRecord
    BY <1>11, <1>t, RetriedType DEF AbandonAttempt, WorkerInv
  <2>2. task' \in [Chats -> TaskRecord \cup {NoTask}]
    BY <1>11, <2>1 DEF AbandonAttempt
  <2> QED
    BY <1>11, <2>2 DEF AbandonAttempt
<1>12. ASSUME NEW c \in Chats, FinishTask(c) PROVE TypeOK'
  <2>1. [task[c] EXCEPT !.state = "archived"] \in TaskRecord
    BY <1>12, <1>t, StateChange DEF FinishTask, WorkerInv
  <2>2. task' \in [Chats -> TaskRecord \cup {NoTask}]
    BY <1>12, <2>1 DEF FinishTask
  <2> QED
    BY <1>12, <2>2 DEF FinishTask
<1>13. ASSUME NEW c \in Chats, Forward(c) PROVE TypeOK'
  <2>1. [task[c] EXCEPT !.state = "pending"] \in TaskRecord
    BY <1>13, <1>t, StateChange DEF Forward
  <2> QED
    BY <1>13, <2>1 DEF Forward
<1>14. ASSUME NEW c \in Chats, Recover(c) PROVE TypeOK'
  <2>1. Retried(task[c]) \in TaskRecord
    BY <1>14, <1>t, RetriedType DEF Recover
  <2> QED
    BY <1>14, <2>1 DEF Recover
<1>15. ASSUME NEW a \in Attempts, LoadSource(a) PROVE TypeOK'
  BY <1>15 DEF LoadSource, Return
<1>16. ASSUME NEW a \in Attempts, Respond(a) PROVE TypeOK'
  BY <1>16 DEF Respond, Post
<1>17. ASSUME NEW a \in Attempts, FailResponse(a) PROVE TypeOK'
  BY <1>17 DEF FailResponse, Post
<1>18. ASSUME NEW a \in Attempts, PauseResponse(a) PROVE TypeOK'
  BY <1>18 DEF PauseResponse, Post
<1>19. ASSUME NEW a \in Attempts, ReturnResult(a) PROVE TypeOK'
  BY <1>19 DEF ReturnResult, Return
<1>20. ASSUME CloseHTTP PROVE TypeOK'
  BY <1>20, ConstantsAssumption DEF CloseHTTP
<1>g. ASSUME ProcessGone
      PROVE  /\ server' \in {"up", "draining", "down"}
             /\ req' \in [Messages -> {"new", "stored", "signalled", "cleared",
                                       "accepted", "refused", "lost"}]
             /\ intr' \in [Interrupts -> {"new", "signalled", "done"}]
             /\ signals' \subseteq Messages \cup Interrupts
             /\ worker' \in [Chats -> Attempts \cup {NoAttempt}]
             /\ pc' \in [Attempts -> Working \cup {"unused", "succeeded",
                                                   "skipped", "errored", "over"}]
             /\ fate' \in [Attempts -> {"none", "owner", "done", "abandoned"}]
  BY <1>g DEF ProcessGone, InFlight
<1>21. ASSUME StopWorker PROVE TypeOK'
  <2>1. ASSUME NEW c \in Chats, worker[c] # NoAttempt
        PROVE  [task[c] EXCEPT !.state = "pending"] \in TaskRecord
    BY <1>21, <2>1, <1>t, StateChange DEF WorkerInv
  <2>2. task' \in [Chats -> TaskRecord \cup {NoTask}]
    BY <1>21, <2>1 DEF StopWorker
  <2> QED
    BY <1>21, <1>g, <2>2 DEF StopWorker
<1>22. ASSUME Crash PROVE TypeOK'
  <2>1. task' \in [Chats -> TaskRecord \cup {NoTask}]
    BY <1>22 DEF Crash
  <2>2. stops' \in 0..MaxStops
    BY <1>22, ConstantsAssumption DEF Crash
  <2> QED
    BY <1>22, <1>g, <2>1, <2>2 DEF Crash
<1>23. ASSUME Restart PROVE TypeOK'
  BY <1>23 DEF Restart
<1>24. CASE UNCHANGED vars
  BY <1>24 DEF vars
<1> QED
  BY <1>1, <1>2, <1>3, <1>4, <1>5, <1>6, <1>7, <1>8, <1>9, <1>10, <1>11, <1>12, <1>13, <1>14, <1>15, <1>16, <1>17, <1>18, <1>19, <1>20, <1>21, <1>22, <1>23, <1>24
  DEF Next, Request, Worker, Handler, Operate

\* TaskInv, WorkerInv and AttemptInv talk of these variables only.
coreVars == <<queueVars, pc, src, ctx, fate>>

\* A task is removed only while no worker is at it.
LEMMA ClearStep ==
  ASSUME IInv, NEW c \in Chats, DeleteTask(c), UNCHANGED <<worker, attemptVars>>
  PROVE  TaskInv' /\ WorkerInv' /\ AttemptInv'
<1> USE DEF IInv, TypeOK, attemptVars
<1>1. TaskInv'
  BY DEF DeleteTask, TaskInv, NoTask
<1>2. WorkerInv'
  BY DEF DeleteTask, WorkerInv
<1>3. AttemptInv'
  BY DEF AttemptInv, Running
<1> QED
  BY <1>1, <1>2, <1>3

\* A step of the handler goroutine of a changes pc[a] only, and an attempt the
\* worker still waits for does not end unnoticed.
LEMMA HandlerStep ==
  ASSUME IInv, NEW a \in Attempts, Running(a),
         UNCHANGED <<queueVars, src, ctx, fate>>,
         NEW p \in Working \cup {"succeeded", "skipped", "errored", "over"},
         pc' = [pc EXCEPT ![a] = p],
         p = "over" => fate[a] = "abandoned"
  PROVE  TaskInv' /\ WorkerInv' /\ AttemptInv'
<1> USE DEF IInv, TypeOK, queueVars
<1>1. TaskInv'
  BY DEF TaskInv
<1>2. WorkerInv'
  BY DEF WorkerInv
<1>3. AttemptInv'
  BY DEF AttemptInv, Running, Working
<1> QED
  BY <1>1, <1>2, <1>3

\* The process goes, with or without its queue.
LEMMA GoneStep ==
  ASSUME IInv, ProcessGone, UNCHANGED <<src, ctx>>,
         NEW T, task' = [c \in Chats |-> T[c]],
         \A c \in Chats : \/ T[c] = NoTask
                         \/ T[c] = task[c]
                         \/ /\ worker[c] # NoAttempt
                            /\ T[c] = [task[c] EXCEPT !.state = "pending"]
  PROVE  TaskInv' /\ WorkerInv' /\ AttemptInv'
<1> USE DEF IInv, TypeOK
<1>1. TaskInv'
  <2> SUFFICES ASSUME NEW c \in Chats
               PROVE  /\ T[c].state = "none" <=> T[c].msg = NoMessage
                      /\ T[c].state # "none" => ChatOf[T[c].msg] = c
    BY DEF TaskInv
  <2>1. CASE T[c] = NoTask
    BY <2>1 DEF NoTask
  <2>2. CASE T[c] = task[c]
    BY <2>2 DEF TaskInv
  <2>3. CASE worker[c] # NoAttempt /\ T[c] = [task[c] EXCEPT !.state = "pending"]
    <3>1. task[c].state = "active" /\ task[c] \in TaskRecord
      BY <2>3, TaskFields DEF WorkerInv
    <3> QED
      BY <2>3, <3>1, StateChange DEF TaskInv
  <2> QED
    BY <2>1, <2>2, <2>3
<1>2. WorkerInv'
  BY DEF WorkerInv, ProcessGone
<1>3. AttemptInv'
  BY DEF AttemptInv, ProcessGone, Running, Working
<1> QED
  BY <1>1, <1>2, <1>3

\* An active task of a chat is taken out of its worker's hands: the attempt is
\* abandoned and its context is over.
LEMMA AbandonStep ==
  ASSUME IInv, NEW c \in Chats, AbandonAttempt(c)
  PROVE  TaskInv' /\ WorkerInv' /\ AttemptInv'
<1> DEFINE a == worker[c]
<1> USE DEF IInv, TypeOK
<1>1. /\ a \in Attempts /\ fate[a] = "owner" /\ src[a] = task[c].msg
      /\ pc[a] \in Working \cup {"succeeded", "skipped", "errored"}
      /\ task[c].state = "active" /\ ChatOf[task[c].msg] = c
      /\ ctx[a] = "ended"
  BY DEF AbandonAttempt, WorkerInv, TaskInv
<1>2. /\ task' = [task EXCEPT ![c] = Retried(task[c])]
      /\ Retried(task[c]).state \in {"retry", "archived"}
      /\ Retried(task[c]).msg = task[c].msg
  BY <1>1, TaskFields, RetriedType DEF AbandonAttempt
<1>3. /\ worker' = [worker EXCEPT ![c] = NoAttempt]
      /\ fate' = [fate EXCEPT ![a] = "abandoned"]
      /\ pc' = [pc EXCEPT ![a] = IF Running(a) THEN pc[a] ELSE "over"]
      /\ UNCHANGED <<src, ctx>>
  BY DEF AbandonAttempt, attemptVars
<1>4. \A d \in Chats : d # c /\ worker[d] # NoAttempt => worker[d] # a
  BY <1>1 DEF WorkerInv, TaskInv
<1>5. TaskInv'
  BY <1>1, <1>2 DEF TaskInv
<1>6. WorkerInv'
  BY <1>2, <1>3, <1>4 DEF WorkerInv
<1>7. AttemptInv'
  BY <1>1, <1>3, ConstantsAssumption DEF AttemptInv, Running, Working
<1> QED
  BY <1>5, <1>6, <1>7

\* The worker settles an attempt whose handler has returned.
LEMMA FinishStep ==
  ASSUME IInv, NEW c \in Chats, FinishTask(c)
  PROVE  TaskInv' /\ WorkerInv' /\ AttemptInv'
<1> DEFINE a == worker[c]
<1> USE DEF IInv, TypeOK
<1>1. /\ a \in Attempts /\ fate[a] = "owner" /\ src[a] = task[c].msg
      /\ pc[a] \in {"succeeded", "skipped"}
      /\ task[c].state = "active" /\ ChatOf[task[c].msg] = c
  BY DEF FinishTask, WorkerInv, TaskInv
<1>2. PICK t : /\ task' = [task EXCEPT ![c] = t]
               /\ t.state = "none" <=> t.msg = NoMessage
               /\ t.state # "none" => t.state = "archived" /\ t.msg = task[c].msg
  <2>1. task[c] \in TaskRecord /\ task[c].msg \in Messages
    BY <1>1, TaskFields
  <2>2. [task[c] EXCEPT !.state = "archived"].state = "archived"
    BY <2>1, StateChange
  <2>3. [task[c] EXCEPT !.state = "archived"].msg = task[c].msg
    BY <2>1, StateChange
  <2>4. CASE pc[a] = "succeeded"
    <3>1. task' = [task EXCEPT ![c] = NoTask]
      BY <2>4 DEF FinishTask
    <3>2. NoTask.state = "none" /\ NoTask.msg = NoMessage
      BY DEF NoTask
    <3> HIDE DEF IInv, TypeOK
    <3> QED
      BY <3>1, <3>2
  <2>5. CASE pc[a] = "skipped"
    <3>1. task' = [task EXCEPT ![c] = [task[c] EXCEPT !.state = "archived"]]
      BY <2>5 DEF FinishTask
    <3>2. task[c].msg # NoMessage
      BY <2>1, ConstantsAssumption
    <3> DEFINE t == [task[c] EXCEPT !.state = "archived"]
    <3>3. t.state = "archived" /\ t.msg = task[c].msg
      BY <2>2, <2>3
    <3>4. task' = [task EXCEPT ![c] = t]
      BY <3>1
    <3> HIDE DEF t, IInv, TypeOK
    <3> QED
      BY <3>2, <3>3, <3>4
  <2> QED
    BY <1>1, <2>4, <2>5
<1>3. /\ worker' = [worker EXCEPT ![c] = NoAttempt]
      /\ fate' = [fate EXCEPT ![a] = "done"]
      /\ pc' = [pc EXCEPT ![a] = "over"]
      /\ UNCHANGED <<src, ctx>>
  BY DEF FinishTask, attemptVars
<1>4. \A d \in Chats : d # c /\ worker[d] # NoAttempt => worker[d] # a
  BY <1>1 DEF WorkerInv, TaskInv
<1>5. TaskInv'
  BY <1>1, <1>2 DEF TaskInv
<1>6. WorkerInv'
  BY <1>2, <1>3, <1>4 DEF WorkerInv
<1>7. AttemptInv'
  BY <1>1, <1>3, ConstantsAssumption DEF AttemptInv, Running, Working
<1> QED
  BY <1>5, <1>6, <1>7

\* A new attempt starts only when no worker is at the chat's task.
LEMMA ClaimStep ==
  ASSUME IInv, NEW c \in Chats, NEW a \in Attempts, Claim(c, a)
  PROVE  TaskInv' /\ WorkerInv' /\ AttemptInv'
<1> USE DEF IInv, TypeOK
<1>1. /\ task[c].state = "pending" /\ task[c] \in TaskRecord
      /\ task[c].msg \in Messages /\ ChatOf[task[c].msg] = c
      /\ worker[c] = NoAttempt /\ pc[a] = "unused"
  BY TaskFields DEF Claim, WorkerInv, TaskInv
<1>2. /\ task' = [task EXCEPT ![c] = [task[c] EXCEPT !.state = "active"]]
      /\ [task[c] EXCEPT !.state = "active"].state = "active"
      /\ [task[c] EXCEPT !.state = "active"].msg = task[c].msg
  BY <1>1, StateChange DEF Claim
<1>3. /\ worker' = [worker EXCEPT ![c] = a]
      /\ pc' = [pc EXCEPT ![a] = "start"]
      /\ src' = [src EXCEPT ![a] = task[c].msg]
      /\ fate' = [fate EXCEPT ![a] = "owner"]
      /\ UNCHANGED ctx
  BY DEF Claim
<1>4. \A d \in Chats : worker[d] # a
  BY <1>1, ConstantsAssumption DEF WorkerInv, Working
<1>5. TaskInv'
  BY <1>1, <1>2, ConstantsAssumption DEF TaskInv
<1>6. WorkerInv'
  BY <1>1, <1>2, <1>3, <1>4 DEF WorkerInv, Working
<1>7. AttemptInv'
  BY <1>1, <1>3, <1>4, ConstantsAssumption DEF AttemptInv, Running, Working
<1> QED
  BY <1>5, <1>6, <1>7

\* The inductive step.
LEMMA CoreStep ==
  ASSUME IInv, [Next]_vars
  PROVE  TaskInv' /\ WorkerInv' /\ AttemptInv'
<1> USE DEF IInv, TypeOK, queueVars, attemptVars
<1> DEFINE Goal == TaskInv' /\ WorkerInv' /\ AttemptInv'
<1>1. ASSUME UNCHANGED coreVars PROVE Goal
  BY <1>1 DEF coreVars, TaskInv, WorkerInv, AttemptInv, Running
<1>2. ASSUME NEW m \in Messages, MessageSend(m) \/ EnqueueSignal(m) PROVE Goal
  BY <1>1, <1>2 DEF MessageSend, EnqueueSignal, coreVars
<1>3. ASSUME NEW m \in Messages, NEW s \in Messages, RerunMessage(m, s) PROVE Goal
  BY <1>1, <1>3 DEF RerunMessage, coreVars
<1>4. ASSUME NEW m \in Messages, EnqueueClear(m) PROVE Goal
  BY <1>4, ClearStep, ConstantsAssumption DEF EnqueueClear
<1>5. ASSUME NEW m \in Messages, EnqueueTask(m) PROVE Goal
  <2>1. CASE task' = task
    BY <1>1, <1>5, <2>1 DEF EnqueueTask, coreVars
  <2>2. CASE /\ task[ChatOf[m]].state = "none"
             /\ task' = [task EXCEPT ![ChatOf[m]] =
                            [state |-> "pending", msg |-> m, retried |-> 0]]
    <3>1. UNCHANGED <<worker, pc, src, ctx, fate>>
      BY <1>5 DEF EnqueueTask
    <3>2. TaskInv'
      BY <2>2, ConstantsAssumption DEF TaskInv
    <3>3. WorkerInv'
      BY <2>2, <3>1 DEF WorkerInv
    <3>4. AttemptInv'
      BY <3>1 DEF AttemptInv, Running
    <3> QED
      BY <3>2, <3>3, <3>4
  <2> QED
    BY <1>5, <2>1, <2>2 DEF EnqueueTask
<1>6. ASSUME NEW i \in Interrupts, InterruptSignal(i) PROVE Goal
  BY <1>1, <1>6 DEF InterruptSignal, coreVars
<1>7. ASSUME NEW i \in Interrupts, InterruptClear(i) PROVE Goal
  BY <1>7, ClearStep, ConstantsAssumption DEF InterruptClear
<1>8. ASSUME UNCHANGED <<queueVars, pc, src, fate>>,
             NEW b \in Attempts, fate[b] = "owner",
             ctx' = [ctx EXCEPT ![b] = "ended"]
      PROVE  Goal
  <2>1. TaskInv' /\ WorkerInv'
    BY <1>8 DEF TaskInv, WorkerInv
  <2>2. AttemptInv'
    BY <1>8 DEF AttemptInv, Running
  <2> QED
    BY <2>1, <2>2
<1>9. ASSUME NEW r \in Messages \cup Interrupts, DeliverSignal(r) PROVE Goal
  <2>1. CASE UNCHANGED ctx
    BY <1>1, <1>9, <2>1 DEF DeliverSignal, coreVars
  <2>2. CASE ~UNCHANGED ctx
    <3> DEFINE b == worker[ChatOf[r]]
    <3>1. b \in Attempts /\ fate[b] = "owner"
      BY <1>9, <2>2, ConstantsAssumption DEF DeliverSignal, WorkerInv
    <3>2. ctx' = [ctx EXCEPT ![b] = "ended"] /\ UNCHANGED <<queueVars, pc, src, fate>>
      BY <1>9, <2>2 DEF DeliverSignal
    <3> HIDE DEF b
    <3> QED
      BY <1>8, <3>1, <3>2
  <2> QED
    BY <2>1, <2>2
<1>10. ASSUME NEW c \in Chats, Timeout(c) PROVE Goal
  BY <1>8, <1>10 DEF Timeout, WorkerInv
<1>11. ASSUME NEW c \in Chats, NEW a \in Attempts, Claim(c, a) PROVE Goal
  BY <1>11, ClaimStep
<1>12. ASSUME NEW c \in Chats, AbandonAttempt(c) PROVE Goal
  BY <1>12, AbandonStep
<1>13. ASSUME NEW c \in Chats, FinishTask(c) PROVE Goal
  BY <1>13, FinishStep
<1>14. ASSUME NEW c \in Chats, worker[c] = NoAttempt, NEW t,
              task' = [task EXCEPT ![c] = t], t.state # "none",
              task[c].state # "none", t.msg = task[c].msg,
              UNCHANGED <<worker, attemptVars>>
       PROVE  Goal
  <2>1. TaskInv'
    <3>1. t.msg # NoMessage /\ ChatOf[t.msg] = c
      BY <1>14 DEF TaskInv
    <3> QED
      BY <1>14, <3>1 DEF TaskInv
  <2>2. WorkerInv'
    BY <1>14 DEF WorkerInv
  <2>3. AttemptInv'
    BY <1>14 DEF AttemptInv, Running
  <2> QED
    BY <2>1, <2>2, <2>3
<1>15. ASSUME NEW c \in Chats, Forward(c) PROVE Goal
  <2>1. task[c] \in TaskRecord /\ worker[c] = NoAttempt
    BY <1>15, TaskFields DEF Forward, WorkerInv
  <2>2. /\ task' = [task EXCEPT ![c] = [task[c] EXCEPT !.state = "pending"]]
        /\ [task[c] EXCEPT !.state = "pending"].state = "pending"
        /\ [task[c] EXCEPT !.state = "pending"].msg = task[c].msg
    BY <1>15, <2>1, StateChange DEF Forward
  <2> QED
    BY <1>14, <1>15, <2>1, <2>2 DEF Forward
<1>16. ASSUME NEW c \in Chats, Recover(c) PROVE Goal
  <2>1. task[c] \in TaskRecord /\ worker[c] = NoAttempt
    BY <1>16, TaskFields DEF Recover
  <2>2. /\ task' = [task EXCEPT ![c] = Retried(task[c])]
        /\ Retried(task[c]).state \in {"retry", "archived"}
        /\ Retried(task[c]).msg = task[c].msg
    BY <1>16, <2>1, RetriedType DEF Recover
  <2> QED
    BY <1>14, <1>16, <2>1, <2>2 DEF Recover
<1>17. ASSUME NEW a \in Attempts, Handler(a) PROVE Goal
  <2>1. ASSUME LoadSource(a) PROVE Goal
    BY <1>17, <2>1, HandlerStep DEF LoadSource, Return, Running, Working
  <2>2. ASSUME Respond(a) PROVE Goal
    BY <1>17, <2>2, HandlerStep DEF Respond, Running, Working
  <2>3. ASSUME FailResponse(a) \/ PauseResponse(a) PROVE Goal
    BY <1>17, <2>3, HandlerStep DEF FailResponse, PauseResponse, Running, Working
  <2>4. ASSUME ReturnResult(a) PROVE Goal
    <3> DEFINE r == CASE pc[a] = "failing" -> "skipped"
                      [] ctx[a] = "live" -> "succeeded"
                      [] OTHER -> "errored"
    <3>1. r \in {"skipped", "succeeded", "errored"}
      OBVIOUS
    <3>2. /\ Running(a)
          /\ pc' = [pc EXCEPT ![a] = Return(a, r)]
          /\ UNCHANGED <<queueVars, src, ctx, fate>>
      BY <2>4 DEF ReturnResult, Running, Working
    <3> HIDE DEF r
    <3>3. /\ Return(a, r) \in Working \cup {"succeeded", "skipped", "errored", "over"}
          /\ Return(a, r) = "over" => fate[a] = "abandoned"
      BY <3>1 DEF Return
    <3> QED
      BY <1>17, <3>2, <3>3, HandlerStep
  <2> QED
    BY <1>17, <2>1, <2>2, <2>3, <2>4 DEF Handler
<1>18. ASSUME CloseHTTP \/ Restart PROVE Goal
  BY <1>1, <1>18 DEF CloseHTTP, Restart, coreVars
<1>19. ASSUME StopWorker PROVE Goal
  <2> DEFINE T == [c \in Chats |->
                     IF EmbeddedRedis THEN NoTask
                     ELSE IF worker[c] # NoAttempt
                     THEN [task[c] EXCEPT !.state = "pending"] ELSE task[c]]
  <2>1. task' = [c \in Chats |-> T[c]]
    BY <1>19 DEF StopWorker
  <2>2. \A c \in Chats : \/ T[c] = NoTask
                        \/ T[c] = task[c]
                        \/ /\ worker[c] # NoAttempt
                           /\ T[c] = [task[c] EXCEPT !.state = "pending"]
    OBVIOUS
  <2> HIDE DEF T
  <2> QED
    BY <1>19, <2>1, <2>2, GoneStep DEF StopWorker
<1>20. ASSUME Crash PROVE Goal
  <2> DEFINE T == [c \in Chats |-> IF EmbeddedRedis THEN NoTask ELSE task[c]]
  <2>1. task' = [c \in Chats |-> T[c]]
    BY <1>20 DEF Crash
  <2>2. \A c \in Chats : T[c] = NoTask \/ T[c] = task[c]
    OBVIOUS
  <2> HIDE DEF T
  <2> QED
    BY <1>20, <2>1, <2>2, GoneStep DEF Crash
<1>21. CASE UNCHANGED vars
  BY <1>1, <1>21 DEF vars, coreVars
<1> QED
  BY <1>2, <1>3, <1>4, <1>5, <1>6, <1>7, <1>9, <1>10, <1>11, <1>12, <1>13,
     <1>15, <1>16, <1>17, <1>18, <1>19, <1>20, <1>21
  DEF Next, Request, Worker, Operate

\* The strengthening holds in every reachable state: a task belongs to the chat
\* of its message, the worker's attempt is an attempt at the active task, and an
\* abandoned handler that still runs has a context that is over.
THEOREM Inductive == Spec => []IInv
<1>1. Init => IInv
  BY ConstantsAssumption
  DEF Init, IInv, TypeOK, TaskInv, WorkerInv, AttemptInv, NoTask, Running, Working
<1>2. IInv /\ [Next]_vars => IInv'
  BY TypeStep, CoreStep DEF IInv
<1> QED
  BY <1>1, <1>2, PTL DEF Spec

\* Every variable keeps its type: in particular asynq's retry count never passes
\* MaxRetry.
THEOREM TypeCorrect == Spec => []TypeOK
<1>1. IInv => TypeOK
  BY DEF IInv
<1> QED
  BY <1>1, Inductive, PTL

\* However many requests, cancels, timeouts, retries and crashes interleave, a
\* handler with a live context owns its chat's active task, and therefore no two
\* live handlers ever reply into one chat.
THEOREM LiveHandlerOwns == Spec => []LiveHandlerOwnsTask
<1>1. IInv => LiveHandlerOwnsTask
  BY ConstantsAssumption
  DEF IInv, TypeOK, WorkerInv, AttemptInv, LiveHandlerOwnsTask, Running, Working
<1> QED
  BY <1>1, Inductive, PTL

\* resolveInteractionStatus reads the queue only, and still never misses a
\* handler that is producing a reply with a live context.
THEOREM StatusCovers == Spec => []StatusCoversWork
<1>1. IInv => LiveHandlerOwnsTask
  BY ConstantsAssumption
  DEF IInv, TypeOK, WorkerInv, AttemptInv, LiveHandlerOwnsTask, Running, Working
<1>2. IInv /\ LiveHandlerOwnsTask => StatusCoversWork
  BY TaskFields
  DEF IInv, TypeOK, AttemptInv, LiveHandlerOwnsTask, StatusCoversWork, Live, LiveStates,
      Running, Working
<1> QED
  BY <1>1, <1>2, Inductive, PTL

(***************************************************************************)
(* What became of the scheduled replies.                                   *)
(***************************************************************************)

\* Only accepted messages get into the queue and into a handler's hands, and an
\* attempt posts nothing before it starts.
AcceptedInv ==
  /\ \A c \in Chats : task[c].state # "none" => req[task[c].msg] = "accepted"
  /\ \A a \in Attempts : pc[a] # "unused" => req[src[a]] = "accepted"
  /\ \A a \in Attempts : pc[a] = "unused" => post[a] = "none"

\* A message asynq has settled does not come back to life, and at most one of
\* the attempts at a message was not given up.
DoneInv ==
  \A a \in Attempts : fate[a] = "done" =>
    /\ task[ChatOf[src[a]]].msg = src[a] => task[ChatOf[src[a]]].state = "archived"
    /\ \A b \in Attempts \ {a} :
         src[b] = src[a] => fate[b] \notin {"owner", "done"}

\* A server that is stopping counts as stopped once.
StopInv == server = "draining" => stops > 0

\* The inductive invariant behind NoUnexplainedDuplicate, AcceptedNotLost and
\* the refinement of ReplySlot.
HInv == IInv /\ AcceptedInv /\ DoneInv /\ StopInv /\ AcceptedNotLost
History == AcceptedInv /\ DoneInv /\ StopInv /\ AcceptedNotLost

\* What the worker's attempt at a chat is, gathered for the steps below.
LEMMA WorkerFacts ==
  ASSUME IInv, NEW c \in Chats, worker[c] # NoAttempt
  PROVE  /\ worker[c] \in Attempts
         /\ task[c] \in TaskRecord
         /\ task[c].state = "active"
         /\ task[c].msg \in Messages
         /\ ChatOf[task[c].msg] = c
         /\ src[worker[c]] = task[c].msg
         /\ fate[worker[c]] = "owner"
         /\ pc[worker[c]] # "unused"
         /\ \A d \in Chats \ {c} : worker[d] # worker[c]
<1>1. /\ worker[c] \in Attempts /\ task[c] \in TaskRecord \cup {NoTask}
      /\ task[c].state = "active" /\ src[worker[c]] = task[c].msg
      /\ fate[worker[c]] = "owner" /\ pc[worker[c]] # "unused"
  BY DEF IInv, TypeOK, WorkerInv, Working
<1>2. task[c] \in TaskRecord /\ task[c].msg \in Messages
  BY <1>1, TaskFields
<1>3. ChatOf[task[c].msg] = c
  BY <1>1 DEF IInv, TaskInv
<1>4. \A d \in Chats \ {c} : worker[d] # worker[c]
  BY <1>1, <1>3 DEF IInv, TaskInv, WorkerInv
<1> QED
  BY <1>1, <1>2, <1>3, <1>4

\* A task that is there carries an accepted message.
LEMMA TaskFacts ==
  ASSUME IInv, NEW c \in Chats, task[c].state # "none"
  PROVE  /\ task[c] \in TaskRecord
         /\ task[c].msg \in Messages
         /\ ChatOf[task[c].msg] = c
  BY TaskFields DEF IInv, TypeOK, TaskInv

\* What the history proofs know of types.
LEMMA Basics ==
  ASSUME IInv
  PROVE  /\ task \in [Chats -> TaskRecord \cup {NoTask}]
         /\ \A m \in Messages : ChatOf[m] \in Chats /\ m # NoMessage
         /\ \A a \in Attempts : pc[a] # "unused" => src[a] \in Messages
         /\ \A a \in Attempts : fate[a] # "none" => pc[a] # "unused"
<1>1. task \in [Chats -> TaskRecord \cup {NoTask}]
  BY DEF IInv, TypeOK
<1>2. \A m \in Messages : ChatOf[m] \in Chats /\ m # NoMessage
  BY ConstantsAssumption
<1>3. \A a \in Attempts : /\ pc[a] # "unused" => src[a] \in Messages
                          /\ fate[a] # "none" => pc[a] # "unused"
  BY DEF IInv, AttemptInv
<1> QED
  BY <1>1, <1>2, <1>3

\* Nothing that happens to other variables touches the history.
LEMMA HistoryFrame ==
  ASSUME IInv, History,
         UNCHANGED <<task, src, fate, post, withdrawn>>,
         \A a \in Attempts : (pc'[a] = "unused") <=> (pc[a] = "unused"),
         \A m \in Messages : (req'[m] = "accepted") <=> (req[m] = "accepted"),
         server' = "draining" => stops' > 0,
         stops > 0 => stops' > 0
  PROVE  History'
<1> USE DEF IInv, TypeOK, History
<1>1. AcceptedInv'
  BY TaskFacts DEF AcceptedInv, AttemptInv
<1>2. DoneInv'
  BY DEF DoneInv
<1>3. StopInv'
  BY DEF StopInv
<1>4. AcceptedNotLost'
  BY DEF AcceptedNotLost
<1> QED
  BY <1>1, <1>2, <1>3, <1>4

\* A task is deleted by a request, which thereby owns up to it.
LEMMA HistoryClear ==
  ASSUME IInv, History, NEW c \in Chats, DeleteTask(c),
         UNCHANGED <<server, stops, attemptVars>>,
         \A m \in Messages : (req'[m] = "accepted") <=> (req[m] = "accepted")
  PROVE  History'
<1>1. CASE UNCHANGED <<task, withdrawn>>
  BY <1>1, HistoryFrame DEF attemptVars, History, StopInv
<1>2. CASE /\ task[c].state \in {"pending", "retry", "archived"}
           /\ task' = [task EXCEPT ![c] = NoTask]
           /\ withdrawn' = withdrawn \cup {task[c].msg}
  <2> USE <1>2 DEF attemptVars, History
  <2>0. /\ task \in [Chats -> TaskRecord \cup {NoTask}]
        /\ NoTask.state = "none" /\ NoTask.msg = NoMessage
        /\ \A m \in Messages : ChatOf[m] \in Chats /\ m # NoMessage
        /\ \A a \in Attempts : pc[a] # "unused" => src[a] \in Messages
        /\ \A a \in Attempts : fate[a] = "done" => src[a] \in Messages
    BY Basics DEF NoTask
  <2>1. AcceptedInv'
    BY <2>0, TaskFacts DEF AcceptedInv
  <2>2. DoneInv'
    BY <2>0 DEF DoneInv
  <2>3. StopInv'
    BY DEF StopInv
  <2>4. AcceptedNotLost'
    BY <2>0 DEF AcceptedNotLost
  <2> QED
    BY <2>1, <2>2, <2>3, <2>4
<1> QED
  BY <1>1, <1>2 DEF DeleteTask

\* A request that was told "scheduled" has its message in the task.
LEMMA HistoryEnqueue ==
  ASSUME IInv, History, NEW m \in Messages, EnqueueTask(m)
  PROVE  History'
<1> DEFINE c == ChatOf[m]
<1>1. /\ UNCHANGED <<server, stops, worker, attemptVars, withdrawn>>
      /\ req \in [Messages -> {"new", "stored", "signalled", "cleared", "accepted",
                               "refused", "lost"}]
      /\ req[m] = "cleared" /\ c \in Chats
  BY ConstantsAssumption DEF EnqueueTask, IInv, TypeOK
<1>2. CASE UNCHANGED task /\ req' = [req EXCEPT ![m] = "refused"]
  BY <1>1, <1>2, HistoryFrame DEF attemptVars, History, StopInv
<1>3. CASE /\ task[c].state = "none"
           /\ task' = [task EXCEPT ![c] =
                         [state |-> "pending", msg |-> m, retried |-> 0]]
           /\ req' = [req EXCEPT ![m] = "accepted"]
  <2> USE <1>1, <1>3 DEF attemptVars, History
  <2>0. /\ task \in [Chats -> TaskRecord \cup {NoTask}]
        /\ task[c].msg = NoMessage
        /\ \A n \in Messages : ChatOf[n] \in Chats /\ n # NoMessage
        /\ \A a \in Attempts : pc[a] # "unused" => src[a] \in Messages
        /\ \A a \in Attempts : fate[a] # "none" => pc[a] # "unused"
    BY Basics DEF IInv, TaskInv
  <2>1. AcceptedInv'
    BY <2>0, TaskFacts DEF AcceptedInv
  <2>2. DoneInv'
    <3>1. \A a \in Attempts : fate[a] = "done" => src[a] \in Messages \ {m}
      BY <2>0 DEF AcceptedInv
    <3>2. \A a \in Attempts : fate[a] = "done" /\ task'[ChatOf[src[a]]].msg = src[a]
                               => task'[ChatOf[src[a]]] = task[ChatOf[src[a]]]
      BY <2>0, <3>1
    <3> QED
      BY <3>2 DEF DoneInv
  <2>3. StopInv'
    BY DEF StopInv
  <2>4. AcceptedNotLost'
    <3> SUFFICES ASSUME NEW n \in Messages, req'[n] = "accepted"
                 PROVE  \/ task'[ChatOf[n]].msg = n
                        \/ n \in withdrawn'
                        \/ \E a \in Attempts : src'[a] = n /\ fate'[a] = "done"
                        \/ EmbeddedRedis /\ stops' > 0
      BY DEF AcceptedNotLost
    <3>1. CASE n = m
      BY <2>0, <3>1
    <3>2. CASE n # m
      BY <2>0, <3>2 DEF AcceptedNotLost
    <3> QED
      BY <3>1, <3>2
  <2> QED
    BY <2>1, <2>2, <2>3, <2>4
<1> QED
  BY <1>2, <1>3 DEF EnqueueTask

\* A task changes its state and keeps its message.
LEMMA HistoryTask ==
  ASSUME IInv, History, NEW c \in Chats,
         task[c].state \in {"pending", "active", "retry"},
         \A d \in Chats \ {c} : task'[d] = task[d],
         task'[c].state # "none", task'[c].msg = task[c].msg,
         UNCHANGED <<server, stops, req, src, post, withdrawn>>,
         \A a \in Attempts : (pc'[a] = "unused") <=> (pc[a] = "unused"),
         \A a \in Attempts : \/ fate'[a] = fate[a]
                             \/ fate[a] = "owner" /\ fate'[a] = "abandoned"
  PROVE  History'
<1> USE DEF History
<1>0. /\ task \in [Chats -> TaskRecord \cup {NoTask}]
      /\ task[c].msg \in Messages /\ ChatOf[task[c].msg] = c
      /\ \A n \in Messages : ChatOf[n] \in Chats
      /\ \A a \in Attempts : pc[a] # "unused" => src[a] \in Messages
      /\ \A a \in Attempts : fate[a] # "none" => pc[a] # "unused"
  BY TaskFacts, Basics
<1>1. AcceptedInv'
  BY <1>0, TaskFacts DEF AcceptedInv
<1>2. DoneInv'
  <2> SUFFICES ASSUME NEW a \in Attempts, fate'[a] = "done"
               PROVE  /\ task'[ChatOf[src[a]]].msg = src[a] =>
                           task'[ChatOf[src[a]]].state = "archived"
                      /\ \A b \in Attempts \ {a} :
                           src[b] = src[a] => fate'[b] \notin {"owner", "done"}
    BY DEF DoneInv
  <2>1. fate[a] = "done" /\ src[a] \in Messages
    BY <1>0
  <2>2. src[a] # task[c].msg
    BY <1>0, <2>1 DEF DoneInv
  <2>3. task'[ChatOf[src[a]]].msg = src[a] => task'[ChatOf[src[a]]] = task[ChatOf[src[a]]]
    BY <1>0, <2>1, <2>2
  <2> QED
    BY <2>1, <2>3 DEF DoneInv
<1>3. StopInv'
  BY DEF StopInv
<1>4. AcceptedNotLost'
  BY <1>0 DEF AcceptedNotLost
<1> QED
  BY <1>1, <1>2, <1>3, <1>4

\* The worker starts an attempt at a message that nobody has settled.
LEMMA HistoryClaim ==
  ASSUME IInv, History, NEW c \in Chats, NEW a \in Attempts, Claim(c, a)
  PROVE  History'
<1> DEFINE t == [task[c] EXCEPT !.state = "active"]
<1>1. /\ task[c].state = "pending" /\ task[c] \in TaskRecord
      /\ task[c].msg \in Messages /\ ChatOf[task[c].msg] = c
      /\ pc[a] = "unused" /\ fate[a] = "none"
  BY TaskFacts DEF Claim, IInv, AttemptInv
<1>2. t.state = "active" /\ t.msg = task[c].msg
  BY <1>1, StateChange
<1>3. /\ task' = [task EXCEPT ![c] = t]
      /\ pc' = [pc EXCEPT ![a] = "start"]
      /\ src' = [src EXCEPT ![a] = task[c].msg]
      /\ fate' = [fate EXCEPT ![a] = "owner"]
      /\ UNCHANGED <<server, stops, req, post, withdrawn>>
  BY DEF Claim, requestVars
<1>4. /\ task \in [Chats -> TaskRecord \cup {NoTask}]
      /\ pc \in [Attempts -> Working \cup {"unused", "succeeded", "skipped",
                                           "errored", "over"}]
      /\ src \in [Attempts -> Messages \cup {NoMessage}]
      /\ fate \in [Attempts -> {"none", "owner", "done", "abandoned"}]
      /\ \A n \in Messages : ChatOf[n] \in Chats
      /\ \A b \in Attempts : pc[b] # "unused" => src[b] \in Messages
      /\ \A b \in Attempts : fate[b] # "none" => pc[b] # "unused"
  BY Basics DEF IInv, TypeOK
<1> HIDE DEF t
<1> USE DEF History
<1>5. AcceptedInv'
  BY <1>1, <1>2, <1>3, <1>4, TaskFacts DEF AcceptedInv
<1>6. DoneInv'
  <2> SUFFICES ASSUME NEW b \in Attempts, fate'[b] = "done"
               PROVE  /\ task'[ChatOf[src'[b]]].msg = src'[b] =>
                           task'[ChatOf[src'[b]]].state = "archived"
                      /\ \A d \in Attempts \ {b} :
                           src'[d] = src'[b] => fate'[d] \notin {"owner", "done"}
    BY DEF DoneInv
  <2>1. b # a /\ fate[b] = "done" /\ src'[b] = src[b] /\ src[b] \in Messages
    BY <1>3, <1>4
  <2>2. src[b] # task[c].msg
    BY <1>1, <2>1 DEF DoneInv
  <2>3. task'[ChatOf[src[b]]].msg = src[b] => task'[ChatOf[src[b]]] = task[ChatOf[src[b]]]
    BY <1>2, <1>3, <1>4, <2>1, <2>2
  <2>4. ASSUME NEW d \in Attempts \ {b}, src'[d] = src[b]
        PROVE  fate'[d] \notin {"owner", "done"}
    BY <1>3, <1>4, <2>1, <2>2, <2>4 DEF DoneInv
  <2> QED
    BY <2>1, <2>3, <2>4 DEF DoneInv
<1>7. StopInv'
  BY <1>3 DEF StopInv
<1>8. AcceptedNotLost'
  <2> SUFFICES ASSUME NEW n \in Messages, req[n] = "accepted"
               PROVE  \/ task'[ChatOf[n]].msg = n
                      \/ n \in withdrawn
                      \/ \E b \in Attempts : src'[b] = n /\ fate'[b] = "done"
                      \/ EmbeddedRedis /\ stops > 0
    BY <1>3 DEF AcceptedNotLost
  <2>1. task'[ChatOf[n]].msg = task[ChatOf[n]].msg
    BY <1>2, <1>3, <1>4
  <2>2. \A b \in Attempts : fate[b] = "done" => src'[b] = src[b] /\ fate'[b] = "done"
    BY <1>1, <1>3, <1>4
  <2> QED
    BY <2>1, <2>2 DEF AcceptedNotLost
<1> QED
  BY <1>5, <1>6, <1>7, <1>8

\* The worker settles a message: nobody else is at it and nobody was before,
\* except for attempts that were given up.
LEMMA HistoryFinish ==
  ASSUME IInv, History, NEW c \in Chats, FinishTask(c)
  PROVE  History'
<1> DEFINE a == worker[c]
<1> DEFINE t == IF pc[a] = "succeeded" THEN NoTask
                ELSE [task[c] EXCEPT !.state = "archived"]
<1>1. /\ a \in Attempts /\ task[c] \in TaskRecord /\ task[c].state = "active"
      /\ task[c].msg \in Messages /\ ChatOf[task[c].msg] = c
      /\ src[a] = task[c].msg /\ fate[a] = "owner" /\ pc[a] # "unused"
  BY WorkerFacts DEF FinishTask
<1>2. \/ t.state = "none" /\ t.msg = NoMessage
      \/ t.state = "archived" /\ t.msg = task[c].msg
  BY <1>1, StateChange DEF NoTask
<1>3. /\ task' = [task EXCEPT ![c] = t]
      /\ fate' = [fate EXCEPT ![a] = "done"]
      /\ pc' = [pc EXCEPT ![a] = "over"]
      /\ UNCHANGED <<server, stops, req, src, post, withdrawn>>
  BY DEF FinishTask, requestVars
<1>4. /\ task \in [Chats -> TaskRecord \cup {NoTask}]
      /\ pc \in [Attempts -> Working \cup {"unused", "succeeded", "skipped",
                                           "errored", "over"}]
      /\ fate \in [Attempts -> {"none", "owner", "done", "abandoned"}]
      /\ \A n \in Messages : ChatOf[n] \in Chats /\ n # NoMessage
      /\ \A b \in Attempts : pc[b] # "unused" => src[b] \in Messages
      /\ \A b \in Attempts : fate[b] # "none" => pc[b] # "unused"
      /\ \A b \in Attempts : fate[b] = "owner" => worker[ChatOf[src[b]]] = b
  BY Basics DEF IInv, TypeOK, AttemptInv
<1>5. \A b \in Attempts \ {a} : src[b] = src[a] => fate[b] \notin {"owner", "done"}
  BY <1>1, <1>4 DEF History, DoneInv
<1> HIDE DEF t, a
<1> USE DEF History
<1>6. AcceptedInv'
  BY <1>1, <1>2, <1>3, <1>4, TaskFacts DEF AcceptedInv
<1>7. DoneInv'
  <2> SUFFICES ASSUME NEW b \in Attempts, fate'[b] = "done"
               PROVE  /\ task'[ChatOf[src[b]]].msg = src[b] =>
                           task'[ChatOf[src[b]]].state = "archived"
                      /\ \A d \in Attempts \ {b} :
                           src[d] = src[b] => fate'[d] \notin {"owner", "done"}
    BY <1>3 DEF DoneInv
  <2>1. CASE b = a
    BY <1>1, <1>2, <1>3, <1>4, <1>5, <2>1
  <2>2. CASE b # a
    <3>1. fate[b] = "done" /\ src[b] \in Messages /\ src[b] # task[c].msg
      BY <1>1, <1>3, <1>4, <1>5, <2>2
    <3>2. task'[ChatOf[src[b]]].msg = src[b] => task'[ChatOf[src[b]]] = task[ChatOf[src[b]]]
      BY <1>2, <1>3, <1>4, <3>1
    <3> QED
      BY <1>1, <1>3, <1>4, <3>1, <3>2 DEF DoneInv
  <2> QED
    BY <2>1, <2>2
<1>8. StopInv'
  BY <1>3 DEF StopInv
<1>9. AcceptedNotLost'
  <2> SUFFICES ASSUME NEW n \in Messages, req[n] = "accepted"
               PROVE  \/ task'[ChatOf[n]].msg = n
                      \/ n \in withdrawn
                      \/ \E b \in Attempts : src[b] = n /\ fate'[b] = "done"
                      \/ EmbeddedRedis /\ stops > 0
    BY <1>3 DEF AcceptedNotLost
  <2>1. CASE n = task[c].msg
    BY <1>1, <1>3, <1>4, <2>1
  <2>2. CASE n # task[c].msg
    BY <1>1, <1>2, <1>3, <1>4, <2>2 DEF AcceptedNotLost
  <2> QED
    BY <2>1, <2>2
<1> QED
  BY <1>6, <1>7, <1>8, <1>9

\* The process goes: what was running is given up, and with an embedded queue
\* every task is gone, which AcceptedNotLost lets it be from then on.
LEMMA HistoryGone ==
  ASSUME IInv, History, ProcessGone, UNCHANGED <<src, post, withdrawn>>,
         stops' > 0, stops > 0 => stops' > 0,
         NEW T, task' = [c \in Chats |-> T[c]],
         \A c \in Chats : IF EmbeddedRedis THEN T[c] = NoTask
                          ELSE \/ T[c] = task[c]
                               \/ /\ worker[c] # NoAttempt
                                  /\ T[c] = [task[c] EXCEPT !.state = "pending"]
  PROVE  History'
<1> USE DEF History
<1>1. /\ \A m \in Messages : (req'[m] = "accepted") <=> (req[m] = "accepted")
      /\ \A a \in Attempts : (pc'[a] = "unused") <=> (pc[a] = "unused")
      /\ \A a \in Attempts : fate'[a] # "owner" /\ ((fate'[a] = "done") <=> (fate[a] = "done"))
      /\ server' = "down"
  BY DEF ProcessGone, InFlight
<1>2. /\ \A n \in Messages : ChatOf[n] \in Chats /\ n # NoMessage
      /\ \A b \in Attempts : pc[b] # "unused" => src[b] \in Messages
      /\ \A b \in Attempts : fate[b] # "none" => pc[b] # "unused"
      /\ NoTask.state = "none" /\ NoTask.msg = NoMessage
  BY Basics DEF NoTask
<1>3. ASSUME NEW c \in Chats
      PROVE  \/ EmbeddedRedis /\ T[c].state = "none" /\ T[c].msg = NoMessage
             \/ ~EmbeddedRedis /\ T[c].msg = task[c].msg /\ T[c].state = task[c].state
             \/ /\ ~EmbeddedRedis /\ T[c].msg = task[c].msg /\ T[c].state = "pending"
                /\ task[c].state = "active"
  <2>1. CASE worker[c] # NoAttempt /\ T[c] = [task[c] EXCEPT !.state = "pending"]
    <3>1. task[c].state = "active" /\ task[c] \in TaskRecord
      BY <2>1, WorkerFacts
    <3>2. T[c].state = "pending" /\ T[c].msg = task[c].msg
      BY <2>1, <3>1, StateChange
    <3>3. EmbeddedRedis => T[c] = NoTask
      OBVIOUS
    <3> QED
      BY <1>2, <3>1, <3>2, <3>3
  <2>2. CASE ~EmbeddedRedis /\ T[c] = task[c]
    BY <2>2
  <2>3. CASE EmbeddedRedis
    <3>1. T[c] = NoTask
      BY <2>3
    <3> QED
      BY <1>2, <2>3, <3>1
  <2>4. \/ ~EmbeddedRedis /\ T[c] = task[c]
        \/ EmbeddedRedis
        \/ worker[c] # NoAttempt /\ T[c] = [task[c] EXCEPT !.state = "pending"]
    OBVIOUS
  <2> QED
    BY <2>1, <2>2, <2>3, <2>4
<1>4. AcceptedInv'
  <2>1. \A c \in Chats : T[c].state # "none" =>
                           T[c].msg = task[c].msg /\ task[c].state # "none"
    BY <1>3
  <2>2. \A c \in Chats : T[c].state # "none" =>
                           T[c].msg \in Messages /\ req[T[c].msg] = "accepted"
    BY <2>1, TaskFacts DEF AcceptedInv
  <2> QED
    BY <1>1, <1>2, <2>2 DEF AcceptedInv
<1>5. DoneInv'
  <2> SUFFICES ASSUME NEW a \in Attempts, fate'[a] = "done"
               PROVE  /\ T[ChatOf[src[a]]].msg = src[a] =>
                           T[ChatOf[src[a]]].state = "archived"
                      /\ \A b \in Attempts \ {a} :
                           src[b] = src[a] => fate'[b] \notin {"owner", "done"}
    BY <1>1, <1>2 DEF DoneInv
  <2>1. fate[a] = "done" /\ src[a] \in Messages /\ ChatOf[src[a]] \in Chats
        /\ src[a] # NoMessage
    BY <1>1, <1>2
  <2>2. T[ChatOf[src[a]]].msg = src[a] => T[ChatOf[src[a]]].state = "archived"
    BY <1>3, <2>1 DEF DoneInv
  <2>3. \A b \in Attempts \ {a} : src[b] = src[a] => fate[b] # "done"
    BY <2>1 DEF DoneInv
  <2> QED
    BY <1>1, <2>2, <2>3
<1>6. StopInv'
  BY <1>1 DEF StopInv
<1>7. AcceptedNotLost'
  BY <1>1, <1>2, <1>3 DEF AcceptedNotLost
<1> QED
  BY <1>4, <1>5, <1>6, <1>7
\* The inductive step of the history.
LEMMA HistoryStep ==
  ASSUME IInv, History, [Next]_vars
  PROVE  History'
<1> USE DEF queueVars, attemptVars, requestVars
<1>0. /\ req \in [Messages -> {"new", "stored", "signalled", "cleared", "accepted",
                               "refused", "lost"}]
      /\ task \in [Chats -> TaskRecord \cup {NoTask}]
      /\ pc \in [Attempts -> Working \cup {"unused", "succeeded", "skipped",
                                           "errored", "over"}]
      /\ fate \in [Attempts -> {"none", "owner", "done", "abandoned"}]
      /\ post \in [Attempts -> {"none", "reply", "notice", "barred"}]
      /\ stops \in Nat
      /\ \A x \in Messages \cup Interrupts : ChatOf[x] \in Chats
      /\ server = "draining" => stops > 0
  BY ConstantsAssumption DEF IInv, TypeOK, History, StopInv
<1>1. ASSUME NEW m \in Messages, Insert(m), UNCHANGED <<server, stops, task, attemptVars, withdrawn>>
      PROVE  History'
  BY <1>0, <1>1, HistoryFrame DEF Insert
<1>2. ASSUME NEW m \in Messages, MessageSend(m) PROVE History'
  BY <1>1, <1>2 DEF MessageSend
<1>3. ASSUME NEW m \in Messages, NEW s \in Messages, RerunMessage(m, s) PROVE History'
  BY <1>1, <1>3 DEF RerunMessage
<1>4. ASSUME NEW m \in Messages, EnqueueSignal(m) PROVE History'
  BY <1>0, <1>4, HistoryFrame DEF EnqueueSignal
<1>5. ASSUME NEW m \in Messages, EnqueueClear(m) PROVE History'
  BY <1>0, <1>5, HistoryClear DEF EnqueueClear
<1>6. ASSUME NEW m \in Messages, EnqueueTask(m) PROVE History'
  BY <1>6, HistoryEnqueue
<1>7. ASSUME NEW i \in Interrupts, InterruptSignal(i) PROVE History'
  BY <1>0, <1>7, HistoryFrame DEF InterruptSignal
<1>8. ASSUME NEW i \in Interrupts, InterruptClear(i) PROVE History'
  BY <1>0, <1>8, HistoryClear DEF InterruptClear
<1>9. ASSUME NEW r \in Messages \cup Interrupts, DeliverSignal(r) PROVE History'
  BY <1>0, <1>9, HistoryFrame DEF DeliverSignal
<1>10. ASSUME NEW c \in Chats, Timeout(c) PROVE History'
  BY <1>0, <1>10, HistoryFrame DEF Timeout
<1>11. ASSUME NEW c \in Chats, NEW a \in Attempts, Claim(c, a) PROVE History'
  BY <1>11, HistoryClaim
<1>12. ASSUME NEW c \in Chats, AbandonAttempt(c) PROVE History'
  <2> DEFINE a == worker[c]
  <2>1. /\ a \in Attempts /\ fate[a] = "owner" /\ pc[a] # "unused"
        /\ task[c] \in TaskRecord /\ task[c].state = "active"
    BY <1>12, WorkerFacts DEF AbandonAttempt
  <2>2. /\ task' = [task EXCEPT ![c] = Retried(task[c])]
        /\ Retried(task[c]).state # "none"
        /\ Retried(task[c]).msg = task[c].msg
    BY <1>12, <2>1, RetriedType DEF AbandonAttempt
  <2>3. /\ \A d \in Chats \ {c} : task'[d] = task[d]
        /\ task'[c] = Retried(task[c])
    BY <1>0, <1>12, <2>2
  <2>4. /\ UNCHANGED <<server, stops, req, src, post, withdrawn>>
        /\ \A b \in Attempts : \/ fate'[b] = fate[b]
                               \/ fate[b] = "owner" /\ fate'[b] = "abandoned"
        /\ \A b \in Attempts : (pc'[b] = "unused") <=> (pc[b] = "unused")
    BY <1>0, <1>12, <2>1 DEF AbandonAttempt
  <2> QED
    BY <1>12, <2>1, <2>2, <2>3, <2>4, HistoryTask
<1>13. ASSUME NEW c \in Chats, FinishTask(c) PROVE History'
  BY <1>13, HistoryFinish
<1>14. ASSUME NEW c \in Chats, Forward(c) PROVE History'
  <2>1. /\ task' = [task EXCEPT ![c] = [task[c] EXCEPT !.state = "pending"]]
        /\ [task[c] EXCEPT !.state = "pending"].state = "pending"
        /\ [task[c] EXCEPT !.state = "pending"].msg = task[c].msg
    BY <1>14, TaskFacts, StateChange DEF Forward
  <2>2. /\ \A d \in Chats \ {c} : task'[d] = task[d]
        /\ task'[c] = [task[c] EXCEPT !.state = "pending"]
    BY <1>0, <1>14, <2>1
  <2>3. task'[c].state = "pending" /\ task'[c].msg = task[c].msg
    BY <2>1, <2>2
  <2> QED
    BY <1>14, <2>2, <2>3, HistoryTask DEF Forward
<1>15. ASSUME NEW c \in Chats, Recover(c) PROVE History'
  <2>1. /\ task' = [task EXCEPT ![c] = Retried(task[c])]
        /\ Retried(task[c]).state # "none"
        /\ Retried(task[c]).msg = task[c].msg
    BY <1>15, TaskFacts, RetriedType DEF Recover
  <2>2. /\ \A d \in Chats \ {c} : task'[d] = task[d]
        /\ task'[c] = Retried(task[c])
    BY <1>0, <1>15, <2>1
  <2>3. task'[c].state # "none" /\ task'[c].msg = task[c].msg
    BY <2>1, <2>2
  <2> QED
    BY <1>15, <2>2, <2>3, HistoryTask DEF Recover
<1>16. ASSUME NEW a \in Attempts, pc[a] # "unused", NEW p, p # "unused",
              pc' = [pc EXCEPT ![a] = p],
              NEW k, post' = post \/ post' = [post EXCEPT ![a] = k],
              UNCHANGED <<server, stops, req, task, src, fate, withdrawn>>
       PROVE  History'
  <2>1. /\ \A b \in Attempts : (pc'[b] = "unused") <=> (pc[b] = "unused")
        /\ \A b \in Attempts : pc'[b] = "unused" => post'[b] = post[b]
    BY <1>0, <1>16
  <2>2. AcceptedInv'
    BY <1>16, <2>1 DEF History, AcceptedInv
  <2>3. DoneInv' /\ StopInv' /\ AcceptedNotLost'
    BY <1>16 DEF History, DoneInv, StopInv, AcceptedNotLost
  <2> QED
    BY <2>2, <2>3 DEF History
<1>17. ASSUME NEW a \in Attempts, Handler(a) PROVE History'
  <2>1. ASSUME LoadSource(a) PROVE History'
    BY <1>16, <1>17, <2>1 DEF LoadSource, Return
  <2>2. ASSUME Respond(a) PROVE History'
    BY <1>16, <1>17, <2>2 DEF Respond, Post
  <2>3. ASSUME FailResponse(a) \/ PauseResponse(a) PROVE History'
    BY <1>16, <1>17, <2>3 DEF FailResponse, PauseResponse, Post
  <2>4. ASSUME ReturnResult(a) PROVE History'
    BY <1>16, <1>17, <2>4 DEF ReturnResult, Return
  <2> QED
    BY <1>17, <2>1, <2>2, <2>3, <2>4 DEF Handler
<1>18. ASSUME CloseHTTP \/ Restart PROVE History'
  BY <1>0, <1>18, HistoryFrame DEF CloseHTTP, Restart
<1>19. ASSUME StopWorker PROVE History'
  <2> DEFINE T == [c \in Chats |->
                     IF EmbeddedRedis THEN NoTask
                     ELSE IF worker[c] # NoAttempt
                     THEN [task[c] EXCEPT !.state = "pending"] ELSE task[c]]
  <2>1. task' = [c \in Chats |-> T[c]]
    BY <1>19 DEF StopWorker
  <2>2. \A c \in Chats : IF EmbeddedRedis THEN T[c] = NoTask
                         ELSE \/ T[c] = task[c]
                              \/ /\ worker[c] # NoAttempt
                                 /\ T[c] = [task[c] EXCEPT !.state = "pending"]
    OBVIOUS
  <2>3. ProcessGone /\ UNCHANGED <<src, post, withdrawn, stops>> /\ stops > 0
    BY <1>0, <1>19 DEF StopWorker
  <2> HIDE DEF T
  <2> QED
    BY <2>1, <2>2, <2>3, HistoryGone
<1>20. ASSUME Crash PROVE History'
  <2> DEFINE T == [c \in Chats |-> IF EmbeddedRedis THEN NoTask ELSE task[c]]
  <2>1. task' = [c \in Chats |-> T[c]]
    BY <1>20 DEF Crash
  <2>2. \A c \in Chats : IF EmbeddedRedis THEN T[c] = NoTask
                         ELSE \/ T[c] = task[c]
                              \/ /\ worker[c] # NoAttempt
                                 /\ T[c] = [task[c] EXCEPT !.state = "pending"]
    OBVIOUS
  <2>3. ProcessGone /\ UNCHANGED <<src, post, withdrawn>> /\ stops' > 0
    BY <1>0, <1>20 DEF Crash
  <2> HIDE DEF T
  <2> QED
    BY <2>1, <2>2, <2>3, HistoryGone
<1>21. CASE UNCHANGED vars
  BY <1>0, <1>21, HistoryFrame DEF vars
<1> QED
  BY <1>2, <1>3, <1>4, <1>5, <1>6, <1>7, <1>8, <1>9, <1>10, <1>11, <1>12, <1>13,
     <1>14, <1>15, <1>17, <1>18, <1>19, <1>20, <1>21
  DEF Next, Request, Worker, Operate

\* The history is an invariant together with IInv.
THEOREM HistoryKept == Spec => []HInv
<1>1. Init => HInv
  BY ConstantsAssumption
  DEF Init, HInv, IInv, TypeOK, TaskInv, WorkerInv, AttemptInv, NoTask, Running, Working,
      AcceptedInv, DoneInv, StopInv, AcceptedNotLost
<1>2. HInv /\ [Next]_vars => HInv'
  BY TypeStep, CoreStep, HistoryStep DEF HInv, IInv, History
<1> QED
  BY <1>1, <1>2, PTL DEF Spec

\* A reply that a request was told is scheduled is in the queue until the worker
\* settles it or a later request withdraws it, through any number of retries,
\* recoveries and restarts; only an embedded queue loses it, with its process.
THEOREM NothingLost == Spec => []AcceptedNotLost
<1>1. HInv => AcceptedNotLost
  BY DEF HInv
<1> QED
  BY <1>1, HistoryKept, PTL

\* Two replies to one message mean that asynq gave one of the attempts up.
THEOREM NoDuplicate == Spec => []NoUnexplainedDuplicate
<1>1. HInv => NoUnexplainedDuplicate
  <2> SUFFICES ASSUME HInv, NEW a \in Attempts, NEW b \in Attempts, a # b,
                      src[a] = src[b], post[a] = "reply", post[b] = "reply",
                      fate[a] # "abandoned", fate[b] # "abandoned"
               PROVE  FALSE
    BY DEF NoUnexplainedDuplicate
  <2>1. pc[a] # "unused" /\ pc[b] # "unused"
    BY DEF HInv, AcceptedInv
  <2>2. fate[a] \in {"owner", "done"} /\ fate[b] \in {"owner", "done"}
    BY <2>1 DEF HInv, IInv, TypeOK, AttemptInv
  <2>3. fate[a] = "owner" /\ fate[b] = "owner"
    BY <2>2 DEF HInv, DoneInv
  <2> QED
    BY <2>3 DEF HInv, IInv, AttemptInv
<1> QED
  BY <1>1, HistoryKept, PTL
(***************************************************************************)
(* The pipeline implements the reply slot.                                 *)
(***************************************************************************)

\* The reply slot as the pipeline shows it.
Owed      == [c \in Chats |-> OwedBy(c)]
InCharge  == [c \in Chats |-> Mandated(c)]
Scheduled == {m \in Messages : req[m] = "accepted"}

\* Steps that leave the three of them alone are invisible.
LEMMA Invisible ==
  ASSUME Owed' = Owed, InCharge' = InCharge, Scheduled' = Scheduled
  PROVE  [Slot!Next]_Slot!vars
  BY DEF Slot!vars, Owed, InCharge, Scheduled

\* The accepted messages are those of req, which most steps do not touch.
LEMMA SameScheduled ==
  ASSUME \A m \in Messages : (req'[m] = "accepted") <=> (req[m] = "accepted")
  PROVE  Scheduled' = Scheduled
  BY DEF Scheduled

LEMMA SameOwed ==
  ASSUME UNCHANGED task
  PROVE  Owed' = Owed
  BY DEF Owed, OwedBy, Live

LEMMA SameInCharge ==
  ASSUME UNCHANGED <<worker, ctx>>
  PROVE  InCharge' = InCharge
  BY DEF InCharge, Mandated

\* The settled, withdrawn or given up reply of a chat without a handler in charge.
LEMMA GivenUp ==
  ASSUME NEW c \in Chats, ~Mandated(c),
         Owed' = [Owed EXCEPT ![c] = NoMessage],
         InCharge' = InCharge, Scheduled' = Scheduled
  PROVE  Slot!Next
<1>1. Slot!GiveUp(c)
  BY DEF Slot!GiveUp, Owed, InCharge, Scheduled
<1> QED
  BY <1>1 DEF Slot!Next

\* What a chat owes follows its task: here the task of one chat changes.
LEMMA OwedStep ==
  ASSUME TypeOK, NEW c \in Chats,
         \A d \in Chats \ {c} : task'[d] = task[d]
  PROVE  Owed' = [Owed EXCEPT ![c] = OwedBy(c)']
<1>1. \A d \in Chats \ {c} : OwedBy(d)' = OwedBy(d)
  BY DEF OwedBy, Live
<1>2. Owed' = [d \in Chats |-> OwedBy(d)']
  BY DEF Owed
<1>3. [Owed EXCEPT ![c] = OwedBy(c)'] =
        [d \in Chats |-> IF d = c THEN OwedBy(d)' ELSE OwedBy(d)]
  BY DEF Owed
<1> QED
  BY <1>1, <1>2, <1>3

\* Who is in charge follows the worker: here an attempt of one chat changes.
LEMMA InChargeStep ==
  ASSUME NEW c \in Chats,
         \A d \in Chats \ {c} : worker'[d] = worker[d],
         \A d \in Chats \ {c} : worker[d] # NoAttempt => ctx'[worker[d]] = ctx[worker[d]]
  PROVE  InCharge' = [InCharge EXCEPT ![c] = Mandated(c)']
<1>1. \A d \in Chats \ {c} : Mandated(d)' = Mandated(d)
  BY DEF Mandated
<1>2. InCharge' = [d \in Chats |-> Mandated(d)']
  BY DEF InCharge
<1>3. [InCharge EXCEPT ![c] = Mandated(c)'] =
        [d \in Chats |-> IF d = c THEN Mandated(d)' ELSE Mandated(d)]
  BY DEF InCharge
<1> QED
  BY <1>1, <1>2, <1>3

\* Setting what is not set changes nothing.
LEMMA NotInCharge ==
  ASSUME NEW c \in Chats, ~Mandated(c)
  PROVE  [InCharge EXCEPT ![c] = FALSE] = InCharge
<1>1. \A d \in Chats : Mandated(d) \in BOOLEAN
  BY DEF Mandated
<1>2. InCharge[c] = FALSE
  BY <1>1 DEF InCharge
<1>3. InCharge = [d \in Chats |-> InCharge[d]]
  BY DEF InCharge
<1> QED
  BY <1>2, <1>3

\* A request deletes a task that no handler is at.
LEMMA SlotClear ==
  ASSUME HInv, NEW c \in Chats, DeleteTask(c), UNCHANGED <<worker, attemptVars>>,
         Scheduled' = Scheduled
  PROVE  [Slot!Next]_Slot!vars
<1>1. InCharge' = InCharge
  BY SameInCharge DEF attemptVars
<1>2. CASE UNCHANGED task
  BY <1>1, <1>2, SameOwed, Invisible
<1>3. CASE task[c].state \in {"pending", "retry", "archived"} /\ task' = [task EXCEPT ![c] = NoTask]
  <2>1. /\ \A d \in Chats \ {c} : task'[d] = task[d]
        /\ task'[c] = NoTask
    BY <1>3 DEF HInv, IInv, TypeOK
  <2>2. OwedBy(c)' = NoMessage
    BY <2>1 DEF OwedBy, Live, LiveStates, NoTask
  <2>3. Owed' = [Owed EXCEPT ![c] = NoMessage]
    BY <2>1, <2>2, OwedStep DEF HInv, IInv
  <2>4. ~Mandated(c)
    BY <1>3 DEF Mandated, HInv, IInv, WorkerInv
  <2> QED
    BY <1>1, <2>3, <2>4, GivenUp
<1> QED
  BY <1>2, <1>3 DEF DeleteTask

\* Enqueue under the chat's task id: scheduled, or refused and nothing happened.
LEMMA SlotEnqueue ==
  ASSUME HInv, NEW m \in Messages, EnqueueTask(m)
  PROVE  [Slot!Next]_Slot!vars
<1> DEFINE c == ChatOf[m]
<1>1. /\ UNCHANGED <<worker, ctx>> /\ c \in Chats /\ req[m] = "cleared"
      /\ req \in [Messages -> {"new", "stored", "signalled", "cleared", "accepted",
                               "refused", "lost"}]
      /\ task \in [Chats -> TaskRecord \cup {NoTask}]
  BY ConstantsAssumption DEF EnqueueTask, attemptVars, HInv, IInv, TypeOK
<1>2. CASE UNCHANGED task /\ req' = [req EXCEPT ![m] = "refused"]
  <2>1. Scheduled' = Scheduled
    BY <1>1, <1>2, SameScheduled
  <2> QED
    BY <1>1, <1>2, <2>1, SameOwed, SameInCharge, Invisible
<1>3. CASE /\ task[c].state = "none"
           /\ task' = [task EXCEPT ![c] =
                         [state |-> "pending", msg |-> m, retried |-> 0]]
           /\ req' = [req EXCEPT ![m] = "accepted"]
  <2>1. OwedBy(c) = NoMessage
    BY <1>3 DEF OwedBy, Live, LiveStates
  <2>2. /\ \A d \in Chats \ {c} : task'[d] = task[d]
        /\ task'[c].state = "pending" /\ task'[c].msg = m
    BY <1>1, <1>3
  <2>3. OwedBy(c)' = m
    BY <2>2 DEF OwedBy, Live, LiveStates
  <2>4. Owed' = [Owed EXCEPT ![c] = m]
    BY <1>1, <2>2, <2>3, OwedStep DEF HInv, IInv
  <2>5. m \notin Scheduled /\ Scheduled' = Scheduled \cup {m}
    BY <1>1, <1>3 DEF Scheduled
  <2>6. InCharge' = InCharge
    BY <1>1, SameInCharge
  <2>7. Slot!Schedule(c, m)
    BY <1>1, <2>1, <2>4, <2>5, <2>6 DEF Slot!Schedule, Owed, InCharge, Scheduled
  <2> QED
    BY <1>1, <2>7 DEF Slot!Next
<1> QED
  BY <1>2, <1>3 DEF EnqueueTask

\* A claim keeps what is owed and puts a handler in charge.
LEMMA SlotClaim ==
  ASSUME HInv, NEW c \in Chats, NEW a \in Attempts, Claim(c, a)
  PROVE  [Slot!Next]_Slot!vars
<1>1. /\ task[c].state = "pending" /\ task[c] \in TaskRecord
      /\ task[c].msg \in Messages /\ worker[c] = NoAttempt
      /\ pc[a] = "unused" /\ ctx[a] = "live" /\ a # NoAttempt
      /\ \A d \in Chats : worker[d] # a
      /\ task \in [Chats -> TaskRecord \cup {NoTask}]
      /\ worker \in [Chats -> Attempts \cup {NoAttempt}]
  BY TaskFacts, WorkerFacts, ConstantsAssumption
  DEF Claim, HInv, IInv, TypeOK, WorkerInv, AttemptInv
<1>2. /\ task' = [task EXCEPT ![c] = [task[c] EXCEPT !.state = "active"]]
      /\ [task[c] EXCEPT !.state = "active"].state = "active"
      /\ [task[c] EXCEPT !.state = "active"].msg = task[c].msg
      /\ worker' = [worker EXCEPT ![c] = a] /\ UNCHANGED <<req, ctx>>
  BY <1>1, StateChange DEF Claim, requestVars
<1>3. /\ \A d \in Chats \ {c} : task'[d] = task[d] /\ worker'[d] = worker[d]
      /\ task'[c].state = "active" /\ task'[c].msg = task[c].msg
      /\ worker'[c] = a
  BY <1>1, <1>2
<1>4. OwedBy(c)' = OwedBy(c) /\ OwedBy(c) = task[c].msg
  BY <1>1, <1>3 DEF OwedBy, Live, LiveStates
<1>5. Owed' = Owed
  BY <1>3, <1>4, OwedStep DEF HInv, IInv, Owed
<1>6. Scheduled' = Scheduled
  BY <1>2, SameScheduled
<1>7. ~Mandated(c) /\ Mandated(c)'
  BY <1>1, <1>2, <1>3 DEF Mandated
<1>8. InCharge' = [InCharge EXCEPT ![c] = TRUE]
  BY <1>2, <1>3, <1>7, InChargeStep
<1>9. Slot!Start(c)
  BY <1>1, <1>4, <1>5, <1>6, <1>7, <1>8, ConstantsAssumption
  DEF Slot!Start, Owed, InCharge, Scheduled
<1> QED
  BY <1>9 DEF Slot!Next

\* The context of the attempt in charge ends: its mandate is revoked.
LEMMA SlotRevoke ==
  ASSUME HInv, NEW c \in Chats, worker[c] # NoAttempt, ctx[worker[c]] = "live",
         ctx' = [ctx EXCEPT ![worker[c]] = "ended"],
         UNCHANGED <<req, task, worker>>
  PROVE  [Slot!Next]_Slot!vars
<1>1. Owed' = Owed /\ Scheduled' = Scheduled
  BY SameOwed, SameScheduled
<1>2. worker[c] \in Attempts /\ \A d \in Chats \ {c} : worker[d] # worker[c]
  BY WorkerFacts DEF HInv
<1>3. \A d \in Chats \ {c} : worker[d] # NoAttempt => ctx'[worker[d]] = ctx[worker[d]]
  BY <1>2 DEF HInv, IInv, TypeOK
<1>4. Mandated(c) /\ ~Mandated(c)'
  BY <1>2 DEF Mandated, HInv, IInv, TypeOK
<1>5. InCharge' = [InCharge EXCEPT ![c] = FALSE]
  BY <1>3, <1>4, InChargeStep
<1>6. Slot!Revoke(c)
  BY <1>1, <1>4, <1>5 DEF Slot!Revoke, Owed, InCharge, Scheduled
<1> QED
  BY <1>6 DEF Slot!Next

\* A task whose handler is not in charge any more is retried or archived: it is
\* owed as before, or given up.
LEMMA SlotRetried ==
  ASSUME HInv, NEW c \in Chats, task[c].state = "active", ~Mandated(c),
         task' = [task EXCEPT ![c] = Retried(task[c])],
         worker' = [worker EXCEPT ![c] = NoAttempt],
         UNCHANGED <<req, ctx>>
  PROVE  [Slot!Next]_Slot!vars
<1>1. /\ Retried(task[c]).state \in {"retry", "archived"}
      /\ Retried(task[c]).msg = task[c].msg
  BY TaskFacts, RetriedType DEF HInv
<1>2. /\ \A d \in Chats \ {c} : task'[d] = task[d] /\ worker'[d] = worker[d]
      /\ task'[c] = Retried(task[c]) /\ worker'[c] = NoAttempt
  BY DEF HInv, IInv, TypeOK
<1>3. Scheduled' = Scheduled
  BY SameScheduled
<1>4. ~Mandated(c)'
  BY <1>2 DEF Mandated
<1>5. InCharge' = [InCharge EXCEPT ![c] = FALSE]
  BY <1>2, <1>4, InChargeStep
<1>6. InCharge' = InCharge
  BY <1>5, NotInCharge
<1>7. Owed' = [Owed EXCEPT ![c] = OwedBy(c)']
  BY <1>2, OwedStep DEF HInv, IInv
<1>8. CASE Retried(task[c]).state = "retry"
  <2>1. OwedBy(c)' = OwedBy(c)
    BY <1>1, <1>2, <1>8 DEF OwedBy, Live, LiveStates
  <2>2. Owed' = Owed
    BY <1>7, <2>1 DEF Owed
  <2> QED
    BY <1>3, <1>6, <2>2, Invisible
<1>9. CASE Retried(task[c]).state = "archived"
  <2>1. OwedBy(c)' = NoMessage
    BY <1>2, <1>9 DEF OwedBy, Live, LiveStates
  <2> QED
    BY <1>3, <1>6, <1>7, <2>1, GivenUp
<1> QED
  BY <1>1, <1>8, <1>9

\* The worker takes the result: the attempt in charge completes what is owed, one
\* that lost its mandate in the meantime leaves a reply that is given up.
LEMMA SlotFinish ==
  ASSUME HInv, NEW c \in Chats, FinishTask(c)
  PROVE  [Slot!Next]_Slot!vars
<1> DEFINE t == IF pc[worker[c]] = "succeeded" THEN NoTask
                ELSE [task[c] EXCEPT !.state = "archived"]
<1>1. task[c] \in TaskRecord /\ worker[c] \in Attempts
  BY WorkerFacts DEF FinishTask, HInv
<1>2. t.state \in {"none", "archived"}
  BY <1>1, StateChange DEF NoTask
<1>3. /\ task' = [task EXCEPT ![c] = t]
      /\ worker' = [worker EXCEPT ![c] = NoAttempt] /\ UNCHANGED <<req, ctx>>
  BY DEF FinishTask, requestVars
<1> HIDE DEF t
<1>4. /\ \A d \in Chats \ {c} : task'[d] = task[d] /\ worker'[d] = worker[d]
      /\ task'[c] = t /\ worker'[c] = NoAttempt
  BY <1>3 DEF HInv, IInv, TypeOK
<1>5. Scheduled' = Scheduled
  BY <1>3, SameScheduled
<1>6. ~Mandated(c)' /\ OwedBy(c)' = NoMessage
  BY <1>2, <1>4 DEF Mandated, OwedBy, Live, LiveStates
<1>7. InCharge' = [InCharge EXCEPT ![c] = FALSE]
  BY <1>3, <1>4, <1>6, InChargeStep
<1>8. Owed' = [Owed EXCEPT ![c] = NoMessage]
  BY <1>4, <1>6, OwedStep DEF HInv, IInv
<1>9. CASE Mandated(c)
  <2>1. Slot!Complete(c)
    BY <1>5, <1>7, <1>8, <1>9 DEF Slot!Complete, Owed, InCharge, Scheduled
  <2> QED
    BY <2>1 DEF Slot!Next
<1>10. CASE ~Mandated(c)
  <2>1. InCharge' = InCharge
    BY <1>7, <1>10, NotInCharge
  <2> QED
    BY <1>5, <1>8, <1>10, <2>1, GivenUp
<1> QED
  BY <1>9, <1>10

\* The process goes: every mandate ends, and what was owed is owed or forgotten.
LEMMA SlotOutage ==
  ASSUME ProcessGone,
         \/ \A c \in Chats : OwedBy(c)' = OwedBy(c)
         \/ \A c \in Chats : OwedBy(c)' = NoMessage
  PROVE  [Slot!Next]_Slot!vars
<1>1. Scheduled' = Scheduled
  BY SameScheduled DEF ProcessGone, InFlight, Scheduled
<1>2. InCharge' = [c \in Chats |-> FALSE]
  BY DEF InCharge, Mandated, ProcessGone
<1>3. Owed' \in {Owed, [c \in Chats |-> NoMessage]}
  BY DEF Owed
<1>4. Slot!Outage
  BY <1>1, <1>2, <1>3 DEF Slot!Outage, Owed, InCharge, Scheduled
<1> QED
  BY <1>4 DEF Slot!Next

\* Every step of the pipeline is a step of the reply slot or invisible.
LEMMA SlotStep ==
  ASSUME HInv, [Next]_vars
  PROVE  [Slot!Next]_Slot!vars
<1> USE DEF queueVars, attemptVars, requestVars
<1>0. /\ req \in [Messages -> {"new", "stored", "signalled", "cleared", "accepted",
                               "refused", "lost"}]
      /\ task \in [Chats -> TaskRecord \cup {NoTask}]
      /\ \A x \in Messages \cup Interrupts : ChatOf[x] \in Chats
  BY ConstantsAssumption DEF HInv, IInv, TypeOK
<1>1. ASSUME UNCHANGED <<task, worker, ctx>>,
             \A m \in Messages : (req'[m] = "accepted") <=> (req[m] = "accepted")
      PROVE  [Slot!Next]_Slot!vars
  BY <1>1, SameOwed, SameInCharge, SameScheduled, Invisible
<1>2. ASSUME NEW m \in Messages, MessageSend(m) \/ EnqueueSignal(m)
      PROVE  [Slot!Next]_Slot!vars
  BY <1>0, <1>1, <1>2 DEF MessageSend, Insert, EnqueueSignal
<1>3. ASSUME NEW m \in Messages, NEW s \in Messages, RerunMessage(m, s)
      PROVE  [Slot!Next]_Slot!vars
  BY <1>0, <1>1, <1>3 DEF RerunMessage, Insert
<1>4. ASSUME NEW m \in Messages, EnqueueClear(m) PROVE [Slot!Next]_Slot!vars
  <2>1. \A n \in Messages : (req'[n] = "accepted") <=> (req[n] = "accepted")
    BY <1>0, <1>4 DEF EnqueueClear
  <2>2. Scheduled' = Scheduled
    BY <2>1, SameScheduled
  <2> QED
    BY <1>0, <1>4, <2>2, SlotClear DEF EnqueueClear
<1>5. ASSUME NEW m \in Messages, EnqueueTask(m) PROVE [Slot!Next]_Slot!vars
  BY <1>5, SlotEnqueue
<1>6. ASSUME NEW i \in Interrupts, InterruptSignal(i) PROVE [Slot!Next]_Slot!vars
  BY <1>1, <1>6 DEF InterruptSignal
<1>7. ASSUME NEW i \in Interrupts, InterruptClear(i) PROVE [Slot!Next]_Slot!vars
  <2>1. Scheduled' = Scheduled
    BY <1>7, SameScheduled DEF InterruptClear
  <2> QED
    BY <1>0, <1>7, <2>1, SlotClear DEF InterruptClear
<1>8. ASSUME NEW r \in Messages \cup Interrupts, DeliverSignal(r)
      PROVE  [Slot!Next]_Slot!vars
  <2>1. CASE UNCHANGED ctx
    BY <1>1, <1>8, <2>1 DEF DeliverSignal
  <2>2. CASE ~UNCHANGED ctx
    <3> DEFINE c == ChatOf[r]
    <3>1. /\ c \in Chats /\ worker[c] # NoAttempt /\ ctx[worker[c]] = "live"
          /\ ctx' = [ctx EXCEPT ![worker[c]] = "ended"]
          /\ UNCHANGED <<req, task, worker>>
      BY <1>0, <1>8, <2>2 DEF DeliverSignal
    <3> HIDE DEF c
    <3> QED
      BY <3>1, SlotRevoke
  <2> QED
    BY <2>1, <2>2
<1>9. ASSUME NEW c \in Chats, Timeout(c) PROVE [Slot!Next]_Slot!vars
  BY <1>9, SlotRevoke DEF Timeout
<1>10. ASSUME NEW c \in Chats, NEW a \in Attempts, Claim(c, a)
       PROVE  [Slot!Next]_Slot!vars
  BY <1>10, SlotClaim
<1>11. ASSUME NEW c \in Chats, AbandonAttempt(c) PROVE [Slot!Next]_Slot!vars
  <2>1. task[c].state = "active" /\ ~Mandated(c)
    BY <1>11 DEF AbandonAttempt, Mandated, HInv, IInv, WorkerInv
  <2>2. /\ task' = [task EXCEPT ![c] = Retried(task[c])]
        /\ worker' = [worker EXCEPT ![c] = NoAttempt] /\ UNCHANGED <<req, ctx>>
    BY <1>11 DEF AbandonAttempt
  <2> QED
    BY <1>11, <2>1, <2>2, SlotRetried
<1>12. ASSUME NEW c \in Chats, FinishTask(c) PROVE [Slot!Next]_Slot!vars
  BY <1>12, SlotFinish
<1>13. ASSUME NEW c \in Chats, Forward(c) PROVE [Slot!Next]_Slot!vars
  <2>1. /\ task' = [task EXCEPT ![c] = [task[c] EXCEPT !.state = "pending"]]
        /\ [task[c] EXCEPT !.state = "pending"].state = "pending"
        /\ [task[c] EXCEPT !.state = "pending"].msg = task[c].msg
    BY <1>13, TaskFacts, StateChange DEF Forward, HInv
  <2>2. /\ \A d \in Chats \ {c} : task'[d] = task[d]
        /\ task'[c] = [task[c] EXCEPT !.state = "pending"]
    BY <1>0, <1>13, <2>1
  <2>3. task'[c].state = "pending" /\ task'[c].msg = task[c].msg
    BY <2>1, <2>2
  <2>4. OwedBy(c)' = OwedBy(c)
    BY <1>13, <2>3 DEF Forward, OwedBy, Live, LiveStates
  <2>5. Owed' = Owed
    BY <1>13, <2>2, <2>4, OwedStep DEF Owed, HInv, IInv
  <2> QED
    BY <1>13, <2>5, SameInCharge, SameScheduled, Invisible DEF Forward
<1>14. ASSUME NEW c \in Chats, Recover(c) PROVE [Slot!Next]_Slot!vars
  <2>1. task[c].state = "active" /\ ~Mandated(c)
    BY <1>14 DEF Recover, Mandated
  <2>2. /\ task' = [task EXCEPT ![c] = Retried(task[c])]
        /\ worker' = [worker EXCEPT ![c] = NoAttempt] /\ UNCHANGED <<req, ctx>>
    BY <1>14 DEF Recover, HInv, IInv, TypeOK
  <2> QED
    BY <1>14, <2>1, <2>2, SlotRetried
<1>15. ASSUME NEW a \in Attempts, Handler(a) PROVE [Slot!Next]_Slot!vars
  BY <1>1, <1>15
  DEF Handler, LoadSource, Respond, FailResponse, PauseResponse, ReturnResult
<1>16. ASSUME CloseHTTP \/ Restart PROVE [Slot!Next]_Slot!vars
  BY <1>1, <1>16 DEF CloseHTTP, Restart
<1>17. ASSUME StopWorker PROVE [Slot!Next]_Slot!vars
  <2>1. CASE EmbeddedRedis
    BY <1>17, <2>1, SlotOutage DEF StopWorker, OwedBy, Live, LiveStates, NoTask
  <2>2. CASE ~EmbeddedRedis
    <3>1. ASSUME NEW c \in Chats PROVE OwedBy(c)' = OwedBy(c)
      <4>1. CASE worker[c] # NoAttempt
        <5>1. task[c] \in TaskRecord /\ task[c].state = "active"
          BY <4>1, WorkerFacts DEF HInv
        <5>2. task'[c] = [task[c] EXCEPT !.state = "pending"]
          BY <1>17, <2>2, <4>1 DEF StopWorker
        <5>3. task'[c].state = "pending" /\ task'[c].msg = task[c].msg
          BY <5>1, <5>2, StateChange
        <5> QED
          BY <5>1, <5>3 DEF OwedBy, Live, LiveStates
      <4>2. CASE worker[c] = NoAttempt
        <5>1. task'[c] = task[c]
          BY <1>17, <2>2, <4>2 DEF StopWorker
        <5> QED
          BY <5>1 DEF OwedBy, Live
      <4> QED
        BY <4>1, <4>2
    <3> QED
      BY <1>17, <3>1, SlotOutage DEF StopWorker
  <2> QED
    BY <2>1, <2>2
<1>18. ASSUME Crash PROVE [Slot!Next]_Slot!vars
  <2>1. CASE EmbeddedRedis
    BY <1>18, <2>1, SlotOutage DEF Crash, OwedBy, Live, LiveStates, NoTask
  <2>2. CASE ~EmbeddedRedis
    <3>1. \A c \in Chats : task'[c] = task[c]
      BY <1>18, <2>2 DEF Crash
    <3>2. \A c \in Chats : OwedBy(c)' = OwedBy(c)
      BY <3>1 DEF OwedBy, Live
    <3> QED
      BY <1>18, <3>2, SlotOutage DEF Crash
  <2> QED
    BY <2>1, <2>2
<1>19. CASE UNCHANGED vars
  BY <1>1, <1>19 DEF vars
<1> QED
  BY <1>2, <1>3, <1>4, <1>5, <1>6, <1>7, <1>8, <1>9, <1>10, <1>11, <1>12, <1>13,
     <1>14, <1>15, <1>16, <1>17, <1>18, <1>19
  DEF Next, Request, Worker, Operate

\* The pipeline keeps what the reply slot promises of a chat: a reply that is
\* owed is not exchanged for another, one handler at most has the mandate, it
\* loses it before anybody else gets it, and no message is scheduled twice.
THEOREM Refinement == Spec => ImplementsReplySlot
<1>1. Init => Slot!Init
  <2> SUFFICES ASSUME Init PROVE Slot!Init
    OBVIOUS
  <2>1. \A c \in Chats : OwedBy(c) = NoMessage
    BY DEF Init, OwedBy, Live, LiveStates, NoTask
  <2>2. \A c \in Chats : Mandated(c) = FALSE
    BY DEF Init, Mandated
  <2>3. {m \in Messages : req[m] = "accepted"} = {}
    BY DEF Init
  <2> QED
    BY <2>1, <2>2, <2>3 DEF Slot!Init
<1>2. HInv /\ [Next]_vars => [Slot!Next]_Slot!vars
  BY SlotStep
<1> QED
  BY <1>1, <1>2, HistoryKept, PTL DEF Spec, Slot!Spec, ImplementsReplySlot

(***************************************************************************)
(* The text of a reply.  A reply tells a text if, whatever may still come, *)
(* the answer and the thoughts of the whole are those told so far and then *)
(* those of what is kept back with the rest; taking a tag and passing on   *)
(* keep this, and once nothing more comes it is what the properties say.   *)
(***************************************************************************)

\* Texts and tags are sequences of symbols, and a tag is not empty.
Texts == Seq(Symbols)
Tags == {ThinkStart, ThinkEnd}

LEMMA TagFacts ==
  /\ ThinkStart \in Tags /\ ThinkEnd \in Tags
  /\ \A tag \in Tags : tag \in Texts /\ Len(tag) \in Nat \ {0}
BY TagAssumption DEF Tags, Texts

\* A tag is where its symbols are.
LEMMA AtIs ==
  ASSUME NEW s \in Texts, NEW tag \in Texts, Len(tag) # 0, NEW i
  PROVE  i \in At(s, tag) <=>
           /\ i \in 1 .. (Len(s) - Len(tag)) + 1
           /\ \A k \in 1 .. Len(tag) : s[(i - 1) + k] = tag[k]
<1>1. CASE i \in 1 .. (Len(s) - Len(tag)) + 1
  <2>0. Len(s) \in Nat /\ Len(tag) \in Nat
    BY DEF Texts
  <2> DEFINE b == i + Len(tag) - 1
  <2>1. /\ i \in Nat \ {0} /\ b \in Nat /\ b <= Len(s) /\ i <= b + 1
        /\ (b - i) + 1 = Len(tag)
    BY <1>1, <2>0
  <2> HIDE DEF b
  <2>2. /\ SubSeq(s, i, b) \in Texts
        /\ Len(SubSeq(s, i, b)) = (b - i) + 1
        /\ \A k \in 1 .. (b - i) + 1 : SubSeq(s, i, b)[k] = s[(i - 1) + k]
    BY <2>1, SubSeqIs DEF Texts
  <2>3. Len(SubSeq(s, i, b)) = Len(tag)
        /\ \A k \in 1 .. Len(tag) : SubSeq(s, i, b)[k] = s[(i - 1) + k]
    BY <2>1, <2>2
  <2> DEFINE u == SubSeq(s, i, b)
  <2>4. u \in Seq(Symbols) /\ tag \in Seq(Symbols)
    BY <2>2 DEF Texts
  <2> HIDE DEF u
  <2>5. Len(u) = Len(tag) /\ \A k \in 1 .. Len(tag) : u[k] = s[(i - 1) + k]
    BY <2>3 DEF u
  <2>6. u = tag <=> \A k \in 1 .. Len(tag) : u[k] = tag[k]
    BY <2>4, <2>5, SeqEqual
  <2>7. i \in At(s, tag) <=> u = tag
    BY <1>1 DEF At, u, b
  <2> QED
    BY <1>1, <2>5, <2>6, <2>7
<1>2. CASE i \notin 1 .. (Len(s) - Len(tag)) + 1
  BY <1>2 DEF At
<1> QED
  BY <1>1, <1>2

\* The tag is at place i, symbol by symbol.
Fits(s, tag, i) == \A k \in 1 .. Len(tag) : s[(i - 1) + k] = tag[k]

\* The places of a tag are those where it fits.
LEMMA AtWhere ==
  ASSUME NEW s \in Texts, NEW tag \in Texts, Len(tag) # 0
  PROVE  At(s, tag) = {i \in 1 .. (Len(s) - Len(tag)) + 1 : Fits(s, tag, i)}
BY AtIs DEF Fits

\* Where there are places of a tag, there is a first.
LEMMA FirstIs ==
  ASSUME NEW s \in Texts, NEW tag \in Texts, Len(tag) # 0, At(s, tag) # {}
  PROVE  /\ Min(At(s, tag)) \in At(s, tag)
         /\ Min(At(s, tag)) \in 1 .. (Len(s) - Len(tag)) + 1
         /\ \A j \in At(s, tag) : Min(At(s, tag)) <= j
<1>1. At(s, tag) \subseteq Nat
  BY DEF At
<1> QED
  BY <1>1, AtIs, MinOfNaturals

\* The text is what is before and after the first place of a tag, and the tag.
LEMMA AroundIs ==
  ASSUME NEW s \in Texts, NEW tag \in Texts, Len(tag) # 0, At(s, tag) # {}
  PROVE  LET i == Min(At(s, tag)) IN
         /\ Until(s, tag) \in Texts /\ Len(Until(s, tag)) = i - 1
         /\ \A k \in 1 .. i - 1 : Until(s, tag)[k] = s[k]
         /\ After(s, tag) \in Texts
         /\ Len(After(s, tag)) = (Len(s) - i - Len(tag)) + 1
         /\ Len(After(s, tag)) < Len(s)
         /\ \A k \in 1 .. (Len(s) - i - Len(tag)) + 1 :
              After(s, tag)[k] = s[(i + Len(tag) - 1) + k]
<1> DEFINE i == Min(At(s, tag))
<1>1. i \in 1 .. (Len(s) - Len(tag)) + 1
  BY FirstIs
<1> HIDE DEF i
<1>0. Len(s) \in Nat /\ Len(tag) \in Nat
  BY DEF Texts
<1>2. /\ Before(s, i) \in Texts /\ Len(Before(s, i)) = i - 1
      /\ \A k \in 1 .. i - 1 : Before(s, i)[k] = s[k]
  <2>1. /\ 1 \in Nat \ {0} /\ i - 1 \in Nat /\ i - 1 <= Len(s) /\ 1 <= (i - 1) + 1
    BY <1>0, <1>1
  <2>2. /\ SubSeq(s, 1, i - 1) \in Texts
        /\ Len(SubSeq(s, 1, i - 1)) = ((i - 1) - 1) + 1
        /\ \A k \in 1 .. ((i - 1) - 1) + 1 : SubSeq(s, 1, i - 1)[k] = s[(1 - 1) + k]
    BY <2>1, SubSeqIs DEF Texts
  <2>3. ((i - 1) - 1) + 1 = i - 1 /\ \A k \in 1 .. i - 1 : (1 - 1) + k = k
    BY <2>1
  <2> QED
    BY <2>2, <2>3 DEF Before
<1>3. /\ From(s, i + Len(tag)) \in Texts
      /\ Len(From(s, i + Len(tag))) = (Len(s) - i - Len(tag)) + 1
      /\ \A k \in 1 .. (Len(s) - i - Len(tag)) + 1 :
           From(s, i + Len(tag))[k] = s[(i + Len(tag) - 1) + k]
  <2> DEFINE a == i + Len(tag)
  <2>1. a \in Nat \ {0} /\ Len(s) <= Len(s) /\ a <= Len(s) + 1
    BY <1>0, <1>1
  <2> HIDE DEF a
  <2>2. /\ SubSeq(s, a, Len(s)) \in Texts
        /\ Len(SubSeq(s, a, Len(s))) = (Len(s) - a) + 1
        /\ \A k \in 1 .. (Len(s) - a) + 1 : SubSeq(s, a, Len(s))[k] = s[(a - 1) + k]
    BY <1>0, <2>1, SubSeqIs DEF Texts
  <2>3. /\ (Len(s) - a) + 1 = (Len(s) - i - Len(tag)) + 1
        /\ a - 1 = i + Len(tag) - 1
    BY <1>0, <1>1 DEF a
  <2>4. From(s, a) = SubSeq(s, a, Len(s))
    BY DEF From
  <2>5. /\ From(s, a) \in Texts
        /\ Len(From(s, a)) = (Len(s) - i - Len(tag)) + 1
        /\ \A k \in 1 .. (Len(s) - i - Len(tag)) + 1 :
             From(s, a)[k] = s[(i + Len(tag) - 1) + k]
    BY <2>2, <2>3, <2>4
  <2> QED
    BY <2>5 DEF a
<1>4. (Len(s) - i - Len(tag)) + 1 < Len(s)
  BY <1>0, <1>1
<1> QED
  BY <1>2, <1>3, <1>4 DEF Until, After, i

\* What is behind a text has its symbols after those of the text.
LEMMA TextConcat ==
  ASSUME NEW s \in Texts, NEW u \in Texts
  PROVE  /\ Len(s) \in Nat /\ Len(u) \in Nat
         /\ s \o u \in Texts /\ Len(s \o u) = Len(s) + Len(u)
         /\ \A k \in 1 .. Len(s) : (s \o u)[k] = s[k]
         /\ \A k \in 1 .. Len(u) : (s \o u)[Len(s) + k] = u[k]
BY ConcatOfSet DEF Texts

\* Three texts, one after the other.
LEMMA TextAssoc ==
  ASSUME NEW p \in Texts, NEW q \in Texts, NEW r \in Texts
  PROVE  (p \o q) \o r = p \o (q \o r)
BY ConcatAssoc DEF Texts

\* What comes later does not move the first place of a tag.
LEMMA MoreAfter ==
  ASSUME NEW s \in Texts, NEW u \in Texts, NEW tag \in Texts, Len(tag) # 0, At(s, tag) # {}
  PROVE  /\ At(s \o u, tag) # {}
         /\ Until(s \o u, tag) = Until(s, tag)
         /\ After(s \o u, tag) = After(s, tag) \o u
<1> DEFINE i == Min(At(s, tag))
           n == Len(tag)
           t == s \o u
<1>0. /\ Len(s) \in Nat /\ Len(u) \in Nat /\ n \in Nat \ {0}
      /\ t \in Texts /\ Len(t) = Len(s) + Len(u)
      /\ \A k \in 1 .. Len(s) : t[k] = s[k]
      /\ \A k \in 1 .. Len(u) : t[Len(s) + k] = u[k]
  BY TextConcat DEF Texts
<1> HIDE DEF t
<1>1. /\ i \in At(s, tag) /\ i \in 1 .. (Len(s) - n) + 1
      /\ \A j \in At(s, tag) : i <= j
  BY FirstIs
<1> HIDE DEF i, n
<1>2. \A j \in 1 .. (Len(s) - n) + 1 : j \in At(s, tag) <=> j \in At(t, tag)
  <2> SUFFICES ASSUME NEW j \in 1 .. (Len(s) - n) + 1
               PROVE  j \in At(s, tag) <=> j \in At(t, tag)
    OBVIOUS
  <2>1. \A k \in 1 .. n : t[(j - 1) + k] = s[(j - 1) + k]
    BY <1>0
  <2>2. j \in 1 .. (Len(t) - n) + 1
    BY <1>0
  <2>3. j \in At(s, tag) <=> Fits(s, tag, j)
    BY AtWhere DEF n
  <2>4. j \in At(t, tag) <=> Fits(t, tag, j)
    BY <1>0, <2>2, AtWhere DEF n
  <2>5. Fits(s, tag, j) <=> Fits(t, tag, j)
    BY <2>1 DEF Fits, n
  <2> QED
    BY <2>3, <2>4, <2>5
<1>3. /\ At(t, tag) # {} /\ Min(At(t, tag)) = i
  <2>1. i \in At(t, tag)
    BY <1>1, <1>2
  <2>2. /\ Min(At(t, tag)) \in At(t, tag) /\ Min(At(t, tag)) <= i
        /\ Min(At(t, tag)) \in 1 .. (Len(t) - n) + 1
    BY <1>0, <2>1, FirstIs DEF n
  <2>3. Min(At(t, tag)) \in 1 .. (Len(s) - n) + 1
    BY <1>0, <1>1, <2>2
  <2>4. i <= Min(At(t, tag))
    BY <1>1, <1>2, <2>2, <2>3
  <2> QED
    BY <1>0, <1>1, <2>1, <2>2, <2>4
<1>4. /\ Until(s, tag) \in Texts /\ Len(Until(s, tag)) = i - 1
      /\ \A k \in 1 .. i - 1 : Until(s, tag)[k] = s[k]
      /\ After(s, tag) \in Texts /\ Len(After(s, tag)) = (Len(s) - i - n) + 1
      /\ \A k \in 1 .. (Len(s) - i - n) + 1 : After(s, tag)[k] = s[(i + n - 1) + k]
  BY AroundIs DEF i, n
<1>5. /\ Until(t, tag) \in Texts /\ Len(Until(t, tag)) = i - 1
      /\ \A k \in 1 .. i - 1 : Until(t, tag)[k] = t[k]
      /\ After(t, tag) \in Texts /\ Len(After(t, tag)) = (Len(t) - i - n) + 1
      /\ \A k \in 1 .. (Len(t) - i - n) + 1 : After(t, tag)[k] = t[(i + n - 1) + k]
  <2> DEFINE j == Min(At(t, tag))
  <2>1. /\ Until(t, tag) \in Texts /\ Len(Until(t, tag)) = j - 1
        /\ \A k \in 1 .. j - 1 : Until(t, tag)[k] = t[k]
        /\ After(t, tag) \in Texts /\ Len(After(t, tag)) = (Len(t) - j - n) + 1
        /\ \A k \in 1 .. (Len(t) - j - n) + 1 : After(t, tag)[k] = t[(j + n - 1) + k]
    BY <1>0, <1>3, AroundIs DEF n
  <2> QED
    BY <1>3, <2>1
<1>6. Until(t, tag) = Until(s, tag)
  <2>1. \A k \in 1 .. i - 1 : Until(t, tag)[k] = Until(s, tag)[k]
    BY <1>0, <1>1, <1>4, <1>5
  <2> QED
    BY <1>4, <1>5, <2>1, SeqEqual DEF Texts
<1>7. After(t, tag) = After(s, tag) \o u
  <2> DEFINE v == After(s, tag) \o u
  <2>1. /\ v \in Texts /\ Len(v) = ((Len(s) - i - n) + 1) + Len(u)
        /\ \A k \in 1 .. (Len(s) - i - n) + 1 : v[k] = After(s, tag)[k]
        /\ \A k \in 1 .. Len(u) : v[((Len(s) - i - n) + 1) + k] = u[k]
    <3>1. /\ v \in Texts /\ Len(v) = Len(After(s, tag)) + Len(u)
          /\ \A k \in 1 .. Len(After(s, tag)) : v[k] = After(s, tag)[k]
          /\ \A k \in 1 .. Len(u) : v[Len(After(s, tag)) + k] = u[k]
      BY <1>4, TextConcat
    <3> QED
      BY <1>4, <3>1
  <2> HIDE DEF v
  <2>2. Len(v) = (Len(t) - i - n) + 1 /\ Len(v) = Len(After(t, tag))
    BY <1>0, <1>1, <1>5, <2>1
  <2>3. ASSUME NEW k \in 1 .. Len(v) PROVE After(t, tag)[k] = v[k]
    <3>1. After(t, tag)[k] = t[(i + n - 1) + k]
      BY <1>5, <2>2
    <3>2. CASE k <= (Len(s) - i - n) + 1
      <4>1. k \in 1 .. (Len(s) - i - n) + 1 /\ (i + n - 1) + k \in 1 .. Len(s)
        BY <1>0, <1>1, <2>2, <3>2
      <4> QED
        BY <1>0, <1>4, <2>1, <3>1, <4>1
    <3>3. CASE ~ (k <= (Len(s) - i - n) + 1)
      <4> DEFINE m == k - ((Len(s) - i - n) + 1)
      <4>1. /\ m \in 1 .. Len(u) /\ (i + n - 1) + k = Len(s) + m
            /\ ((Len(s) - i - n) + 1) + m = k
        BY <1>0, <1>1, <2>1, <3>3
      <4> HIDE DEF m
      <4>2. t[Len(s) + m] = u[m] /\ v[((Len(s) - i - n) + 1) + m] = u[m]
        BY <1>0, <2>1, <4>1
      <4> QED
        BY <3>1, <4>1, <4>2
    <3> QED
      BY <3>2, <3>3
  <2>4. After(t, tag) = v
    BY <1>5, <2>1, <2>2, <2>3, SeqEqual DEF Texts
  <2> QED
    BY <2>4 DEF v
<1> QED
  BY <1>3, <1>6, <1>7 DEF t

\* The places of a tag move with what is put before.
LEMMA PlacesShift ==
  ASSUME NEW p \in Texts, NEW q \in Texts, NEW tag \in Texts, Len(tag) # 0, NEW i \in Nat \ {0}
  PROVE  Len(p) + i \in At(p \o q, tag) <=> i \in At(q, tag)
<1> DEFINE t == p \o q
           n == Len(tag)
<1>0. /\ Len(p) \in Nat /\ Len(q) \in Nat /\ n \in Nat \ {0}
      /\ t \in Texts /\ Len(t) = Len(p) + Len(q)
      /\ \A k \in 1 .. Len(q) : t[Len(p) + k] = q[k]
  BY TextConcat DEF Texts
<1> HIDE DEF t, n
<1>1. i \in At(q, tag) <=> i \in 1 .. (Len(q) - n) + 1 /\ Fits(q, tag, i)
  BY AtWhere DEF n
<1>2. Len(p) + i \in At(t, tag) <=>
        Len(p) + i \in 1 .. (Len(t) - n) + 1 /\ Fits(t, tag, Len(p) + i)
  BY <1>0, AtWhere DEF n
<1>3. i \in 1 .. (Len(q) - n) + 1 <=> Len(p) + i \in 1 .. (Len(t) - n) + 1
  BY <1>0
<1>4. ASSUME i \in 1 .. (Len(q) - n) + 1
      PROVE  Fits(q, tag, i) <=> Fits(t, tag, Len(p) + i)
  <2>1. ASSUME NEW k \in 1 .. n PROVE t[((Len(p) + i) - 1) + k] = q[(i - 1) + k]
    <3>1. (i - 1) + k \in 1 .. Len(q) /\ ((Len(p) + i) - 1) + k = Len(p) + ((i - 1) + k)
      BY <1>0, <1>4
    <3> QED
      BY <1>0, <3>1
  <2> QED
    BY <2>1 DEF Fits, n
<1> QED
  BY <1>1, <1>2, <1>3, <1>4 DEF t

\* Text in which no tag begins is passed over.
LEMMA SkipBefore ==
  ASSUME NEW p \in Texts, NEW q \in Texts, NEW tag \in Texts, Len(tag) # 0,
         \A i \in At(p \o q, tag) : i > Len(p)
  PROVE  /\ At(p \o q, tag) = {} <=> At(q, tag) = {}
         /\ At(q, tag) # {} => /\ Until(p \o q, tag) = p \o Until(q, tag)
                               /\ After(p \o q, tag) = After(q, tag)
<1> DEFINE t == p \o q
           n == Len(tag)
<1>0. /\ Len(p) \in Nat /\ Len(q) \in Nat /\ n \in Nat \ {0}
      /\ t \in Texts /\ Len(t) = Len(p) + Len(q)
      /\ \A k \in 1 .. Len(p) : t[k] = p[k]
      /\ \A k \in 1 .. Len(q) : t[Len(p) + k] = q[k]
  BY TextConcat DEF Texts
<1>1. \A i \in Nat \ {0} : Len(p) + i \in At(t, tag) <=> i \in At(q, tag)
  BY PlacesShift
<1>2. \A i \in At(t, tag) : i > Len(p)
  OBVIOUS
<1> HIDE DEF t, n
<1>3. At(t, tag) # {} => At(q, tag) # {}
  <2> SUFFICES ASSUME NEW j \in At(t, tag) PROVE At(q, tag) # {}
    OBVIOUS
  <2>1. j \in Nat
    BY <1>0, AtIs
  <2>2. j - Len(p) \in Nat \ {0} /\ Len(p) + (j - Len(p)) = j
    BY <1>0, <1>2, <2>1
  <2> QED
    BY <1>1, <2>2
<1>4. ASSUME At(q, tag) # {}
      PROVE  /\ At(t, tag) # {} /\ Until(t, tag) = p \o Until(q, tag)
             /\ After(t, tag) = After(q, tag)
  <2> DEFINE i == Min(At(q, tag))
  <2>1. /\ i \in At(q, tag) /\ i \in 1 .. (Len(q) - n) + 1 /\ \A j \in At(q, tag) : i <= j
    BY <1>4, FirstIs DEF n
  <2>2. /\ Until(q, tag) \in Texts /\ Len(Until(q, tag)) = i - 1
        /\ \A k \in 1 .. i - 1 : Until(q, tag)[k] = q[k]
        /\ After(q, tag) \in Texts /\ Len(After(q, tag)) = (Len(q) - i - n) + 1
        /\ \A k \in 1 .. (Len(q) - i - n) + 1 : After(q, tag)[k] = q[(i + n - 1) + k]
    BY <1>4, AroundIs DEF n
  <2> HIDE DEF i
  <2>3. At(t, tag) # {} /\ Min(At(t, tag)) = Len(p) + i
    <3>1. Len(p) + i \in At(t, tag)
      BY <1>0, <1>1, <2>1
    <3> DEFINE j == Min(At(t, tag))
    <3>2. /\ j \in At(t, tag) /\ j <= Len(p) + i /\ j \in Nat
      BY <1>0, <3>1, FirstIs DEF n
    <3> HIDE DEF j
    <3>3. j - Len(p) \in Nat \ {0} /\ Len(p) + (j - Len(p)) = j
      BY <1>0, <1>2, <3>2
    <3>4. j - Len(p) \in At(q, tag)
      BY <1>1, <3>2, <3>3
    <3>5. i <= j - Len(p)
      BY <2>1, <3>4
    <3>6. j = Len(p) + i
      <4>1. i \in Nat /\ Len(p) \in Nat
        BY <1>0, <2>1
      <4> QED
        BY <3>2, <3>5, <4>1
    <3> QED
      BY <3>1, <3>6 DEF j
  <2>4. /\ Until(t, tag) \in Texts /\ Len(Until(t, tag)) = (Len(p) + i) - 1
        /\ \A k \in 1 .. (Len(p) + i) - 1 : Until(t, tag)[k] = t[k]
        /\ After(t, tag) \in Texts /\ Len(After(t, tag)) = (Len(t) - (Len(p) + i) - n) + 1
        /\ \A k \in 1 .. (Len(t) - (Len(p) + i) - n) + 1 :
             After(t, tag)[k] = t[((Len(p) + i) + n - 1) + k]
    <3> DEFINE j == Min(At(t, tag))
    <3>1. /\ Until(t, tag) \in Texts /\ Len(Until(t, tag)) = j - 1
          /\ \A k \in 1 .. j - 1 : Until(t, tag)[k] = t[k]
          /\ After(t, tag) \in Texts /\ Len(After(t, tag)) = (Len(t) - j - n) + 1
          /\ \A k \in 1 .. (Len(t) - j - n) + 1 : After(t, tag)[k] = t[(j + n - 1) + k]
      BY <1>0, <2>3, AroundIs DEF n
    <3> QED
      BY <2>3, <3>1
  <2>5. Until(t, tag) = p \o Until(q, tag)
    <3> DEFINE v == p \o Until(q, tag)
    <3>1. /\ v \in Texts /\ Len(v) = Len(p) + (i - 1)
          /\ \A k \in 1 .. Len(p) : v[k] = p[k]
          /\ \A k \in 1 .. i - 1 : v[Len(p) + k] = Until(q, tag)[k]
      <4>1. /\ v \in Texts /\ Len(v) = Len(p) + Len(Until(q, tag))
            /\ \A k \in 1 .. Len(p) : v[k] = p[k]
            /\ \A k \in 1 .. Len(Until(q, tag)) : v[Len(p) + k] = Until(q, tag)[k]
        BY <2>2, TextConcat
      <4> QED
        BY <2>2, <4>1
    <3> HIDE DEF v
    <3>2. Len(v) = Len(Until(t, tag)) /\ Len(v) = (Len(p) + i) - 1
      BY <1>0, <2>1, <2>4, <3>1
    <3>3. ASSUME NEW k \in 1 .. Len(v) PROVE Until(t, tag)[k] = v[k]
      <4>1. Until(t, tag)[k] = t[k]
        BY <2>4, <3>2
      <4>2. CASE k <= Len(p)
        <5>1. k \in 1 .. Len(p)
          BY <1>0, <4>2
        <5> QED
          BY <1>0, <3>1, <4>1, <5>1
      <4>3. CASE ~ (k <= Len(p))
        <5> DEFINE m == k - Len(p)
        <5>1. m \in 1 .. i - 1 /\ m \in 1 .. Len(q) /\ Len(p) + m = k
          BY <1>0, <2>1, <3>2, <4>3
        <5> HIDE DEF m
        <5>2. v[Len(p) + m] = q[m] /\ t[Len(p) + m] = q[m]
          BY <1>0, <2>2, <3>1, <5>1
        <5> QED
          BY <4>1, <5>1, <5>2
      <4> QED
        BY <4>2, <4>3
    <3>4. Until(t, tag) = v
      BY <2>4, <3>1, <3>2, <3>3, SeqEqual DEF Texts
    <3> QED
      BY <3>4 DEF v
  <2>6. After(t, tag) = After(q, tag)
    <3>1. (Len(t) - (Len(p) + i) - n) + 1 = (Len(q) - i - n) + 1
      BY <1>0, <2>1
    <3>2. ASSUME NEW k \in 1 .. (Len(q) - i - n) + 1 PROVE After(t, tag)[k] = After(q, tag)[k]
      <4>1. /\ (i + n - 1) + k \in 1 .. Len(q)
            /\ ((Len(p) + i) + n - 1) + k = Len(p) + ((i + n - 1) + k)
        BY <1>0, <2>1
      <4>2. t[Len(p) + ((i + n - 1) + k)] = q[(i + n - 1) + k]
        BY <1>0, <4>1
      <4>3. After(t, tag)[k] = t[((Len(p) + i) + n - 1) + k]
        BY <2>4, <3>1
      <4>4. After(q, tag)[k] = q[(i + n - 1) + k]
        BY <2>2
      <4> QED
        BY <4>1, <4>2, <4>3, <4>4
    <3> QED
      BY <2>2, <2>4, <3>1, <3>2, SeqEqual DEF Texts
  <2> QED
    BY <2>3, <2>5, <2>6
<1> QED
  BY <1>3, <1>4 DEF t

\* What is sent on and what is kept back make up the text.
LEMMA KeptIs ==
  ASSUME NEW s \in Texts, NEW tag \in Texts, Len(tag) # 0
  PROVE  /\ Sent(s, tag) \in Texts /\ Kept(s, tag) \in Texts
         /\ s = Sent(s, tag) \o Kept(s, tag)
         /\ Len(Kept(s, tag)) < Len(tag)
         /\ Len(Sent(s, tag)) <= (Len(s) - Len(tag)) + 1 \/ Sent(s, tag) = <<>>
<1>0. Len(s) \in Nat /\ Len(tag) \in Nat \ {0}
  BY DEF Texts
<1> DEFINE a == IF Len(s) < Len(tag) THEN 1 ELSE Len(s) - Len(tag) + 2
           k == SubSeq(s, a, Len(s))
           p == SubSeq(s, 1, a - 1)
<1>1. /\ a \in Nat \ {0} /\ a <= Len(s) + 1 /\ a - 1 \in Nat /\ a - 1 <= Len(s)
      /\ (Len(s) - a) + 1 < Len(tag)
      /\ a = 1 \/ a - 1 <= (Len(s) - Len(tag)) + 1
  <2>1. CASE Len(s) < Len(tag)
    <3>1. a = 1
      BY <2>1
    <3> QED
      BY <1>0, <2>1, <3>1
  <2>2. CASE ~ (Len(s) < Len(tag))
    <3>1. a = Len(s) - Len(tag) + 2
      BY <2>2
    <3> HIDE DEF a
    <3> QED
      BY <1>0, <2>2, <3>1
  <2> QED
    BY <2>1, <2>2
<1>2. Kept(s, tag) = k
  BY DEF Kept, From
<1> HIDE DEF a
<1>3. /\ k \in Texts /\ Len(k) = (Len(s) - a) + 1
      /\ \A i \in 1 .. (Len(s) - a) + 1 : k[i] = s[(a - 1) + i]
  BY <1>0, <1>1, SubSeqIs DEF Texts
<1>4. /\ p \in Texts /\ Len(p) = a - 1
      /\ \A i \in 1 .. a - 1 : p[i] = s[i]
  <2>1. 1 \in Nat \ {0} /\ 1 <= (a - 1) + 1
    BY <1>1
  <2> DEFINE b == a - 1
  <2>2. b \in Nat /\ b <= Len(s) /\ 1 <= b + 1
    BY <1>1
  <2> HIDE DEF b
  <2>3. /\ SubSeq(s, 1, b) \in Texts /\ Len(SubSeq(s, 1, b)) = (b - 1) + 1
        /\ \A i \in 1 .. (b - 1) + 1 : SubSeq(s, 1, b)[i] = s[(1 - 1) + i]
    BY <2>2, SubSeqIs DEF Texts
  <2>4. (b - 1) + 1 = b /\ \A i \in 1 .. b : (1 - 1) + i = i
    BY <2>2
  <2> QED
    BY <2>3, <2>4 DEF b
<1>5. Sent(s, tag) = p
  <2>1. (Len(s) - Len(k) + 1) - 1 = a - 1
    BY <1>0, <1>1, <1>3
  <2> QED
    BY <1>2, <2>1 DEF Sent, Before
<1> HIDE DEF k, p
<1>6. s = p \o k
  <2> DEFINE v == p \o k
  <2>1. /\ v \in Texts /\ Len(v) = Len(p) + Len(k)
        /\ \A i \in 1 .. Len(p) : v[i] = p[i]
        /\ \A i \in 1 .. Len(k) : v[Len(p) + i] = k[i]
    BY <1>3, <1>4, TextConcat
  <2> HIDE DEF v
  <2>2. Len(v) = Len(s)
    BY <1>0, <1>1, <1>3, <1>4, <2>1
  <2>3. ASSUME NEW i \in 1 .. Len(s) PROVE s[i] = v[i]
    <3>1. CASE i <= a - 1
      <4>1. i \in 1 .. a - 1
        BY <1>1, <3>1
      <4> QED
        BY <1>4, <2>1, <4>1
    <3>2. CASE ~ (i <= a - 1)
      <4> DEFINE n == i - (a - 1)
      <4>1. n \in 1 .. (Len(s) - a) + 1 /\ (a - 1) + n = i
        BY <1>0, <1>1, <3>2
      <4> HIDE DEF n
      <4>2. k[n] = s[(a - 1) + n] /\ v[(a - 1) + n] = k[n]
        BY <1>3, <1>4, <2>1, <4>1
      <4> QED
        BY <4>1, <4>2
    <3> QED
      BY <3>1, <3>2
  <2>4. s = v
    BY <2>1, <2>2, <2>3, SeqEqual DEF Texts
  <2> QED
    BY <2>4 DEF v
<1>7. a = 1 => p = <<>>
  BY <1>4 DEF Texts
<1> QED
  BY <1>1, <1>2, <1>3, <1>4, <1>5, <1>6, <1>7

\* Of a text without the tag, nothing that is sent on can be part of one.
LEMMA SendNoTag ==
  ASSUME NEW s \in Texts, NEW u \in Texts, NEW tag \in Texts, Len(tag) # 0, At(s, tag) = {}
  PROVE  LET p == Sent(s, tag)
             q == Kept(s, tag) \o u
         IN /\ s \o u = p \o q
            /\ \A i \in At(p \o q, tag) : i > Len(p)
<1> DEFINE p == Sent(s, tag)
           k == Kept(s, tag)
           q == k \o u
           t == s \o u
           n == Len(tag)
<1>1. /\ p \in Texts /\ k \in Texts /\ s = p \o k
      /\ Len(p) <= (Len(s) - n) + 1 \/ p = <<>>
  BY KeptIs
<1> HIDE DEF p, k
<1>2. t = p \o q
  <2>1. (p \o k) \o u = p \o (k \o u)
    BY <1>1, TextAssoc
  <2> QED
    BY <1>1, <2>1
<1>0. /\ Len(s) \in Nat /\ Len(u) \in Nat /\ Len(p) \in Nat /\ n \in Nat \ {0}
      /\ t \in Texts /\ Len(t) = Len(s) + Len(u)
      /\ \A i \in 1 .. Len(s) : t[i] = s[i]
  BY <1>1, TextConcat DEF Texts
<1> HIDE DEF q, t, n
<1>3. ASSUME NEW i \in At(t, tag) PROVE i > Len(p)
  <2> SUFFICES ASSUME ~ (i > Len(p)) PROVE FALSE
    OBVIOUS
  <2>1. i \in 1 .. (Len(t) - n) + 1 /\ Fits(t, tag, i)
    BY <1>0, AtWhere DEF n
  <2>2. Len(p) # 0
    BY <1>0, <2>1
  <2>3. Len(p) <= (Len(s) - n) + 1
    <3>1. p # <<>>
      BY <2>2
    <3> QED
      BY <1>1, <3>1
  <2>4. i \in 1 .. (Len(s) - n) + 1
    BY <1>0, <2>1, <2>3
  <2>5. \A j \in 1 .. n : t[(i - 1) + j] = s[(i - 1) + j]
    BY <1>0, <2>4
  <2>6. Fits(s, tag, i)
    BY <2>1, <2>5 DEF Fits, n
  <2>7. i \in At(s, tag)
    BY <2>4, <2>6, AtWhere DEF n
  <2> QED
    BY <2>7
<1> QED
  BY <1>2, <1>3 DEF p, q, k, t

\* An entry that is empty or known is not noted again.
LEMMA NotedIs ==
  ASSUME NEW entries \in Seq(Texts), NEW thought \in Texts
  PROVE  /\ Noted(entries, thought) \in Seq(Texts)
         /\ Range(Noted(entries, thought)) = Range(entries) \cup ({thought} \ {<<>>})
<1>1. CASE thought = <<>> \/ thought \in Range(entries)
  <2>1. Noted(entries, thought) = entries
    BY <1>1 DEF Noted
  <2> QED
    BY <1>1, <2>1
<1>2. CASE ~ (thought = <<>> \/ thought \in Range(entries))
  <2> DEFINE e == Append(entries, thought)
  <2>1. Noted(entries, thought) = e
    BY <1>2 DEF Noted
  <2>2. /\ e \in Seq(Texts) /\ Len(e) = Len(entries) + 1 /\ Len(entries) \in Nat
        /\ DOMAIN e = 1 .. Len(entries) + 1 /\ DOMAIN entries = 1 .. Len(entries)
        /\ \A i \in 1 .. Len(entries) : e[i] = entries[i]
        /\ e[Len(entries) + 1] = thought
    OBVIOUS
  <2> HIDE DEF e
  <2>3. Range(e) \subseteq Range(entries) \cup {thought}
    <3> SUFFICES ASSUME NEW i \in DOMAIN e PROVE e[i] \in Range(entries) \cup {thought}
      BY DEF Range
    <3>1. i \in DOMAIN entries \/ i = Len(entries) + 1
      BY <2>2
    <3> QED
      BY <2>2, <3>1 DEF Range
  <2>4. Range(entries) \subseteq Range(e)
    BY <2>2 DEF Range
  <2>5. thought \in Range(e)
    BY <2>2 DEF Range
  <2> QED
    BY <1>2, <2>1, <2>2, <2>3, <2>4, <2>5
<1> QED
  BY <1>1, <1>2

\* The awaited tag and the buffer are texts.
LEMMA AwaitedIs ==
  ASSUME NEW r \in Replies
  PROVE  /\ Awaited(r) \in Texts /\ Len(Awaited(r)) # 0
         /\ r.buffer \in Texts /\ Len(r.buffer) \in Nat
BY TagFacts DEF Awaited, Replies, Texts

\* Taking a tag from the buffer turns from answer to thought, or back.
LEMMA TakeTagIs ==
  ASSUME NEW r \in Replies, At(r.buffer, Awaited(r)) # {}
  PROVE  LET here == Until(r.buffer, Awaited(r))
             next == TakeTag(r)
         IN /\ here \in Texts
            /\ next \in Replies
            /\ next.thinking = ~r.thinking /\ next.called = r.called
            /\ next.buffer = After(r.buffer, Awaited(r))
            /\ Len(next.buffer) < Len(r.buffer)
            /\ r.thinking =>
                 /\ next.full = r.full /\ next.thought = r.thought \o here /\ next.step = <<>>
                 /\ Range(next.entries) = Range(r.entries) \cup ({r.step \o here} \ {<<>>})
            /\ ~r.thinking =>
                 /\ next.full = r.full \o here /\ next.thought = r.thought
                 /\ next.step = r.step /\ next.entries = r.entries
<1> DEFINE here == Until(r.buffer, Awaited(r))
           rest == After(r.buffer, Awaited(r))
<1>1. here \in Texts /\ rest \in Texts /\ Len(rest) < Len(r.buffer)
  BY AwaitedIs, AroundIs
<1> HIDE DEF here, rest
<1>2. CASE r.thinking
  <2> DEFINE step == r.step \o here
  <2>1. r.thought \o here \in Texts /\ step \in Texts /\ r.entries \in Seq(Texts) /\ <<>> \in Texts
    BY <1>1, TextConcat DEF Replies, Texts
  <2> HIDE DEF step
  <2>2. /\ Noted(r.entries, step) \in Seq(Texts)
        /\ Range(Noted(r.entries, step)) = Range(r.entries) \cup ({step} \ {<<>>})
    BY <2>1, NotedIs
  <2>3. TakeTag(r) = [r EXCEPT !.thought = r.thought \o here, !.step = <<>>,
                               !.entries = Noted(r.entries, step),
                               !.thinking = FALSE, !.buffer = rest]
    BY <1>2 DEF TakeTag, EndStep, Think, Replies, here, rest, step
  <2> QED
    BY <1>1, <1>2, <2>1, <2>2, <2>3 DEF Replies, Texts, here, rest, step
<1>3. CASE ~r.thinking
  <2>1. r.full \o here \in Texts
    BY <1>1, TextConcat DEF Replies, Texts
  <2>2. TakeTag(r) = [r EXCEPT !.full = r.full \o here, !.thinking = TRUE, !.buffer = rest]
    BY <1>3 DEF TakeTag, Answer, Replies, here, rest
  <2> QED
    BY <1>1, <1>3, <2>1, <2>2 DEF Replies, Texts, here, rest
<1> QED
  BY <1>2, <1>3 DEF Replies

\* Passing on leaves what may become a tag in the buffer.
LEMMA PassOnIs ==
  ASSUME NEW r \in Replies
  PROVE  LET sent == Sent(r.buffer, Awaited(r))
             next == PassOn(r)
         IN /\ sent \in Texts
            /\ next \in Replies
            /\ next.thinking = r.thinking /\ next.called = r.called
            /\ next.entries = r.entries
            /\ next.buffer = Kept(r.buffer, Awaited(r))
            /\ r.thinking => /\ next.full = r.full /\ next.thought = r.thought \o sent
                             /\ next.step = r.step \o sent
            /\ ~r.thinking => /\ next.full = r.full \o sent /\ next.thought = r.thought
                              /\ next.step = r.step
<1> DEFINE sent == Sent(r.buffer, Awaited(r))
           kept == Kept(r.buffer, Awaited(r))
<1>1. sent \in Texts /\ kept \in Texts
  BY AwaitedIs, KeptIs
<1> HIDE DEF sent, kept
<1>2. CASE r.thinking
  <2>1. r.thought \o sent \in Texts /\ r.step \o sent \in Texts
    BY <1>1, TextConcat DEF Replies, Texts
  <2>2. PassOn(r) = [r EXCEPT !.thought = r.thought \o sent, !.step = r.step \o sent,
                              !.buffer = kept]
    BY <1>2 DEF PassOn, Think, Replies, sent, kept
  <2> QED
    BY <1>1, <1>2, <2>1, <2>2 DEF Replies, Texts, sent, kept
<1>3. CASE ~r.thinking
  <2>1. r.full \o sent \in Texts
    BY <1>1, TextConcat DEF Replies, Texts
  <2>2. PassOn(r) = [r EXCEPT !.full = r.full \o sent, !.buffer = kept]
    BY <1>3 DEF PassOn, Answer, Replies, sent, kept
  <2> QED
    BY <1>1, <1>3, <2>1, <2>2 DEF Replies, Texts, sent, kept
<1> QED
  BY <1>2, <1>3 DEF Replies

\* The recursion that takes one tag after the other is well founded.
LEMMA ProcessIs ==
  ASSUME NEW r \in Replies
  PROVE  Process[r] = IF At(r.buffer, Awaited(r)) = {} THEN PassOn(r) ELSE Process[TakeTag(r)]
<1> DEFINE D == {q \in Replies : At(q.buffer, Awaited(q)) # {}}
           m == [q \in Replies |-> Len(q.buffer)]
           next == [q \in D |-> TakeTag(q)]
           base == [q \in Replies |-> PassOn(q)]
           comb == [q \in Replies |-> [v \in Replies |-> v]]
           Body(f) == [q \in Replies |-> IF At(q.buffer, Awaited(q)) = {} THEN PassOn(q)
                                         ELSE f[TakeTag(q)]]
<1>1. m \in [Replies -> Nat]
  BY AwaitedIs
<1>2. next \in [D -> Replies] /\ \A q \in D : m[next[q]] < m[q]
  BY TakeTagIs
<1>3. base \in [Replies -> Replies]
  BY PassOnIs
<1>4. comb \in [Replies -> [Replies -> Replies]]
  OBVIOUS
<1>5. D \subseteq Replies
  OBVIOUS
<1>6. /\ \A q \in D : next[q] = TakeTag(q) /\ next[q] \in Replies
      /\ \A q \in Replies : base[q] = PassOn(q)
      /\ \A q \in Replies : \A v \in Replies : comb[q][v] = v
      /\ \A q \in Replies : q \in D <=> At(q.buffer, Awaited(q)) # {}
  BY <1>2
<1> HIDE DEF m, next, base, comb, D
<1>7. PICK f \in [Replies -> Replies] :
        \A q \in Replies : f[q] = IF q \in D THEN comb[q][f[next[q]]] ELSE base[q]
  <2>1. Founded(Replies, Replies, m, D, next, base, comb)
    BY <1>1, <1>2, <1>3, <1>4, <1>5 DEF Founded
  <2> QED
    BY <2>1, RecursionExists
<1>8. f = Body(f)
  <2>1. ASSUME NEW q \in Replies PROVE f[q] = Body(f)[q]
    <3>1. CASE q \in D
      <4>1. f[q] = comb[q][f[next[q]]] /\ next[q] = TakeTag(q) /\ f[TakeTag(q)] \in Replies
        BY <1>6, <1>7, <3>1
      <4>2. Body(f)[q] = f[TakeTag(q)]
        BY <1>6, <3>1
      <4> HIDE DEF Body
      <4> QED
        BY <1>6, <4>1, <4>2
    <3>2. CASE q \notin D
      BY <1>6, <1>7, <3>2
    <3> QED
      BY <3>1, <3>2
  <2> QED
    BY <1>7, <2>1
<1>9. Process = Body(Process)
  <2> HIDE DEF Body
  <2>1. \E g : g = Body(g)
    BY <1>8
  <2>2. Process = CHOOSE g : g = Body(g)
    BY Zenon DEF Process, Body
  <2> QED
    BY <2>1, <2>2, Zenon
<1> QED
  BY <1>9

\* What a text says, what it thinks, and whether it ends in a thought.
Divisions == [answer: Texts, thoughts: Seq(Texts), open: BOOLEAN]

\* The answer, or the thoughts, with something before them.
LEMMA PutBefore ==
  ASSUME NEW w \in Divisions, NEW u
  PROVE  /\ [w EXCEPT !.answer = u \o @] =
              [answer |-> u \o w.answer, thoughts |-> w.thoughts, open |-> w.open]
         /\ [w EXCEPT !.thoughts = u \o @] =
              [answer |-> w.answer, thoughts |-> u \o w.thoughts, open |-> w.open]
<1>1. PICK a \in Texts, t \in Seq(Texts), o \in BOOLEAN :
        w = [answer |-> a, thoughts |-> t, open |-> o]
  BY DEF Divisions
<1>2. /\ \A x : [w EXCEPT !.answer = x] = [answer |-> x, thoughts |-> t, open |-> o]
      /\ \A x : [w EXCEPT !.thoughts = x] = [answer |-> a, thoughts |-> x, open |-> o]
  BY <1>1
<1>3. w.answer = a /\ w.thoughts = t /\ w.open = o
  BY <1>1
<1> QED
  BY <1>2, <1>3

\* The recursion that divides a text is well founded.
LEMMA DivisionIs ==
  /\ Division \in [Texts -> Divisions]
  /\ \A s \in Texts :
       Division[s] = IF At(s, ThinkStart) = {}
                     THEN [answer |-> s, thoughts |-> <<>>, open |-> FALSE]
                     ELSE [FromThought(After(s, ThinkStart), Division)
                             EXCEPT !.answer = Until(s, ThinkStart) \o @]
<1> DEFINE D == {s \in Texts : /\ At(s, ThinkStart) # {}
                               /\ At(After(s, ThinkStart), ThinkEnd) # {}}
           m == [s \in Texts |-> Len(s)]
           Beyond(s) == After(After(s, ThinkStart), ThinkEnd)
           Base(s) == IF At(s, ThinkStart) = {}
                      THEN [answer |-> s, thoughts |-> <<>>, open |-> FALSE]
                      ELSE [answer |-> Until(s, ThinkStart) \o <<>>,
                            thoughts |-> <<After(s, ThinkStart)>>, open |-> TRUE]
           Comb(s, v) == [answer   |-> Until(s, ThinkStart) \o v.answer,
                          thoughts |-> <<Until(After(s, ThinkStart), ThinkEnd)>> \o v.thoughts,
                          open     |-> v.open]
           next == [s \in D |-> Beyond(s)]
           base == [s \in Texts |-> IF s \in D THEN [answer |-> s, thoughts |-> <<>>, open |-> FALSE]
                                    ELSE Base(s)]
           comb == [s \in Texts |-> [v \in Divisions |-> IF s \in D THEN Comb(s, v) ELSE v]]
           Divided(f, s) == IF At(s, ThinkStart) = {}
                            THEN [answer |-> s, thoughts |-> <<>>, open |-> FALSE]
                            ELSE [FromThought(After(s, ThinkStart), f)
                                    EXCEPT !.answer = Until(s, ThinkStart) \o @]
           Body(f) == [s \in Texts |-> Divided(f, s)]
<1>1. ASSUME NEW s \in Texts, At(s, ThinkStart) # {}
      PROVE  /\ Until(s, ThinkStart) \in Texts /\ After(s, ThinkStart) \in Texts
             /\ Len(After(s, ThinkStart)) < Len(s)
  BY <1>1, TagFacts, AroundIs
<1>2. ASSUME NEW s \in D
      PROVE  /\ s \in Texts /\ Until(After(s, ThinkStart), ThinkEnd) \in Texts
             /\ Until(s, ThinkStart) \in Texts
             /\ Beyond(s) \in Texts /\ Len(Beyond(s)) < Len(s)
  <2>1. /\ Until(s, ThinkStart) \in Texts /\ After(s, ThinkStart) \in Texts
        /\ Len(After(s, ThinkStart)) < Len(s)
    BY <1>1
  <2>2. /\ Until(After(s, ThinkStart), ThinkEnd) \in Texts /\ Beyond(s) \in Texts
        /\ Len(Beyond(s)) < Len(After(s, ThinkStart))
    BY <2>1, TagFacts, AroundIs
  <2>3. Len(s) \in Nat /\ Len(Beyond(s)) \in Nat /\ Len(After(s, ThinkStart)) \in Nat
    BY <2>1, <2>2 DEF Texts
  <2> QED
    BY <2>1, <2>2, <2>3
<1>3. m \in [Texts -> Nat] /\ \A s \in Texts : m[s] = Len(s)
  BY DEF Texts
<1>4. /\ next \in [D -> Texts] /\ D \subseteq Texts /\ \A s \in D : next[s] = Beyond(s)
      /\ \A s \in D : m[next[s]] < m[s]
  <2> HIDE DEF D, m, Beyond
  <2>1. \A s \in D : s \in Texts /\ Beyond(s) \in Texts /\ Len(Beyond(s)) < Len(s)
    BY <1>2
  <2> QED
    BY <1>3, <2>1
<1>5. base \in [Texts -> Divisions]
  <2> SUFFICES ASSUME NEW s \in Texts, s \notin D PROVE Base(s) \in Divisions
    BY DEF Divisions, Texts
  <2>1. CASE At(s, ThinkStart) = {}
    BY <2>1 DEF Divisions, Texts
  <2>2. CASE At(s, ThinkStart) # {}
    <3>1. Until(s, ThinkStart) \o <<>> \in Texts /\ After(s, ThinkStart) \in Texts
      <4>1. <<>> \in Texts
        BY DEF Texts
      <4> QED
        BY <1>1, <2>2, <4>1, TextConcat
    <3>2. <<After(s, ThinkStart)>> \in Seq(Texts)
      BY <3>1
    <3> QED
      BY <2>2, <3>1, <3>2 DEF Divisions
  <2> QED
    BY <2>1, <2>2
<1>6. ASSUME NEW s \in D, NEW v \in Divisions PROVE Comb(s, v) \in Divisions
  <2>1. v.answer \in Texts /\ v.thoughts \in Seq(Texts) /\ v.open \in BOOLEAN
    BY DEF Divisions
  <2>2. Until(s, ThinkStart) \o v.answer \in Texts
    BY <1>2, <2>1, TextConcat
  <2>3. <<Until(After(s, ThinkStart), ThinkEnd)>> \o v.thoughts \in Seq(Texts)
    BY <1>2, <2>1
  <2> QED
    BY <2>1, <2>2, <2>3 DEF Divisions
<1>7. /\ comb \in [Texts -> [Divisions -> Divisions]]
      /\ \A s \in D : \A v \in Divisions : comb[s][v] = Comb(s, v)
  <2> HIDE DEF D, Comb
  <2>1. D \subseteq Texts
    BY <1>4
  <2> QED
    BY <1>6, <2>1
<1>8. \A s \in Texts : s \notin D => base[s] = Base(s)
  OBVIOUS
<1>9. Founded(Texts, Divisions, m, D, next, base, comb)
  <2> HIDE DEF m, D, next, base, comb
  <2> QED
    BY <1>3, <1>4, <1>5, <1>7 DEF Founded
<1>10. PICK f \in [Texts -> Divisions] :
         \A s \in Texts : f[s] = IF s \in D THEN comb[s][f[next[s]]] ELSE base[s]
  <2> HIDE DEF m, D, next, base, comb
  <2> QED
    BY <1>9, RecursionExists
<1>11. ASSUME NEW g, NEW s \in Texts, s \in D => g[Beyond(s)] \in Divisions
       PROVE  Divided(g, s) = IF s \in D THEN Comb(s, g[Beyond(s)]) ELSE Base(s)
  <2> DEFINE w == FromThought(After(s, ThinkStart), g)
  <2>1. CASE At(s, ThinkStart) = {}
    BY <2>1
  <2>2. CASE At(s, ThinkStart) # {} /\ s \notin D
    <3>1. w = [answer |-> <<>>, thoughts |-> <<After(s, ThinkStart)>>, open |-> TRUE]
      BY <2>2 DEF FromThought
    <3>2. After(s, ThinkStart) \in Texts
      BY <1>1, <2>2
    <3>3. w \in Divisions
      BY <3>1, <3>2 DEF Divisions, Texts
    <3>4. Divided(g, s) = [w EXCEPT !.answer = Until(s, ThinkStart) \o @]
      BY <2>2
    <3> HIDE DEF w, Divided
    <3>5. Divided(g, s) = [answer |-> Until(s, ThinkStart) \o w.answer,
                           thoughts |-> w.thoughts, open |-> w.open]
      BY <3>3, <3>4, PutBefore
    <3> QED
      BY <2>2, <3>1, <3>5
  <2>3. CASE s \in D
    <3> DEFINE v == g[Beyond(s)]
               h == <<Until(After(s, ThinkStart), ThinkEnd)>>
    <3>1. v \in Divisions
      BY <1>11, <2>3
    <3>2. w = [v EXCEPT !.thoughts = h \o @]
      BY <2>3 DEF FromThought
    <3>3. Divided(g, s) = [w EXCEPT !.answer = Until(s, ThinkStart) \o @]
      BY <2>3
    <3>4. Comb(s, v) = [answer |-> Until(s, ThinkStart) \o v.answer,
                        thoughts |-> h \o v.thoughts, open |-> v.open]
      OBVIOUS
    <3>5. h \in Seq(Texts)
      BY <1>2, <2>3
    <3> HIDE DEF v, h, w, Divided, Comb
    <3>6. w = [answer |-> v.answer, thoughts |-> h \o v.thoughts, open |-> v.open]
      BY <3>1, <3>2, PutBefore
    <3>7. w \in Divisions
      BY <3>1, <3>5, <3>6 DEF Divisions
    <3>8. Divided(g, s) = [answer |-> Until(s, ThinkStart) \o w.answer,
                           thoughts |-> w.thoughts, open |-> w.open]
      BY <3>3, <3>7, PutBefore
    <3>9. Divided(g, s) = Comb(s, v)
      BY <3>4, <3>6, <3>8
    <3> QED
      BY <2>3, <3>9 DEF v
  <2> QED
    BY <2>1, <2>2, <2>3
<1>12. f = Body(f)
  <2>1. ASSUME NEW s \in Texts PROVE f[s] = Divided(f, s)
    <3> HIDE DEF D, next, base, comb, Divided, Base, Comb, Beyond
    <3>1. CASE s \in D
      <4>1. next[s] = Beyond(s) /\ f[Beyond(s)] \in Divisions /\ f[s] = comb[s][f[next[s]]]
        BY <1>4, <1>10, <3>1
      <4>2. comb[s][f[Beyond(s)]] = Comb(s, f[Beyond(s)])
        BY <1>7, <3>1, <4>1
      <4> QED
        BY <1>11, <3>1, <4>1, <4>2
    <3>2. CASE s \notin D
      BY <1>8, <1>10, <1>11, <3>2
    <3> QED
      BY <3>1, <3>2
  <2> HIDE DEF Divided
  <2>2. \A s \in Texts : f[s] = Body(f)[s]
    BY <2>1
  <2> QED
    BY <1>10, <2>2
<1>13. Division = Body(Division)
  <2> HIDE DEF Body
  <2>1. \E g : g = Body(g)
    BY <1>12
  <2>2. Division = CHOOSE g : g = Body(g)
    BY Zenon DEF Division, Body, Texts
  <2> QED
    BY <2>1, <2>2, Zenon
<1>14. \A s \in Texts : Division[s] = Divided(Division, s)
  <2> HIDE DEF Divided
  <2> QED
    BY <1>13
<1>15. Division \in [Texts -> Divisions]
  <2> DEFINE S == {s \in Texts : Division[s] \in Divisions}
  <2>1. ASSUME NEW s \in Texts, \A t \in Texts : m[t] < m[s] => t \in S PROVE s \in S
    <3>1. s \in D => Division[Beyond(s)] \in Divisions
      <4> HIDE DEF m, Beyond, D
      <4>1. s \in D => Beyond(s) \in Texts /\ m[Beyond(s)] < m[s]
        BY <1>3, <1>2
      <4> QED
        BY <2>1, <4>1
    <3> HIDE DEF Divided, Base, D, base, Comb, Beyond
    <3>2. Division[s] = IF s \in D THEN Comb(s, Division[Beyond(s)]) ELSE Base(s)
      BY <1>11, <1>14, <3>1
    <3>3. s \notin D => Base(s) \in Divisions
      BY <1>5, <1>8
    <3> QED
      BY <1>6, <3>1, <3>2, <3>3
  <2>2. Texts \subseteq S
    <3> HIDE DEF S, m
    <3> QED
      BY <1>3, <2>1, AllSmaller
  <2>3. Division = [s \in Texts |-> Division[s]]
    <3> HIDE DEF Divided
    <3> QED
      BY <1>13
  <2> QED
    BY <2>2, <2>3
<1> QED
  BY <1>14, <1>15

\* What is said and what is thought, one tag after the other.
LEMMA WholeIs ==
  ASSUME NEW s \in Texts
  PROVE  /\ \A b \in BOOLEAN : Whole(s, b) \in Divisions
         /\ At(s, ThinkStart) = {} =>
              Whole(s, FALSE) = [answer |-> s, thoughts |-> <<>>, open |-> FALSE]
         /\ At(s, ThinkStart) # {} =>
              LET w == Whole(After(s, ThinkStart), TRUE) IN
              Whole(s, FALSE) = [answer |-> Until(s, ThinkStart) \o w.answer,
                                 thoughts |-> w.thoughts, open |-> w.open]
         /\ At(s, ThinkEnd) = {} =>
              Whole(s, TRUE) = [answer |-> <<>>, thoughts |-> <<s>>, open |-> TRUE]
         /\ At(s, ThinkEnd) # {} =>
              LET w == Whole(After(s, ThinkEnd), FALSE) IN
              Whole(s, TRUE) = [answer |-> w.answer, thoughts |-> <<Until(s, ThinkEnd)>> \o w.thoughts,
                                open |-> w.open]
<1>1. ASSUME NEW t \in Texts, NEW tag \in Tags, At(t, tag) # {}
      PROVE  Until(t, tag) \in Texts /\ After(t, tag) \in Texts
  BY <1>1, TagFacts, AroundIs
<1>2. \A t \in Texts : FromThought(t, Division) \in Divisions
  <2> SUFFICES ASSUME NEW t \in Texts PROVE FromThought(t, Division) \in Divisions
    OBVIOUS
  <2>1. CASE At(t, ThinkEnd) = {}
    BY <2>1 DEF FromThought, Divisions, Texts
  <2>2. CASE At(t, ThinkEnd) # {}
    <3> DEFINE v == Division[After(t, ThinkEnd)]
               h == <<Until(t, ThinkEnd)>>
    <3>1. v \in Divisions /\ h \in Seq(Texts)
      BY <1>1, <2>2, TagFacts, DivisionIs
    <3>2. FromThought(t, Division) = [v EXCEPT !.thoughts = h \o @]
      BY <2>2 DEF FromThought
    <3> HIDE DEF v, h
    <3>3. FromThought(t, Division) =
            [answer |-> v.answer, thoughts |-> h \o v.thoughts, open |-> v.open]
      BY <3>1, <3>2, PutBefore
    <3> QED
      BY <3>1, <3>3 DEF Divisions
  <2> QED
    BY <2>1, <2>2
<1>3. \A t \in Texts : \A b \in BOOLEAN : Whole(t, b) \in Divisions
  BY <1>2, DivisionIs DEF Whole
<1>4. ASSUME At(s, ThinkStart) # {}
      PROVE  LET w == Whole(After(s, ThinkStart), TRUE) IN
             Whole(s, FALSE) = [answer |-> Until(s, ThinkStart) \o w.answer,
                                thoughts |-> w.thoughts, open |-> w.open]
  <2> DEFINE w == Whole(After(s, ThinkStart), TRUE)
  <2>1. w \in Divisions
    BY <1>1, <1>3, <1>4, TagFacts
  <2>2. Whole(s, FALSE) = [w EXCEPT !.answer = Until(s, ThinkStart) \o @]
    BY <1>4, DivisionIs DEF Whole
  <2> HIDE DEF w
  <2>3. Whole(s, FALSE) = [answer |-> Until(s, ThinkStart) \o w.answer,
                           thoughts |-> w.thoughts, open |-> w.open]
    BY <2>1, <2>2, PutBefore
  <2> QED
    BY <2>3 DEF w
<1>5. ASSUME At(s, ThinkEnd) # {}
      PROVE  LET w == Whole(After(s, ThinkEnd), FALSE) IN
             Whole(s, TRUE) = [answer |-> w.answer, thoughts |-> <<Until(s, ThinkEnd)>> \o w.thoughts,
                                open |-> w.open]
  <2> DEFINE w == Whole(After(s, ThinkEnd), FALSE)
  <2>1. w \in Divisions
    BY <1>1, <1>3, <1>5, TagFacts
  <2>2. Whole(s, TRUE) = [w EXCEPT !.thoughts = <<Until(s, ThinkEnd)>> \o @]
    BY <1>5 DEF Whole, FromThought
  <2> HIDE DEF w
  <2>3. Whole(s, TRUE) = [answer |-> w.answer, thoughts |-> <<Until(s, ThinkEnd)>> \o w.thoughts,
                          open |-> w.open]
    BY <2>1, <2>2, PutBefore
  <2> QED
    BY <2>3 DEF w
<1>6. /\ At(s, ThinkStart) = {} =>
           Whole(s, FALSE) = [answer |-> s, thoughts |-> <<>>, open |-> FALSE]
      /\ At(s, ThinkEnd) = {} =>
           Whole(s, TRUE) = [answer |-> <<>>, thoughts |-> <<s>>, open |-> TRUE]
  BY DivisionIs DEF Whole, FromThought
<1> QED
  BY <1>3, <1>4, <1>5, <1>6

\* The tag that ends what is going on.
TagFor(b) == IF b THEN ThinkEnd ELSE ThinkStart

\* A thought that had begun goes on with the first of the thoughts.
Joined(step, ts) == [ts EXCEPT ![1] = step \o ts[1]]

\* It is a tag.
LEMMA TagForIs ==
  ASSUME NEW b \in BOOLEAN
  PROVE  TagFor(b) \in Texts /\ Len(TagFor(b)) # 0
BY TagFacts DEF TagFor

\* Only the first thought is touched.
LEMMA JoinedIs ==
  ASSUME NEW step \in Texts, NEW h \in Texts, NEW t \in Seq(Texts)
  PROVE  /\ <<h>> \o t \in Seq(Texts)
         /\ Joined(step, <<h>> \o t) = <<step \o h>> \o t
<1> DEFINE s == <<h>> \o t
           x == step \o h
           v == <<x>> \o t
<1>1. /\ s \in Seq(Texts) /\ Len(s) = 1 + Len(t) /\ Len(t) \in Nat /\ s[1] = h
      /\ \A i \in 1 .. Len(t) : s[1 + i] = t[i]
  <2>1. <<h>> \in Seq(Texts) /\ Len(<<h>>) = 1 /\ <<h>>[1] = h
    OBVIOUS
  <2> QED
    BY <2>1
<1>2. x \in Texts
  BY TextConcat
<1> HIDE DEF x
<1>3. /\ v \in Seq(Texts) /\ Len(v) = 1 + Len(t) /\ v[1] = x
      /\ \A i \in 1 .. Len(t) : v[1 + i] = t[i]
  <2>1. <<x>> \in Seq(Texts) /\ Len(<<x>>) = 1 /\ <<x>>[1] = x
    BY <1>2
  <2> QED
    BY <2>1
<1>4. Joined(step, s) = [s EXCEPT ![1] = x]
  BY <1>1 DEF Joined, x
<1> HIDE DEF s, v
<1> DEFINE e == [s EXCEPT ![1] = x]
<1>5. /\ e \in Seq(Texts) /\ Len(e) = 1 + Len(t) /\ e[1] = x
      /\ \A i \in 1 .. Len(t) : e[1 + i] = t[i]
  BY <1>1, <1>2
<1> HIDE DEF e
<1>6. ASSUME NEW i \in 1 .. Len(e) PROVE e[i] = v[i]
  <2>1. CASE i = 1
    BY <1>3, <1>5, <2>1
  <2>2. CASE i # 1
    <3> DEFINE k == i - 1
    <3>1. k \in 1 .. Len(t) /\ 1 + k = i
      BY <1>1, <1>5, <2>2
    <3> HIDE DEF k
    <3>2. e[1 + k] = v[1 + k]
      BY <1>3, <1>5, <3>1
    <3> QED
      BY <3>1, <3>2
  <2> QED
    BY <2>1, <2>2
<1>7. e = v
  BY <1>3, <1>5, <1>6, SeqEqual
<1> QED
  BY <1>1, <1>4, <1>7 DEF s, e, v, x

\* The rest of a text, from its first tag on, whatever comes after it.
LEMMA WholeMore ==
  ASSUME NEW s \in Texts, NEW u \in Texts, NEW b \in BOOLEAN, At(s, TagFor(b)) # {}
  PROVE  LET w == Whole(s \o u, b)
             v == Whole(After(s, TagFor(b)) \o u, ~b)
             here == Until(s, TagFor(b))
         IN /\ v \in Divisions /\ here \in Texts /\ After(s, TagFor(b)) \o u \in Texts
            /\ w.open = v.open
            /\ w.answer = IF b THEN v.answer ELSE here \o v.answer
            /\ w.thoughts = IF b THEN <<here>> \o v.thoughts ELSE v.thoughts
<1> DEFINE here == Until(s, TagFor(b))
           rest == After(s, TagFor(b)) \o u
           t == s \o u
<1>1. here \in Texts /\ rest \in Texts /\ t \in Texts
  BY TagForIs, AroundIs, TextConcat
<1>2. At(t, TagFor(b)) # {} /\ Until(t, TagFor(b)) = here /\ After(t, TagFor(b)) = rest
  BY TagForIs, MoreAfter
<1> HIDE DEF here, rest, t
<1>3. Whole(rest, ~b) \in Divisions
  BY <1>1, WholeIs
<1>4. CASE b
  <2>1. Whole(t, TRUE) = [answer |-> Whole(rest, FALSE).answer,
                          thoughts |-> <<here>> \o Whole(rest, FALSE).thoughts,
                          open |-> Whole(rest, FALSE).open]
    BY <1>1, <1>2, <1>4, WholeIs DEF TagFor
  <2> DEFINE w == Whole(t, b)
             v == Whole(rest, ~b)
  <2>2. w = Whole(t, TRUE) /\ v = Whole(rest, FALSE)
    <3>1. b = TRUE /\ (~b) = FALSE
      BY <1>4
    <3> QED
      BY <3>1, Zenon
  <2>3. v \in Divisions
    BY <1>3
  <2> HIDE DEF w, v
  <2>4. w.open = v.open /\ w.answer = v.answer /\ w.thoughts = <<here>> \o v.thoughts
    <3>1. w = [answer |-> v.answer, thoughts |-> <<here>> \o v.thoughts, open |-> v.open]
      BY <2>1, <2>2, Zenon
    <3> QED
      BY <3>1
  <2> QED
    BY <1>1, <1>4, <2>3, <2>4 DEF w, v, here, rest, t
<1>5. CASE ~b
  <2>1. Whole(t, FALSE) = [answer |-> here \o Whole(rest, TRUE).answer,
                           thoughts |-> Whole(rest, TRUE).thoughts, open |-> Whole(rest, TRUE).open]
    BY <1>1, <1>2, <1>5, WholeIs DEF TagFor
  <2> DEFINE w == Whole(t, b)
             v == Whole(rest, ~b)
  <2>2. w = Whole(t, FALSE) /\ v = Whole(rest, TRUE)
    <3>1. b = FALSE /\ (~b) = TRUE
      BY <1>5
    <3> QED
      BY <3>1, Zenon
  <2>3. v \in Divisions
    BY <1>3
  <2> HIDE DEF w, v
  <2>4. w.open = v.open /\ w.answer = here \o v.answer /\ w.thoughts = v.thoughts
    <3>1. w = [answer |-> here \o v.answer, thoughts |-> v.thoughts, open |-> v.open]
      BY <2>1, <2>2, Zenon
    <3> QED
      BY <3>1
  <2> QED
    BY <1>1, <1>5, <2>3, <2>4 DEF w, v, here, rest, t
<1> QED
  BY <1>4, <1>5

\* Text in which no tag begins belongs to what is said or thought first.
LEMMA WholeSkip ==
  ASSUME NEW p \in Texts, NEW q \in Texts, NEW b \in BOOLEAN,
         \A i \in At(p \o q, TagFor(b)) : i > Len(p)
  PROVE  LET w == Whole(p \o q, b)
             v == Whole(q, b)
         IN /\ v \in Divisions
            /\ w.open = v.open
            /\ w.answer = IF b THEN v.answer ELSE p \o v.answer
            /\ w.thoughts = IF b THEN Joined(p, v.thoughts) ELSE v.thoughts
<1> DEFINE t == p \o q
<1>1. t \in Texts /\ <<>> \in Texts /\ <<>> \in Seq(Texts)
  BY TextConcat DEF Texts
<1>2. /\ At(t, TagFor(b)) = {} <=> At(q, TagFor(b)) = {}
      /\ At(q, TagFor(b)) # {} => /\ Until(t, TagFor(b)) = p \o Until(q, TagFor(b))
                                  /\ After(t, TagFor(b)) = After(q, TagFor(b))
  BY TagForIs, SkipBefore
<1>3. Whole(q, b) \in Divisions
  BY WholeIs
<1>4. CASE At(q, TagFor(b)) = {}
  <2> HIDE DEF t
  <2>1. CASE b
    <3>1. /\ Whole(q, TRUE) = [answer |-> <<>>, thoughts |-> <<q>>, open |-> TRUE]
          /\ Whole(t, TRUE) = [answer |-> <<>>, thoughts |-> <<t>>, open |-> TRUE]
      BY <1>1, <1>2, <1>4, <2>1, WholeIs DEF TagFor
    <3>2. Joined(p, <<q>>) = <<t>>
      <4>1. Joined(p, <<q>> \o <<>>) = <<p \o q>> \o <<>>
        BY <1>1, JoinedIs, Zenon
      <4>2. <<q>> \o <<>> = <<q>> /\ <<p \o q>> \o <<>> = <<p \o q>>
        <5>1. <<q>> \in Seq(Texts) /\ <<p \o q>> \in Seq(Texts)
          BY <1>1 DEF t
        <5> QED
          BY <5>1, ConcatEmpty
      <4> QED
        BY <4>1, <4>2 DEF t
    <3> DEFINE w == Whole(t, b)
               v == Whole(q, b)
    <3>7. w = Whole(t, TRUE) /\ v = Whole(q, TRUE)
      <4>1. b = TRUE
        BY <2>1
      <4> QED
        BY <4>1, Zenon
    <3>8. v \in Divisions
      BY <1>3
    <3> HIDE DEF w, v
    <3>9. w.open = v.open /\ w.answer = v.answer /\ w.thoughts = Joined(p, v.thoughts)
      <4>1. /\ w = [answer |-> <<>>, thoughts |-> <<t>>, open |-> TRUE]
            /\ v = [answer |-> <<>>, thoughts |-> <<q>>, open |-> TRUE]
        BY <3>1, <3>7, Zenon
      <4> QED
        BY <3>2, <4>1
    <3> QED
      BY <2>1, <3>8, <3>9 DEF w, v, t
  <2>2. CASE ~b
    <3>1. /\ Whole(q, FALSE) = [answer |-> q, thoughts |-> <<>>, open |-> FALSE]
          /\ Whole(t, FALSE) = [answer |-> t, thoughts |-> <<>>, open |-> FALSE]
      BY <1>1, <1>2, <1>4, <2>2, WholeIs DEF TagFor
    <3> DEFINE w == Whole(t, b)
               v == Whole(q, b)
    <3>7. w = Whole(t, FALSE) /\ v = Whole(q, FALSE)
      <4>1. b = FALSE
        BY <2>2
      <4> QED
        BY <4>1, Zenon
    <3>8. v \in Divisions
      BY <1>3
    <3> HIDE DEF w, v
    <3>9. w.open = v.open /\ w.answer = p \o v.answer /\ w.thoughts = v.thoughts
      <4>1. /\ w = [answer |-> t, thoughts |-> <<>>, open |-> FALSE]
            /\ v = [answer |-> q, thoughts |-> <<>>, open |-> FALSE]
        BY <3>1, <3>7, Zenon
      <4> QED
        BY <4>1 DEF t
    <3> QED
      BY <2>2, <3>8, <3>9 DEF w, v, t
  <2> QED
    BY <2>1, <2>2
<1>5. CASE At(q, TagFor(b)) # {}
  <2> DEFINE here == Until(q, TagFor(b))
             rest == After(q, TagFor(b))
  <2>1. here \in Texts /\ rest \in Texts
    BY <1>5, TagForIs, AroundIs
  <2>2. At(t, TagFor(b)) # {} /\ Until(t, TagFor(b)) = p \o here /\ After(t, TagFor(b)) = rest
    BY <1>2, <1>5
  <2>3. Whole(rest, ~b) \in Divisions
    BY <2>1, WholeIs
  <2> HIDE DEF here, rest, t
  <2>4. CASE b
    <3> DEFINE d == Whole(rest, FALSE)
    <3>1. /\ Whole(q, TRUE) = [answer |-> d.answer, thoughts |-> <<here>> \o d.thoughts,
                               open |-> d.open]
          /\ Whole(t, TRUE) = [answer |-> d.answer, thoughts |-> <<p \o here>> \o d.thoughts,
                               open |-> d.open]
      BY <1>1, <1>5, <2>2, <2>4, WholeIs DEF TagFor, here, rest
    <3>2. d.thoughts \in Seq(Texts)
      BY <2>3, <2>4 DEF Divisions
    <3> HIDE DEF d
    <3>3. Joined(p, <<here>> \o d.thoughts) = <<p \o here>> \o d.thoughts
      BY <2>1, <3>2, JoinedIs, Zenon
    <3> DEFINE w == Whole(t, b)
               v == Whole(q, b)
    <3>7. w = Whole(t, TRUE) /\ v = Whole(q, TRUE)
      <4>1. b = TRUE
        BY <2>4
      <4> QED
        BY <4>1, Zenon
    <3>8. v \in Divisions
      BY <1>3
    <3> HIDE DEF w, v
    <3>9. w.open = v.open /\ w.answer = v.answer /\ w.thoughts = Joined(p, v.thoughts)
      <4>1. /\ w = [answer |-> d.answer, thoughts |-> <<p \o here>> \o d.thoughts, open |-> d.open]
            /\ v = [answer |-> d.answer, thoughts |-> <<here>> \o d.thoughts, open |-> d.open]
        BY <3>1, <3>7, Zenon
      <4> QED
        BY <3>3, <4>1
    <3> QED
      BY <2>4, <3>8, <3>9 DEF w, v, t
  <2>5. CASE ~b
    <3> DEFINE d == Whole(rest, TRUE)
    <3>1. /\ Whole(q, FALSE) = [answer |-> here \o d.answer, thoughts |-> d.thoughts,
                                open |-> d.open]
          /\ Whole(t, FALSE) = [answer |-> (p \o here) \o d.answer, thoughts |-> d.thoughts,
                                open |-> d.open]
      BY <1>1, <1>5, <2>2, <2>5, WholeIs DEF TagFor, here, rest
    <3>2. d.answer \in Texts
      BY <2>3, <2>5 DEF Divisions
    <3> HIDE DEF d
    <3>3. (p \o here) \o d.answer = p \o (here \o d.answer)
      <4> DEFINE e == d.answer
      <4>1. p \in Seq(Symbols) /\ here \in Seq(Symbols) /\ e \in Seq(Symbols)
        BY <2>1, <3>2 DEF Texts
      <4> HIDE DEF e
      <4>2. (p \o here) \o e = p \o (here \o e)
        BY <4>1, ConcatAssoc
      <4> QED
        BY <4>2 DEF e
    <3> DEFINE w == Whole(t, b)
               v == Whole(q, b)
    <3>7. w = Whole(t, FALSE) /\ v = Whole(q, FALSE)
      <4>1. b = FALSE
        BY <2>5
      <4> QED
        BY <4>1, Zenon
    <3>8. v \in Divisions
      BY <1>3
    <3> HIDE DEF w, v
    <3>9. w.open = v.open /\ w.answer = p \o v.answer /\ w.thoughts = v.thoughts
      <4>1. /\ w = [answer |-> (p \o here) \o d.answer, thoughts |-> d.thoughts, open |-> d.open]
            /\ v = [answer |-> here \o d.answer, thoughts |-> d.thoughts, open |-> d.open]
        BY <3>1, <3>7, Zenon
      <4> QED
        BY <3>3, <4>1
    <3> QED
      BY <2>5, <3>8, <3>9 DEF w, v, t
  <2> QED
    BY <2>4, <2>5
<1> QED
  BY <1>4, <1>5

\* While the model thinks there is a thought.
LEMMA FirstThought ==
  ASSUME NEW s \in Texts
  PROVE  \E h \in Texts, t \in Seq(Texts) : Whole(s, TRUE).thoughts = <<h>> \o t
<1> DEFINE w == Whole(s, TRUE)
<1>1. CASE At(s, ThinkEnd) = {}
  <2>1. w = [answer |-> <<>>, thoughts |-> <<s>>, open |-> TRUE]
    BY <1>1, WholeIs
  <2>2. <<>> \in Seq(Texts) /\ <<s>> \o <<>> = <<s>>
    <3>1. <<s>> \in Seq(Texts) /\ <<>> \in Seq(Texts)
      OBVIOUS
    <3> QED
      BY <3>1, ConcatEmpty
  <2> HIDE DEF w
  <2>3. w.thoughts = <<s>>
    BY <2>1
  <2>4. w.thoughts = <<s>> \o <<>>
    BY <2>2, <2>3
  <2> QED
    BY <2>2, <2>4, Zenon DEF w
<1>2. CASE At(s, ThinkEnd) # {}
  <2> DEFINE h == Until(s, ThinkEnd)
             v == Whole(After(s, ThinkEnd), FALSE)
  <2>1. w = [answer |-> v.answer, thoughts |-> <<h>> \o v.thoughts, open |-> v.open]
    BY <1>2, WholeIs
  <2>2. h \in Texts /\ After(s, ThinkEnd) \in Texts
    BY <1>2, TagFacts, AroundIs
  <2>3. v \in Divisions
    BY <2>2, WholeIs
  <2> HIDE DEF w, h, v
  <2>4. w.thoughts = <<h>> \o v.thoughts /\ v.thoughts \in Seq(Texts)
    BY <2>1, <2>3 DEF Divisions
  <2> QED
    BY <2>2, <2>4, Zenon DEF w
<1> QED
  BY <1>1, <1>2

\* What follows is the answer to the text s, told from the reply r.
Answers(r, s, b) ==
  \A u \in Texts : Whole(s \o u, b).answer = r.full \o Whole(r.buffer \o u, r.thinking).answer

\* The thoughts that ended are done; one that goes on has come as far as step.
Goes(r, ts) == IF r.thinking THEN Joined(r.step, ts) ELSE ts

\* The thoughts of the text s, with those in done ended, told from r.
Ended(r, s, done) ==
  /\ done \in Seq(Texts)
  /\ r.thought = FlattenSeq(done) \o r.step
  /\ ~r.thinking => r.step = <<>>
  /\ Range(r.entries) = Range(done) \ {<<>>}
  /\ \A u \in Texts :
       /\ Division[s \o u].open = Whole(r.buffer \o u, r.thinking).open
       /\ Division[s \o u].thoughts = done \o Goes(r, Whole(r.buffer \o u, r.thinking).thoughts)

Thoughts(r, s) == \E done : Ended(r, s, done)

\* The next reply tells the same of the same text.
LEMMA TakeTagTells ==
  ASSUME NEW r \in Replies, At(r.buffer, Awaited(r)) # {}, NEW u \in Texts
  PROVE  LET w == Whole(r.buffer \o u, r.thinking)
             v == Whole(TakeTag(r).buffer \o u, TakeTag(r).thinking)
             here == Until(r.buffer, Awaited(r))
         IN /\ v \in Divisions /\ here \in Texts
            /\ w.open = v.open
            /\ w.answer = IF r.thinking THEN v.answer ELSE here \o v.answer
            /\ w.thoughts = IF r.thinking THEN <<here>> \o v.thoughts ELSE v.thoughts
            /\ ~r.thinking => \E h \in Texts, t \in Seq(Texts) : v.thoughts = <<h>> \o t
<1> DEFINE b == r.thinking
           s == r.buffer
           rest == After(s, TagFor(b))
<1>1. b \in BOOLEAN /\ s \in Texts /\ Awaited(r) = TagFor(b)
  BY AwaitedIs DEF Replies, Awaited, TagFor
<1>2. TakeTag(r).thinking = ~b /\ TakeTag(r).buffer = rest
  BY <1>1, TakeTagIs
<1> HIDE DEF b, s
<1>3. At(s, TagFor(b)) # {}
  BY <1>1 DEF s
<1>4. rest \in Texts /\ rest \o u \in Texts
  BY <1>1, <1>3, TagForIs, AroundIs, TextConcat
<1> DEFINE w == Whole(s \o u, b)
           v == Whole(rest \o u, ~b)
           here == Until(s, TagFor(b))
<1>5. /\ v \in Divisions /\ here \in Texts
      /\ w.open = v.open
      /\ w.answer = IF b THEN v.answer ELSE here \o v.answer
      /\ w.thoughts = IF b THEN <<here>> \o v.thoughts ELSE v.thoughts
  BY <1>1, <1>3, WholeMore
<1>6. ~b => \E h \in Texts, t \in Seq(Texts) : v.thoughts = <<h>> \o t
  <2> SUFFICES ASSUME ~b PROVE \E h \in Texts, t \in Seq(Texts) : v.thoughts = <<h>> \o t
    OBVIOUS
  <2>1. v = Whole(rest \o u, TRUE)
    <3>1. (~b) = TRUE
      OBVIOUS
    <3> QED
      BY <3>1, Zenon
  <2> HIDE DEF v, rest
  <2> QED
    BY <1>4, <2>1, FirstThought, Zenon
<1>7. v = Whole(TakeTag(r).buffer \o u, TakeTag(r).thinking)
  BY <1>2, Zenon DEF rest
<1> HIDE DEF w, v, here
<1>8. w = Whole(r.buffer \o u, r.thinking) /\ here = Until(r.buffer, Awaited(r))
  BY <1>1, Zenon DEF w, here, s, b
<1> QED
  BY <1>5, <1>6, <1>7, <1>8 DEF b

\* So does passing on what no tag can begin in.
LEMMA PassOnTells ==
  ASSUME NEW r \in Replies, At(r.buffer, Awaited(r)) = {}, NEW u \in Texts
  PROVE  LET w == Whole(r.buffer \o u, r.thinking)
             v == Whole(PassOn(r).buffer \o u, PassOn(r).thinking)
             sent == Sent(r.buffer, Awaited(r))
         IN /\ v \in Divisions /\ sent \in Texts
            /\ w.open = v.open
            /\ w.answer = IF r.thinking THEN v.answer ELSE sent \o v.answer
            /\ w.thoughts = IF r.thinking THEN Joined(sent, v.thoughts) ELSE v.thoughts
            /\ r.thinking => \E h \in Texts, t \in Seq(Texts) : v.thoughts = <<h>> \o t
<1> DEFINE b == r.thinking
           s == r.buffer
           tag == TagFor(b)
           p == Sent(s, tag)
           q == Kept(s, tag) \o u
<1>1. b \in BOOLEAN /\ s \in Texts /\ Awaited(r) = tag
  BY AwaitedIs DEF Replies, Awaited, TagFor
<1>2. PassOn(r).thinking = b /\ PassOn(r).buffer = Kept(s, tag)
  BY <1>1, PassOnIs
<1> HIDE DEF b, s
<1>3. At(s, tag) = {}
  BY <1>1 DEF s
<1>4. p \in Texts /\ q \in Texts
  BY <1>1, TagForIs, KeptIs, TextConcat
<1>5. s \o u = p \o q /\ \A i \in At(p \o q, TagFor(b)) : i > Len(p)
  BY <1>1, <1>3, TagForIs, SendNoTag
<1> HIDE DEF p, q
<1> DEFINE w == Whole(p \o q, b)
           v == Whole(q, b)
<1>6. /\ v \in Divisions
      /\ w.open = v.open
      /\ w.answer = IF b THEN v.answer ELSE p \o v.answer
      /\ w.thoughts = IF b THEN Joined(p, v.thoughts) ELSE v.thoughts
  BY <1>1, <1>4, <1>5, WholeSkip
<1>7. b => \E h \in Texts, t \in Seq(Texts) : v.thoughts = <<h>> \o t
  <2> SUFFICES ASSUME b PROVE \E h \in Texts, t \in Seq(Texts) : v.thoughts = <<h>> \o t
    OBVIOUS
  <2>1. v = Whole(q, TRUE)
    <3>1. b = TRUE
      BY <1>1
    <3> QED
      BY <3>1, Zenon
  <2> HIDE DEF v
  <2> QED
    BY <1>4, <2>1, FirstThought, Zenon
<1>8. v = Whole(PassOn(r).buffer \o u, PassOn(r).thinking)
  BY <1>2, Zenon DEF q
<1> HIDE DEF v, tag
<1>9. w = Whole(r.buffer \o u, r.thinking) /\ p = Sent(r.buffer, Awaited(r))
  BY <1>1, <1>5, Zenon DEF p, s, b
<1> HIDE DEF w
<1> QED
  BY <1>4, <1>6, <1>7, <1>8, <1>9 DEF b

\* The next reply tells the same answer to the same text.
LEMMA AnswersStep ==
  ASSUME NEW r \in Replies, NEW s \in Texts, NEW b \in BOOLEAN, Answers(r, s, b)
  PROVE  /\ At(r.buffer, Awaited(r)) # {} => Answers(TakeTag(r), s, b)
         /\ At(r.buffer, Awaited(r)) = {} => Answers(PassOn(r), s, b)
<1>1. ASSUME NEW n \in Replies, NEW x \in Texts,
             IF r.thinking THEN n.full = r.full ELSE n.full = r.full \o x,
             NEW u \in Texts,
             LET w == Whole(r.buffer \o u, r.thinking)
                 v == Whole(n.buffer \o u, n.thinking)
             IN v \in Divisions /\ w.answer = IF r.thinking THEN v.answer ELSE x \o v.answer
      PROVE  Whole(s \o u, b).answer = n.full \o Whole(n.buffer \o u, n.thinking).answer
  <2> DEFINE w == Whole(r.buffer \o u, r.thinking)
             a == Whole(n.buffer \o u, n.thinking).answer
  <2>1. Whole(s \o u, b).answer = r.full \o w.answer
    BY DEF Answers
  <2>2. a \in Texts
    BY <1>1 DEF Divisions
  <2>3. w.answer = IF r.thinking THEN a ELSE x \o a
    BY <1>1
  <2> HIDE DEF w, a
  <2>4. r.full \in Texts
    BY DEF Replies, Texts
  <2>5. (r.full \o x) \o a = r.full \o (x \o a)
    BY <1>1, <2>2, <2>4, TextAssoc
  <2>6. Whole(s \o u, b).answer = n.full \o a
    BY <1>1, <2>1, <2>3, <2>5
  <2> QED
    BY <2>6 DEF a
<1>2. ASSUME At(r.buffer, Awaited(r)) # {} PROVE Answers(TakeTag(r), s, b)
  <2> DEFINE n == TakeTag(r)
             x == Until(r.buffer, Awaited(r))
  <2>1. n \in Replies /\ x \in Texts /\ IF r.thinking THEN n.full = r.full ELSE n.full = r.full \o x
    BY <1>2, TakeTagIs
  <2>2. \A u \in Texts : LET w == Whole(r.buffer \o u, r.thinking)
                             v == Whole(n.buffer \o u, n.thinking)
                         IN v \in Divisions /\ w.answer = IF r.thinking THEN v.answer ELSE x \o v.answer
    BY <1>2, TakeTagTells
  <2> HIDE DEF n, x
  <2>3. Answers(n, s, b)
    BY <1>1, <2>1, <2>2 DEF Answers
  <2> QED
    BY <2>3 DEF n
<1>3. ASSUME At(r.buffer, Awaited(r)) = {} PROVE Answers(PassOn(r), s, b)
  <2> DEFINE n == PassOn(r)
             x == Sent(r.buffer, Awaited(r))
  <2>1. n \in Replies /\ x \in Texts /\ IF r.thinking THEN n.full = r.full ELSE n.full = r.full \o x
    BY PassOnIs
  <2>2. \A u \in Texts : LET w == Whole(r.buffer \o u, r.thinking)
                             v == Whole(n.buffer \o u, n.thinking)
                         IN v \in Divisions /\ w.answer = IF r.thinking THEN v.answer ELSE x \o v.answer
    BY <1>3, PassOnTells
  <2> HIDE DEF n, x
  <2>3. Answers(n, s, b)
    BY <1>1, <2>1, <2>2 DEF Answers
  <2> QED
    BY <2>3 DEF n
<1> QED
  BY <1>2, <1>3

\* A thought may come in any number of parts.
LEMMA JoinedMore ==
  ASSUME NEW a \in Texts, NEW p \in Texts, NEW h \in Texts, NEW t \in Seq(Texts)
  PROVE  /\ Joined(<<>>, <<h>> \o t) = <<h>> \o t
         /\ Joined(a, Joined(p, <<h>> \o t)) = Joined(a \o p, <<h>> \o t)
<1>1. <<>> \in Texts /\ <<>> \o h = h /\ p \o h \in Texts /\ a \o p \in Texts
      /\ (a \o p) \o h = a \o (p \o h)
  BY TextConcat, ConcatEmpty, TextAssoc DEF Texts
<1>2. /\ Joined(<<>>, <<h>> \o t) = <<<<>> \o h>> \o t
      /\ Joined(p, <<h>> \o t) = <<p \o h>> \o t
      /\ Joined(a, <<p \o h>> \o t) = <<a \o (p \o h)>> \o t
      /\ Joined(a \o p, <<h>> \o t) = <<(a \o p) \o h>> \o t
  <2>1. \A y \in Texts, z \in Texts : Joined(y, <<z>> \o t) = <<y \o z>> \o t
    BY JoinedIs, Zenon
  <2> QED
    BY <1>1, <2>1, Zenon
<1> QED
  BY <1>1, <1>2, Zenon

\* One more thought has ended.
LEMMA OneMoreDone ==
  ASSUME NEW done \in Seq(Texts), NEW x \in Texts, NEW t \in Seq(Texts)
  PROVE  /\ Append(done, x) \in Seq(Texts)
         /\ done \o (<<x>> \o t) = Append(done, x) \o t
         /\ Range(Append(done, x)) = Range(done) \cup {x}
<1>1. <<x>> \in Seq(Texts) /\ Append(done, x) = done \o <<x>> /\ Append(done, x) \in Seq(Texts)
  OBVIOUS
<1>2. (done \o <<x>>) \o t = done \o (<<x>> \o t)
  BY <1>1, ConcatAssoc
<1> DEFINE e == Append(done, x)
<1>3. /\ DOMAIN e = 1 .. Len(done) + 1 /\ DOMAIN done = 1 .. Len(done) /\ Len(done) \in Nat
      /\ \A i \in 1 .. Len(done) : e[i] = done[i]
      /\ e[Len(done) + 1] = x
  OBVIOUS
<1> HIDE DEF e
<1>4. Range(e) \subseteq Range(done) \cup {x}
  <2> SUFFICES ASSUME NEW i \in DOMAIN e PROVE e[i] \in Range(done) \cup {x}
    BY DEF Range
  <2>1. i \in DOMAIN done \/ i = Len(done) + 1
    BY <1>3
  <2> QED
    BY <1>3, <2>1 DEF Range
<1>5. Range(done) \subseteq Range(e) /\ x \in Range(e)
  BY <1>3 DEF Range
<1> QED
  BY <1>1, <1>2, <1>4, <1>5 DEF e

\* The parts of a reply that has told thoughts are texts.
LEMMA EndedTypes ==
  ASSUME NEW r \in Replies, NEW s, NEW done, Ended(r, s, done)
  PROVE  /\ done \in Seq(Texts) /\ FlattenSeq(done) \in Texts
         /\ r.step \in Texts /\ r.thought \in Texts /\ r.full \in Texts /\ r.thinking \in BOOLEAN
BY FlattenIs DEF Ended, Replies, Texts

\* A tag that is taken ends a thought, or begins one.
LEMMA ThoughtsTaken ==
  ASSUME NEW r \in Replies, At(r.buffer, Awaited(r)) # {}, NEW s \in Texts, NEW done,
         Ended(r, s, done)
  PROVE  Thoughts(TakeTag(r), s)
<1> DEFINE n == TakeTag(r)
           x == Until(r.buffer, Awaited(r))
<1>1. /\ n \in Replies /\ x \in Texts /\ n.thinking = ~r.thinking
      /\ r.thinking => /\ n.thought = r.thought \o x /\ n.step = <<>>
                       /\ Range(n.entries) = Range(r.entries) \cup ({r.step \o x} \ {<<>>})
      /\ ~r.thinking => n.thought = r.thought /\ n.step = r.step /\ n.entries = r.entries
  BY TakeTagIs
<1>2. /\ done \in Seq(Texts) /\ FlattenSeq(done) \in Texts
      /\ r.step \in Texts /\ r.thinking \in BOOLEAN
  BY EndedTypes
<1> DEFINE W(u) == Whole(r.buffer \o u, r.thinking)
           V(u) == Whole(n.buffer \o u, n.thinking)
<1>3. ASSUME NEW u \in Texts
      PROVE  /\ V(u).thoughts \in Seq(Texts)
             /\ W(u).open = V(u).open
             /\ W(u).thoughts = IF r.thinking THEN <<x>> \o V(u).thoughts ELSE V(u).thoughts
             /\ ~r.thinking => \E h \in Texts, t \in Seq(Texts) : V(u).thoughts = <<h>> \o t
  <2> DEFINE v == V(u)
             w == W(u)
  <2>1. /\ v \in Divisions
        /\ w.open = v.open
        /\ w.thoughts = IF r.thinking THEN <<x>> \o v.thoughts ELSE v.thoughts
        /\ ~r.thinking => \E h \in Texts, t \in Seq(Texts) : v.thoughts = <<h>> \o t
    BY TakeTagTells
  <2> HIDE DEF v, w, x
  <2>2. v.thoughts \in Seq(Texts)
    BY <2>1 DEF Divisions
  <2> QED
    BY <2>1, <2>2 DEF v, w
<1>4. ASSUME NEW u \in Texts
      PROVE  /\ Division[s \o u].open = W(u).open
             /\ Division[s \o u].thoughts = done \o Goes(r, W(u).thoughts)
  BY DEF Ended
<1>5. r.thought = FlattenSeq(done) \o r.step /\ Range(r.entries) = Range(done) \ {<<>>}
      /\ (~r.thinking => r.step = <<>>)
  BY DEF Ended
<1> HIDE DEF n, x, W, V
<1>6. CASE r.thinking
  <2> DEFINE y == r.step \o x
             more == Append(done, y)
  <2>1. y \in Texts
    BY <1>1, <1>2, TextConcat
  <2>2. n.thinking = FALSE
    BY <1>1, <1>6
  <2> HIDE DEF y
  <2>3. more \in Seq(Texts) /\ Range(more) = Range(done) \cup {y}
    BY <1>2, <2>1, OneMoreDone
  <2>4. FlattenSeq(more) = FlattenSeq(done) \o y
    BY <1>2, <2>1, FlattenAppend DEF Texts
  <2>5. n.thought = FlattenSeq(more) \o n.step
    <3>1. (FlattenSeq(done) \o r.step) \o x = FlattenSeq(done) \o y
      BY <1>1, <1>2, TextAssoc, Zenon DEF y
    <3>2. FlattenSeq(done) \o y \in Texts
      BY <1>2, <2>1, TextConcat
    <3>3. (FlattenSeq(done) \o y) \o <<>> = FlattenSeq(done) \o y
      BY <3>2, ConcatEmpty DEF Texts
    <3> QED
      BY <1>1, <1>5, <1>6, <2>4, <3>1, <3>3
  <2>6. Range(n.entries) = Range(more) \ {<<>>}
    BY <1>1, <1>5, <1>6, <2>3 DEF y
  <2>7. ASSUME NEW u \in Texts
        PROVE  /\ Division[s \o u].open = V(u).open
               /\ Division[s \o u].thoughts = more \o Goes(n, V(u).thoughts)
    <3> DEFINE ts == V(u).thoughts
    <3>1. ts \in Seq(Texts) /\ W(u).thoughts = <<x>> \o ts
      BY <1>3, <1>6
    <3> HIDE DEF ts
    <3>2. Goes(r, W(u).thoughts) = <<y>> \o ts
      <4>1. Joined(r.step, <<x>> \o ts) = <<r.step \o x>> \o ts
        <5>1. \A a \in Texts, b \in Texts, t \in Seq(Texts) : Joined(a, <<b>> \o t) = <<a \o b>> \o t
          BY JoinedIs, Zenon
        <5>2. r.step \in Texts /\ x \in Texts /\ ts \in Seq(Texts)
          BY <1>1, <1>2, <3>1
        <5> QED
          BY <5>1, <5>2, Zenon
      <4>2. Goes(r, W(u).thoughts) = Joined(r.step, W(u).thoughts)
        BY <1>6 DEF Goes
      <4> QED
        BY <3>1, <4>1, <4>2, Zenon DEF y
    <3>3. done \o (<<y>> \o ts) = more \o ts
      BY <1>2, <2>1, <3>1, OneMoreDone
    <3>4. Goes(n, V(u).thoughts) = ts
      BY <2>2 DEF Goes, ts
    <3> QED
      BY <1>3, <1>4, <3>2, <3>3, <3>4
  <2>8. Ended(n, s, more)
    <3> HIDE DEF more
    <3> QED
      BY <1>1, <1>6, <2>3, <2>5, <2>6, <2>7 DEF Ended, V
  <2> QED
    BY <2>8 DEF Thoughts, n
<1>7. CASE ~r.thinking
  <2>1. n.thinking = TRUE /\ n.step = <<>> /\ r.step = <<>>
    BY <1>1, <1>5, <1>7
  <2>2. ASSUME NEW u \in Texts
        PROVE  /\ Division[s \o u].open = V(u).open
               /\ Division[s \o u].thoughts = done \o Goes(n, V(u).thoughts)
    <3> DEFINE ts == V(u).thoughts
    <3>1. W(u).thoughts = ts
      BY <1>3, <1>7
    <3>2. PICK h \in Texts, t \in Seq(Texts) : ts = <<h>> \o t
      BY <1>3, <1>7
    <3> HIDE DEF ts
    <3>3. Joined(<<>>, ts) = ts
      <4>1. Joined(<<>>, <<h>> \o t) = <<h>> \o t
        BY <1>2, JoinedMore
      <4> QED
        BY <3>2, <4>1, Zenon
    <3>4. Goes(n, ts) = ts /\ Goes(r, ts) = ts
      BY <1>7, <2>1, <3>3 DEF Goes
    <3>5. /\ Division[s \o u].open = W(u).open /\ W(u).open = V(u).open
          /\ Division[s \o u].thoughts = done \o Goes(r, W(u).thoughts)
      BY <1>3, <1>4
    <3>6. Goes(r, W(u).thoughts) = Goes(n, V(u).thoughts)
      BY <3>1, <3>4, Zenon DEF ts
    <3> QED
      BY <3>5, <3>6, Zenon
  <2>3. Ended(n, s, done)
    BY <1>1, <1>2, <1>5, <1>7, <2>1, <2>2 DEF Ended, V
  <2> QED
    BY <2>3 DEF Thoughts, n
<1> QED
  BY <1>6, <1>7

\* What is passed on belongs to the thought that goes on.
LEMMA ThoughtsPassed ==
  ASSUME NEW r \in Replies, At(r.buffer, Awaited(r)) = {}, NEW s \in Texts, NEW done,
         Ended(r, s, done)
  PROVE  Thoughts(PassOn(r), s)
<1> DEFINE n == PassOn(r)
           x == Sent(r.buffer, Awaited(r))
<1>1. /\ n \in Replies /\ x \in Texts /\ n.thinking = r.thinking /\ n.entries = r.entries
      /\ r.thinking => n.thought = r.thought \o x /\ n.step = r.step \o x
      /\ ~r.thinking => n.thought = r.thought /\ n.step = r.step
  BY PassOnIs
<1>2. /\ done \in Seq(Texts) /\ FlattenSeq(done) \in Texts
      /\ r.step \in Texts /\ r.thinking \in BOOLEAN
  BY EndedTypes
<1> DEFINE W(u) == Whole(r.buffer \o u, r.thinking)
           V(u) == Whole(n.buffer \o u, n.thinking)
<1>3. ASSUME NEW u \in Texts
      PROVE  /\ W(u).open = V(u).open
             /\ W(u).thoughts = IF r.thinking THEN Joined(x, V(u).thoughts) ELSE V(u).thoughts
             /\ r.thinking => \E h \in Texts, t \in Seq(Texts) : V(u).thoughts = <<h>> \o t
  BY PassOnTells
<1>4. ASSUME NEW u \in Texts
      PROVE  /\ Division[s \o u].open = W(u).open
             /\ Division[s \o u].thoughts = done \o Goes(r, W(u).thoughts)
  BY DEF Ended
<1>5. r.thought = FlattenSeq(done) \o r.step /\ Range(r.entries) = Range(done) \ {<<>>}
      /\ (~r.thinking => r.step = <<>>)
  BY DEF Ended
<1> HIDE DEF n, x, W, V
<1>6. n.thought = FlattenSeq(done) \o n.step
  <2>1. (FlattenSeq(done) \o r.step) \o x = FlattenSeq(done) \o (r.step \o x)
    BY <1>1, <1>2, TextAssoc, Zenon
  <2> QED
    BY <1>1, <1>5, <2>1
<1>7. ASSUME NEW u \in Texts PROVE Goes(r, W(u).thoughts) = Goes(n, V(u).thoughts)
  <2> DEFINE ts == V(u).thoughts
  <2>1. CASE r.thinking
    <3>1. PICK h \in Texts, t \in Seq(Texts) : ts = <<h>> \o t
      BY <1>3, <2>1
    <3>2. W(u).thoughts = Joined(x, ts)
      BY <1>3, <2>1
    <3> HIDE DEF ts
    <3>3. Joined(r.step, Joined(x, ts)) = Joined(r.step \o x, ts)
      <4>1. x \in Texts /\ r.step \in Texts
        BY <1>1, <1>2
      <4> QED
        <5>1. Joined(r.step, Joined(x, <<h>> \o t)) = Joined(r.step \o x, <<h>> \o t)
          BY <4>1, JoinedMore
        <5> QED
          BY <3>1, <5>1, Zenon
    <3> QED
      BY <1>1, <2>1, <3>2, <3>3 DEF Goes, ts
  <2>2. CASE ~r.thinking
    BY <1>1, <1>3, <2>2 DEF Goes
  <2> QED
    BY <2>1, <2>2
<1>8. Ended(n, s, done)
  <2>1. \A u \in Texts : /\ Division[s \o u].open = V(u).open
                         /\ Division[s \o u].thoughts = done \o Goes(n, V(u).thoughts)
    BY <1>3, <1>4, <1>7
  <2> QED
    BY <1>1, <1>2, <1>5, <1>6, <2>1 DEF Ended, V
<1> QED
  BY <1>8 DEF Thoughts, n

\* A reply from which all was taken tells what it told.
LEMMA ProcessRight ==
  ASSUME NEW r \in Replies
  PROVE  /\ Process[r] \in Replies
         /\ Process[r].called = r.called
         /\ Len(Process[r].buffer) < Len(Awaited(Process[r]))
         /\ \A s \in Texts, b \in BOOLEAN : Answers(r, s, b) => Answers(Process[r], s, b)
         /\ \A s \in Texts : Thoughts(r, s) => Thoughts(Process[r], s)
<1> DEFINE Right(q) ==
             /\ Process[q] \in Replies
             /\ Process[q].called = q.called
             /\ Len(Process[q].buffer) < Len(Awaited(Process[q]))
             /\ \A s \in Texts, b \in BOOLEAN : Answers(q, s, b) => Answers(Process[q], s, b)
             /\ \A s \in Texts : Thoughts(q, s) => Thoughts(Process[q], s)
           S == {q \in Replies : Right(q)}
           m == [q \in Replies |-> Len(q.buffer)]
<1>1. m \in [Replies -> Nat]
  BY AwaitedIs
<1>2. ASSUME NEW q \in Replies, \A y \in Replies : m[y] < m[q] => y \in S PROVE q \in S
  <2>1. CASE At(q.buffer, Awaited(q)) = {}
    <3>1. Process[q] = PassOn(q)
      BY <2>1, ProcessIs
    <3>2. /\ PassOn(q) \in Replies /\ PassOn(q).called = q.called
          /\ Awaited(PassOn(q)) = Awaited(q)
          /\ Len(PassOn(q).buffer) < Len(Awaited(q))
      BY PassOnIs, AwaitedIs, KeptIs, Zenon DEF Awaited
    <3>3. \A s \in Texts, b \in BOOLEAN : Answers(q, s, b) => Answers(PassOn(q), s, b)
      BY <2>1, AnswersStep
    <3>4. \A s \in Texts : Thoughts(q, s) => Thoughts(PassOn(q), s)
      BY <2>1, ThoughtsPassed DEF Thoughts
    <3> QED
      BY <3>1, <3>2, <3>3, <3>4
  <2>2. CASE At(q.buffer, Awaited(q)) # {}
    <3> DEFINE n == TakeTag(q)
    <3>1. Process[q] = Process[n]
      BY <2>2, ProcessIs
    <3>2. n \in Replies /\ n.called = q.called /\ Len(n.buffer) < Len(q.buffer)
      BY <2>2, TakeTagIs
    <3>3. \A s \in Texts, b \in BOOLEAN : Answers(q, s, b) => Answers(n, s, b)
      BY <2>2, AnswersStep
    <3>4. \A s \in Texts : Thoughts(q, s) => Thoughts(n, s)
      BY <2>2, ThoughtsTaken DEF Thoughts
    <3> HIDE DEF n, Right
    <3>5. Right(n)
      BY <1>2, <3>2
    <3> QED
      BY <3>1, <3>2, <3>3, <3>4, <3>5 DEF Right
  <2> QED
    BY <2>1, <2>2
<1> HIDE DEF m
<1>3. Replies \subseteq S
  <2> HIDE DEF S
  <2> QED
    BY <1>1, <1>2, AllSmaller
<1> QED
  BY <1>3

\* A text is a prefix of itself with more behind it.
LEMMA PrefixOf ==
  ASSUME NEW s \in Texts, NEW x \in Texts
  PROVE  IsPrefix(s, s \o x) /\ Len(s \o x) - Len(s) = Len(x)
<1> DEFINE t == s \o x
<1>1. /\ t \in Texts /\ Len(s) \in Nat /\ Len(x) \in Nat /\ Len(t) = Len(s) + Len(x)
      /\ \A k \in 1 .. Len(s) : t[k] = s[k]
  BY TextConcat
<1> HIDE DEF t
<1> DEFINE p == SubSeq(t, 1, Len(s))
           q == SubSeq(s, 1, Len(s))
<1>2. /\ p \in Texts /\ Len(p) = Len(s) /\ \A k \in 1 .. Len(s) : p[k] = t[k]
  BY <1>1, SubSeqIs DEF Texts
<1>3. /\ q \in Texts /\ Len(q) = Len(s) /\ \A k \in 1 .. Len(s) : q[k] = s[k]
  BY <1>1, SubSeqIs DEF Texts
<1> HIDE DEF p, q
<1>4. p = q /\ s = q
  BY <1>1, <1>2, <1>3, SeqEqual DEF Texts
<1>5. IsPrefix(s, t)
  BY <1>1, <1>4 DEF IsPrefix, p, q
<1> QED
  BY <1>1, <1>5 DEF t

\* Without its last element a sequence is what it was before.
LEMMA FrontIs ==
  ASSUME NEW S, NEW s \in Seq(S), NEW x \in S
  PROVE  Front(Append(s, x)) = s
<1> DEFINE t == Append(s, x)
<1>1. /\ t \in Seq(S) /\ Len(t) = Len(s) + 1 /\ Len(s) \in Nat
      /\ \A i \in 1 .. Len(s) : t[i] = s[i]
  OBVIOUS
<1> HIDE DEF t
<1> DEFINE f == SubSeq(t, 1, Len(s))
<1>2. f \in Seq(S) /\ Len(f) = Len(s) /\ \A i \in 1 .. Len(s) : f[i] = t[i]
  BY <1>1, SubSeqIs
<1>3. Front(t) = f
  BY <1>1 DEF Front
<1> HIDE DEF f
<1>4. f = s
  BY <1>1, <1>2, SeqEqual
<1> QED
  BY <1>3, <1>4 DEF t

\* At the end what is kept back goes to answer or thought.
LEMMA FlushedIs ==
  ASSUME NEW r \in Replies
  PROVE  LET n == Flushed(r)
         IN /\ n \in Replies
            /\ n.buffer = <<>> /\ n.thinking = FALSE /\ n.called = r.called
            /\ r.thinking =>
                 /\ n.full = r.full /\ n.thought = r.thought \o r.buffer
                 /\ Range(n.entries) = Range(r.entries) \cup ({r.step \o r.buffer} \ {<<>>})
            /\ ~r.thinking =>
                 /\ n.full = r.full \o r.buffer /\ n.thought = r.thought
                 /\ n.entries = r.entries
<1>1. r.buffer \in Texts /\ <<>> \in Texts
  BY DEF Replies, Texts
<1>2. CASE r.thinking
  <2> DEFINE step == r.step \o r.buffer
  <2>1. r.thought \o r.buffer \in Texts /\ step \in Texts /\ r.entries \in Seq(Texts)
    BY <1>1, TextConcat DEF Replies, Texts
  <2> HIDE DEF step
  <2>2. /\ Noted(r.entries, step) \in Seq(Texts)
        /\ Range(Noted(r.entries, step)) = Range(r.entries) \cup ({step} \ {<<>>})
    BY <2>1, NotedIs
  <2>3. Flushed(r) = [r EXCEPT !.thought = r.thought \o r.buffer, !.step = <<>>,
                               !.entries = Noted(r.entries, step),
                               !.buffer = <<>>, !.thinking = FALSE]
    BY <1>2 DEF Flushed, EndStep, Think, Replies, step
  <2> QED
    BY <1>1, <1>2, <2>1, <2>2, <2>3 DEF Replies, Texts, step
<1>3. CASE ~r.thinking
  <2>1. r.full \o r.buffer \in Texts
    BY <1>1, TextConcat DEF Replies, Texts
  <2>2. Flushed(r) = [r EXCEPT !.full = r.full \o r.buffer, !.buffer = <<>>, !.thinking = FALSE]
    BY <1>3 DEF Flushed, Answer, Replies
  <2> QED
    BY <1>1, <1>3, <2>1, <2>2 DEF Replies, Texts
<1> QED
  BY <1>2, <1>3 DEF Replies

\* Where no tag begins, the rest is answer or thought as it stands.
LEMMA RestIs ==
  ASSUME NEW r \in Replies, Len(r.buffer) < Len(Awaited(r))
  PROVE  LET v == Whole(r.buffer, r.thinking)
         IN /\ v.open = r.thinking
            /\ v.answer = IF r.thinking THEN <<>> ELSE r.buffer
            /\ v.thoughts = IF r.thinking THEN <<r.buffer>> ELSE <<>>
<1> DEFINE s == r.buffer
           b == r.thinking
           v == Whole(s, b)
<1>1. s \in Texts /\ Len(s) \in Nat /\ b \in BOOLEAN /\ Awaited(r) \in Texts /\ Len(Awaited(r)) \in Nat
  BY AwaitedIs DEF Replies, Texts
<1>2. At(s, Awaited(r)) = {}
  BY <1>1, AwaitedIs, AtIs
<1> HIDE DEF s
<1>3. CASE b
  <2>1. At(s, ThinkEnd) = {}
    BY <1>2, <1>3 DEF Awaited
  <2>2. v = Whole(s, TRUE)
    <3>1. b = TRUE
      BY <1>1, <1>3
    <3> QED
      BY <3>1, Zenon
  <2> HIDE DEF v
  <2>3. v = [answer |-> <<>>, thoughts |-> <<s>>, open |-> TRUE]
    BY <1>1, <2>1, <2>2, WholeIs, Zenon
  <2>4. v.open = TRUE /\ v.answer = <<>> /\ v.thoughts = <<s>>
    BY <2>3
  <2> QED
    BY <1>1, <1>3, <2>4 DEF v, s
<1>4. CASE ~b
  <2>1. At(s, ThinkStart) = {}
    BY <1>2, <1>4 DEF Awaited
  <2>2. v = Whole(s, FALSE)
    <3>1. b = FALSE
      BY <1>1, <1>4
    <3> QED
      BY <3>1, Zenon
  <2> HIDE DEF v
  <2>3. v = [answer |-> s, thoughts |-> <<>>, open |-> FALSE]
    BY <1>1, <2>1, <2>2, WholeIs, Zenon
  <2>4. v.open = FALSE /\ v.answer = s /\ v.thoughts = <<>>
    BY <2>3
  <2> QED
    BY <1>1, <1>4, <2>4 DEF v, s
<1> QED
  BY <1>3, <1>4

\* At any time the answer lacks less than a tag, at the end nothing.
LEMMA AnswerShown ==
  ASSUME NEW r \in Replies, NEW s \in Texts, NEW b \in BOOLEAN, Answers(r, s, b),
         Len(r.buffer) < Len(Awaited(r))
  PROVE  LET e == Whole(s, b).answer
         IN /\ IsPrefix(r.full, e)
            /\ Len(e) - Len(r.full) < Len(ThinkStart)
            /\ Flushed(r).full = e
<1> DEFINE e == Whole(s, b).answer
           v == Whole(r.buffer, r.thinking)
<1>1. <<>> \in Texts /\ s \o <<>> = s /\ r.buffer \o <<>> = r.buffer /\ r.full \in Texts
      /\ r.buffer \in Texts /\ Len(ThinkStart) \in Nat \ {0} /\ r.full \o <<>> = r.full
      /\ Len(<<>>) = 0 /\ r.thinking \in BOOLEAN
  BY TagFacts, ConcatEmpty DEF Texts, Replies
<1>2. Whole(s \o <<>>, b).answer = r.full \o Whole(r.buffer \o <<>>, r.thinking).answer
  BY <1>1 DEF Answers
<1>3. e = r.full \o v.answer
  BY <1>1, <1>2, Zenon
<1>4. v.answer = IF r.thinking THEN <<>> ELSE r.buffer
  BY RestIs
<1> HIDE DEF e, v
<1>5. CASE r.thinking
  <2>1. e = r.full /\ Flushed(r).full = r.full
    BY <1>1, <1>3, <1>4, <1>5, FlushedIs
  <2>2. IsPrefix(r.full, r.full \o <<>>) /\ Len(r.full \o <<>>) - Len(r.full) = 0
    BY <1>1, PrefixOf
  <2> QED
    BY <1>1, <2>1, <2>2 DEF e
<1>6. CASE ~r.thinking
  <2>1. e = r.full \o r.buffer /\ Flushed(r).full = e
    BY <1>3, <1>4, <1>6, FlushedIs
  <2>2. IsPrefix(r.full, r.full \o r.buffer) /\ Len(r.full \o r.buffer) - Len(r.full) = Len(r.buffer)
    BY <1>1, PrefixOf
  <2>3. Len(r.buffer) < Len(ThinkStart)
    BY <1>6 DEF Awaited
  <2> QED
    BY <2>1, <2>2, <2>3 DEF e
<1> QED
  BY <1>5, <1>6

\* The same of the thoughts, and those that ended are noted.
LEMMA ThoughtsShown ==
  ASSUME NEW r \in Replies, NEW s \in Texts, Thoughts(r, s), Len(r.buffer) < Len(Awaited(r))
  PROVE  LET w   == Division[s]
             all == FlattenSeq(w.thoughts)
         IN /\ w.open = r.thinking
            /\ IsPrefix(r.thought, all)
            /\ Len(all) - Len(r.thought) < Len(ThinkEnd)
            /\ Range(IF w.open THEN Front(w.thoughts) ELSE w.thoughts) \ {<<>>} \subseteq Range(r.entries)
            /\ Flushed(r).thought = all
            /\ Range(Flushed(r).entries) = Range(w.thoughts) \ {<<>>}
<1> DEFINE w == Division[s]
           all == FlattenSeq(w.thoughts)
           v == Whole(r.buffer, r.thinking)
<1>1. PICK done : Ended(r, s, done)
  BY DEF Thoughts
<1>2. /\ done \in Seq(Texts) /\ FlattenSeq(done) \in Texts
      /\ r.step \in Texts /\ r.thought \in Texts /\ r.thinking \in BOOLEAN
  BY <1>1, EndedTypes
<1>3. <<>> \in Texts /\ s \o <<>> = s /\ r.buffer \o <<>> = r.buffer /\ r.buffer \in Texts
      /\ Len(ThinkEnd) \in Nat \ {0} /\ r.thought \o <<>> = r.thought /\ done \o <<>> = done
      /\ FlattenSeq(done) \o <<>> = FlattenSeq(done) /\ Len(<<>>) = 0
  BY <1>2, TagFacts, ConcatEmpty DEF Texts, Replies
<1>4. /\ r.thought = FlattenSeq(done) \o r.step
      /\ ~r.thinking => r.step = <<>>
      /\ Range(r.entries) = Range(done) \ {<<>>}
      /\ Division[s \o <<>>].open = Whole(r.buffer \o <<>>, r.thinking).open
      /\ Division[s \o <<>>].thoughts = done \o Goes(r, Whole(r.buffer \o <<>>, r.thinking).thoughts)
  BY <1>1, <1>3 DEF Ended
<1>5. w.open = v.open /\ w.thoughts = done \o Goes(r, v.thoughts)
  BY <1>3, <1>4, Zenon
<1>6. /\ v.open = r.thinking
      /\ v.thoughts = IF r.thinking THEN <<r.buffer>> ELSE <<>>
  BY RestIs
<1> HIDE DEF w, v
<1>7. CASE r.thinking
  <2> DEFINE y == r.step \o r.buffer
  <2>1. y \in Texts
    BY <1>2, <1>3, TextConcat
  <2>2. Goes(r, v.thoughts) = <<y>>
    <3>1. Joined(r.step, <<r.buffer>> \o <<>>) = <<y>> \o <<>>
      <4>1. <<>> \in Seq(Texts)
        OBVIOUS
      <4> QED
        BY <1>2, <1>3, <4>1, JoinedIs, Zenon
    <3>2. <<r.buffer>> \o <<>> = <<r.buffer>> /\ <<y>> \o <<>> = <<y>>
      <4>1. <<r.buffer>> \in Seq(Texts) /\ <<y>> \in Seq(Texts)
        BY <1>3, <2>1
      <4> QED
        BY <4>1, ConcatEmpty
    <3>3. v.thoughts = <<r.buffer>>
      BY <1>6, <1>7
    <3> QED
      BY <1>7, <3>1, <3>2, <3>3 DEF Goes
  <2> HIDE DEF y
  <2>3. w.thoughts = Append(done, y) /\ Range(w.thoughts) = Range(done) \cup {y}
    <3>1. done \o <<y>> = Append(done, y)
      BY <1>2, <2>1
    <3>2. Range(Append(done, y)) = Range(done) \cup {y}
      BY <1>2, <2>1, OneMoreDone
    <3> QED
      BY <1>5, <2>2, <3>1, <3>2
  <2>4. Front(w.thoughts) = done
    BY <1>2, <2>1, <2>3, FrontIs
  <2>5. all = r.thought \o r.buffer
    <3>1. all = FlattenSeq(done) \o y
      BY <1>2, <2>1, <2>3, FlattenAppend DEF Texts
    <3>2. (FlattenSeq(done) \o r.step) \o r.buffer = FlattenSeq(done) \o y
      BY <1>2, <1>3, TextAssoc, Zenon DEF y
    <3> QED
      BY <1>4, <3>1, <3>2
  <2> HIDE DEF all
  <2>6. IsPrefix(r.thought, all) /\ Len(all) - Len(r.thought) < Len(ThinkEnd)
    <3>1. Len(r.buffer) < Len(ThinkEnd)
      BY <1>7 DEF Awaited
    <3> QED
      BY <1>2, <1>3, <2>5, <3>1, PrefixOf
  <2>7. /\ Flushed(r).thought = all
        /\ Range(Flushed(r).entries) = Range(r.entries) \cup ({y} \ {<<>>})
    BY <1>7, <2>5, FlushedIs DEF y
  <2> QED
    BY <1>4, <1>5, <1>6, <1>7, <2>3, <2>4, <2>6, <2>7 DEF w, all
<1>8. CASE ~r.thinking
  <2>1. Goes(r, v.thoughts) = <<>>
    BY <1>6, <1>8 DEF Goes
  <2>2. w.thoughts = done /\ w.open = FALSE
    BY <1>2, <1>3, <1>5, <1>6, <1>8, <2>1
  <2>3. all = r.thought
    BY <1>3, <1>4, <1>8, <2>2
  <2> HIDE DEF all
  <2>4. IsPrefix(r.thought, all) /\ Len(all) - Len(r.thought) = 0
    <3>1. IsPrefix(r.thought, r.thought \o <<>>) /\ Len(r.thought \o <<>>) - Len(r.thought) = Len(<<>>)
      BY <1>2, <1>3, PrefixOf
    <3> QED
      BY <1>3, <2>3, <3>1
  <2>5. Flushed(r).thought = all /\ Flushed(r).entries = r.entries
    BY <1>8, <2>3, FlushedIs
  <2>6. /\ Range(IF w.open THEN Front(w.thoughts) ELSE w.thoughts) \ {<<>>} \subseteq Range(r.entries)
        /\ Range(r.entries) = Range(w.thoughts) \ {<<>>}
    BY <1>4, <2>2
  <2>7. w.open = r.thinking /\ Len(all) - Len(r.thought) < Len(ThinkEnd)
    <3>1. r.thinking = FALSE
      BY <1>2, <1>8
    <3>2. Len(all) - Len(r.thought) < Len(ThinkEnd)
      BY <1>3, <2>4
    <3> QED
      BY <2>2, <3>1, <3>2, Zenon
  <2> QED
    BY <2>4, <2>5, <2>6, <2>7 DEF w, all
<1> QED
  BY <1>2, <1>7, <1>8

\* A recursive function of texts, each time of what follows a place in them.
LEMMA EraseIs ==
  ASSUME NEW tag \in Texts, Len(tag) # 0
  PROVE  /\ \A s \in Texts : Erase(s, tag) \in Texts
         /\ \A s \in Texts : At(s, tag) = {} => Erase(s, tag) = s
<1> DEFINE D == {s \in Texts : At(s, tag) # {}}
           m == [s \in Texts |-> Len(s)]
           next == [s \in D |-> After(s, tag)]
           base == [s \in Texts |-> s]
           comb == [s \in Texts |-> [v \in Texts |-> IF s \in D THEN Until(s, tag) \o v ELSE v]]
           Body(f) == [s \in Texts |-> IF At(s, tag) = {} THEN s ELSE Until(s, tag) \o f[After(s, tag)]]
<1>1. m \in [Texts -> Nat] /\ \A s \in Texts : m[s] = Len(s)
  BY DEF Texts
<1>2. \A s \in D : /\ s \in Texts /\ Until(s, tag) \in Texts
                  /\ After(s, tag) \in Texts /\ Len(After(s, tag)) < Len(s)
  BY AroundIs
<1>3. /\ next \in [D -> Texts] /\ D \subseteq Texts /\ \A s \in D : next[s] = After(s, tag)
      /\ \A s \in D : m[next[s]] < m[s]
  <2> HIDE DEF D, m
  <2> QED
    BY <1>1, <1>2
<1>4. base \in [Texts -> Texts] /\ \A s \in Texts : base[s] = s
  OBVIOUS
<1>5. /\ comb \in [Texts -> [Texts -> Texts]]
      /\ \A s \in D : \A v \in Texts : comb[s][v] = Until(s, tag) \o v
  <2> HIDE DEF D
  <2>1. \A s \in D : \A v \in Texts : Until(s, tag) \o v \in Texts
    BY <1>2, TextConcat
  <2> QED
    BY <1>3, <2>1
<1>6. \A s \in Texts : s \in D <=> At(s, tag) # {}
  OBVIOUS
<1> HIDE DEF D, m, next, base, comb
<1>7. PICK f \in [Texts -> Texts] :
        \A s \in Texts : f[s] = IF s \in D THEN comb[s][f[next[s]]] ELSE base[s]
  <2>1. Founded(Texts, Texts, m, D, next, base, comb)
    BY <1>1, <1>3, <1>4, <1>5 DEF Founded
  <2> QED
    BY <2>1, RecursionExists
<1>8. f = Body(f)
  <2>1. ASSUME NEW s \in Texts
        PROVE  f[s] = IF At(s, tag) = {} THEN s ELSE Until(s, tag) \o f[After(s, tag)]
    <3>1. CASE s \in D
      BY <1>2, <1>3, <1>5, <1>6, <1>7, <3>1
    <3>2. CASE s \notin D
      BY <1>4, <1>6, <1>7, <3>2
    <3> QED
      BY <3>1, <3>2
  <2> QED
    BY <1>7, <2>1
<1> DEFINE e == CHOOSE g : g = Body(g)
<1>9. e = Body(e)
  <2> HIDE DEF Body
  <2>1. \E g : g = Body(g)
    BY <1>8
  <2> QED
    BY <2>1, Zenon
<1>10. \A s : Erase(s, tag) = e[s]
  BY Zenon DEF Erase, Texts
<1> HIDE DEF e
<1>11. \A s \in Texts : e[s] = IF At(s, tag) = {} THEN s ELSE Until(s, tag) \o e[After(s, tag)]
  BY <1>9
<1> DEFINE S == {s \in Texts : e[s] \in Texts}
<1>12. ASSUME NEW s \in Texts, \A t \in Texts : m[t] < m[s] => t \in S PROVE s \in S
  <2>1. CASE At(s, tag) = {}
    BY <1>11, <2>1
  <2>2. CASE At(s, tag) # {}
    <3>1. After(s, tag) \in S /\ Until(s, tag) \in Texts /\ After(s, tag) \in Texts
      <4> HIDE DEF S
      <4> QED
        BY <1>1, <1>2, <1>6, <1>12, <2>2
    <3> DEFINE v == e[After(s, tag)]
    <3>2. e[s] = Until(s, tag) \o v /\ v \in Texts
      BY <1>11, <2>2, <3>1
    <3> HIDE DEF v
    <3>3. e[s] \in Texts
      BY <3>1, <3>2, TextConcat
    <3> QED
      BY <3>3
  <2> QED
    BY <2>1, <2>2
<1>13. Texts \subseteq S
  <2> HIDE DEF S
  <2>1. \A s \in Texts : (\A t \in Texts : m[t] < m[s] => t \in S) => s \in S
    BY <1>12
  <2>2. m \in [Texts -> Nat]
    BY <1>1
  <2> QED
    BY <2>1, <2>2, AllSmaller
<1> QED
  BY <1>10, <1>11, <1>13

\* The entries that were noted stay, and each further one that is not empty
\* is among them.
LEMMA NotedAllIs ==
  ASSUME NEW entries \in Seq(Texts), NEW more \in Seq(Texts)
  PROVE  /\ NotedAll(entries, more) \in Seq(Texts)
         /\ Range(NotedAll(entries, more)) = Range(entries) \cup (Range(more) \ {<<>>})
         /\ more = <<>> => NotedAll(entries, more) = entries
<1> DEFINE X == 0 .. Len(more)
           E == Seq(Texts)
           D == 1 .. Len(more)
           m == [n \in X |-> n]
           next == [n \in D |-> n - 1]
           base == [n \in X |-> entries]
           comb == [n \in X |-> [v \in E |-> IF n \in D THEN Noted(v, more[n]) ELSE v]]
           Body(f) == [n \in X |-> IF n = 0 THEN entries ELSE Noted(f[n - 1], more[n])]
<1>0. Len(more) \in Nat /\ DOMAIN more = D /\ \A n \in D : more[n] \in Texts
  OBVIOUS
<1>1. m \in [X -> Nat] /\ \A n \in X : m[n] = n
  BY <1>0
<1>2. /\ next \in [D -> X] /\ D \subseteq X /\ \A n \in D : next[n] = n - 1
      /\ \A n \in D : m[next[n]] < m[n]
  BY <1>0, <1>1
<1>3. base \in [X -> E] /\ \A n \in X : base[n] = entries
  OBVIOUS
<1>4. /\ comb \in [X -> [E -> E]]
      /\ \A n \in D : \A v \in E : comb[n][v] = Noted(v, more[n])
  <2>1. \A n \in D : \A v \in E : Noted(v, more[n]) \in E
    BY <1>0, NotedIs
  <2> HIDE DEF D, X, E
  <2> QED
    BY <1>2, <2>1
<1>5. \A n \in X : (n \in D <=> n # 0) /\ (n # 0 => n - 1 \in X)
  BY <1>0
<1> HIDE DEF m, next, base, comb
<1>6. PICK f \in [X -> E] :
        \A n \in X : f[n] = IF n \in D THEN comb[n][f[next[n]]] ELSE base[n]
  <2> HIDE DEF X, D, E
  <2>1. Founded(X, E, m, D, next, base, comb)
    BY <1>1, <1>2, <1>3, <1>4 DEF Founded
  <2> QED
    BY <2>1, RecursionExists
<1>7. f = Body(f)
  <2> HIDE DEF X, D, E
  <2>1. ASSUME NEW n \in X PROVE f[n] = IF n = 0 THEN entries ELSE Noted(f[n - 1], more[n])
    <3>1. CASE n \in D
      <4>1. next[n] = n - 1 /\ f[n - 1] \in E /\ f[n] = comb[n][f[next[n]]] /\ n # 0
        BY <1>2, <1>5, <1>6, <3>1
      <4> QED
        BY <1>4, <3>1, <4>1
    <3>2. CASE n \notin D
      BY <1>3, <1>5, <1>6, <3>2
    <3> QED
      BY <3>1, <3>2
  <2> QED
    BY <1>6, <2>1
<1> DEFINE e == CHOOSE g : g = Body(g)
<1>8. e = Body(e)
  <2> HIDE DEF Body
  <2>1. \E g : g = Body(g)
    BY <1>7
  <2> QED
    BY <2>1, Zenon
<1>9. NotedAll(entries, more) = e[Len(more)]
  BY Zenon DEF NotedAll
<1> HIDE DEF e
<1>10. \A n \in X : e[n] = IF n = 0 THEN entries ELSE Noted(e[n - 1], more[n])
  BY <1>8
<1> DEFINE Some(n) == {more[i] : i \in 1 .. n} \ {<<>>}
           T == {n \in Nat : n <= Len(more) =>
                   e[n] \in E /\ Range(e[n]) = Range(entries) \cup Some(n)}
<1>11. 0 \in T
  BY <1>0, <1>10
<1>12. ASSUME NEW n \in Nat, n \in T PROVE n + 1 \in T
  <2> SUFFICES ASSUME n + 1 <= Len(more)
               PROVE  e[n + 1] \in E /\ Range(e[n + 1]) = Range(entries) \cup Some(n + 1)
    OBVIOUS
  <2>1. e[n] \in E /\ Range(e[n]) = Range(entries) \cup Some(n)
    BY <1>0, <1>12
  <2>2. n + 1 \in X /\ n + 1 # 0 /\ (n + 1) - 1 = n /\ n + 1 \in D
    BY <1>0
  <2>3. e[n + 1] = Noted(e[n], more[n + 1]) /\ more[n + 1] \in Texts
    <3> HIDE DEF X, D
    <3> QED
      BY <1>0, <1>10, <2>2
  <2>4. Range(e[n + 1]) = Range(e[n]) \cup ({more[n + 1]} \ {<<>>}) /\ e[n + 1] \in E
    <3> DEFINE v == e[n]
               x == more[n + 1]
    <3>1. v \in Seq(Texts) /\ x \in Texts
      BY <2>1, <2>3
    <3> HIDE DEF v, x
    <3>2. Noted(v, x) \in Seq(Texts) /\ Range(Noted(v, x)) = Range(v) \cup ({x} \ {<<>>})
      BY <3>1, NotedIs
    <3> QED
      BY <2>3, <3>2 DEF v, x
  <2>5. Some(n + 1) = Some(n) \cup ({more[n + 1]} \ {<<>>})
    OBVIOUS
  <2> HIDE DEF Some
  <2> QED
    BY <2>1, <2>4, <2>5
<1> HIDE DEF T
<1>13. Nat \subseteq T
  BY <1>11, <1>12, AllNaturals
<1>14. e[Len(more)] \in E /\ Range(e[Len(more)]) = Range(entries) \cup Some(Len(more))
  <2>1. Len(more) \in T /\ Len(more) <= Len(more)
    BY <1>0, <1>13
  <2> HIDE DEF Some
  <2> QED
    BY <2>1 DEF T
<1>15. Some(Len(more)) = Range(more) \ {<<>>}
  BY <1>0 DEF Range
<1>16. ASSUME more = <<>> PROVE e[Len(more)] = entries
  <2>1. Len(more) = 0 /\ 0 \in X
    BY <1>0, <1>16
  <2> QED
    BY <1>10, <2>1
<1> QED
  BY <1>9, <1>14, <1>15, <1>16

\* The least number is the one that is below all.
LEMMA MinOf ==
  ASSUME NEW S, S \subseteq Int, NEW x \in S, \A y \in S : x <= y
  PROVE  Min(S) = x
<1> DEFINE m == CHOOSE z \in S : \A y \in S : z <= y
<1>1. m \in S /\ \A y \in S : m <= y
  OBVIOUS
<1>2. Min(S) = m
  BY DEF Min
<1> HIDE DEF m
<1>3. m \in Int /\ x \in Int /\ m <= x /\ x <= m
  BY <1>1
<1> QED
  BY <1>2, <1>3

\* A section goes from the first opening tag to the first closing tag after
\* it.
LEMMA ClosesIs ==
  ASSUME NEW s \in Texts, At(s, ThinkStart) # {}
  PROVE  LET i == Min(At(s, ThinkStart))
             l == (i + Len(ThinkStart)) - 1
             t == After(s, ThinkStart)
         IN /\ l \in Nat /\ l <= Len(s)
            /\ \A j : j \in Closes(s, i) <=> \E k \in At(t, ThinkEnd) : j = l + k
            /\ (\E o \in At(s, ThinkStart) : Closes(s, o) # {}) <=> At(t, ThinkEnd) # {}
<1> DEFINE i == Min(At(s, ThinkStart))
           l == (i + Len(ThinkStart)) - 1
           t == After(s, ThinkStart)
           p == SubSeq(s, 1, l)
<1>1. /\ ThinkStart \in Texts /\ ThinkEnd \in Texts
      /\ Len(ThinkStart) \in Nat \ {0} /\ Len(ThinkEnd) \in Nat \ {0} /\ Len(s) \in Nat
  BY TagFacts DEF Texts
<1>2. /\ i \in At(s, ThinkStart)
      /\ i \in 1 .. (Len(s) - Len(ThinkStart)) + 1
      /\ \A o \in At(s, ThinkStart) : i <= o
  BY <1>1, FirstIs
<1>3. /\ t \in Texts /\ Len(t) = (Len(s) - i - Len(ThinkStart)) + 1
      /\ \A k \in 1 .. (Len(s) - i - Len(ThinkStart)) + 1 : t[k] = s[(i + Len(ThinkStart) - 1) + k]
  BY <1>1, AroundIs
<1> HIDE DEF i, t
<1>4. l \in Nat /\ l <= Len(s) /\ Len(t) = Len(s) - l /\ \A k \in 1 .. Len(t) : t[k] = s[l + k]
  BY <1>1, <1>2, <1>3
<1> HIDE DEF l
<1>5. p \in Texts /\ Len(p) = l /\ \A k \in 1 .. l : p[k] = s[k]
  BY <1>4, SubSeqIs DEF Texts
<1> HIDE DEF p
<1>6. p \o t = s
  <2> DEFINE c == p \o t
  <2>1. /\ c \in Texts /\ Len(c) = Len(s)
        /\ \A k \in 1 .. Len(p) : c[k] = p[k]
        /\ \A k \in 1 .. Len(t) : c[Len(p) + k] = t[k]
    <3>1. /\ c \in Texts /\ Len(c) = Len(p) + Len(t)
          /\ \A k \in 1 .. Len(p) : c[k] = p[k]
          /\ \A k \in 1 .. Len(t) : c[Len(p) + k] = t[k]
      BY <1>3, <1>5, TextConcat
    <3> HIDE DEF c
    <3> QED
      BY <1>1, <1>4, <1>5, <3>1
  <2> HIDE DEF c
  <2>2. ASSUME NEW k \in 1 .. Len(c) PROVE c[k] = s[k]
    <3>1. CASE k <= l
      BY <1>4, <1>5, <2>1, <3>1
    <3>2. CASE k > l
      <4> DEFINE d == k - l
      <4>1. d \in 1 .. Len(t) /\ l + d = k
        BY <1>1, <1>4, <2>1, <3>2
      <4> HIDE DEF d
      <4>2. c[l + d] = s[l + d]
        BY <1>4, <1>5, <2>1, <4>1
      <4> QED
        BY <4>1, <4>2
    <3> QED
      BY <1>4, <3>1, <3>2
  <2> QED
    BY <2>1, <2>2, SeqEqual DEF Texts, c
<1>7. \A k \in Nat \ {0} : l + k \in At(s, ThinkEnd) <=> k \in At(t, ThinkEnd)
  BY <1>1, <1>3, <1>5, <1>6, PlacesShift
<1>8. At(s, ThinkEnd) \subseteq Nat \ {0} /\ At(t, ThinkEnd) \subseteq Nat \ {0}
      /\ At(s, ThinkStart) \subseteq Nat
  BY DEF At
<1>9. ASSUME NEW j PROVE j \in Closes(s, i) <=> \E k \in At(t, ThinkEnd) : j = l + k
  <2>1. ASSUME j \in Closes(s, i) PROVE \E k \in At(t, ThinkEnd) : j = l + k
    <3>1. j \in At(s, ThinkEnd) /\ j >= i + Len(ThinkStart) /\ j \in Nat
      BY <1>8, <2>1 DEF Closes
    <3>2. j - l \in Nat \ {0} /\ l + (j - l) = j
      BY <1>1, <1>2, <3>1 DEF l
    <3> QED
      BY <1>7, <3>1, <3>2
  <2>2. ASSUME NEW k \in At(t, ThinkEnd), j = l + k PROVE j \in Closes(s, i)
    <3>1. k \in Nat \ {0} /\ l + k \in At(s, ThinkEnd)
      BY <1>7, <1>8, <2>2
    <3>2. l + k >= i + Len(ThinkStart)
      BY <1>1, <1>2, <3>1 DEF l
    <3> QED
      BY <2>2, <3>1, <3>2 DEF Closes
  <2> QED
    BY <2>1, <2>2
<1>10. ASSUME NEW o \in At(s, ThinkStart), Closes(s, o) # {} PROVE Closes(s, i) # {}
  <2>1. PICK j : j \in At(s, ThinkEnd) /\ j >= o + Len(ThinkStart)
    BY <1>10 DEF Closes
  <2>2. j >= i + Len(ThinkStart)
    BY <1>1, <1>2, <1>8, <2>1
  <2> QED
    BY <2>1, <2>2 DEF Closes
<1>11. (\E o \in At(s, ThinkStart) : Closes(s, o) # {}) <=> At(t, ThinkEnd) # {}
  <2>1. Closes(s, i) # {} <=> At(t, ThinkEnd) # {}
    BY <1>9
  <2> QED
    BY <1>2, <1>10, <2>1
<1> QED
  BY <1>4, <1>9, <1>11 DEF i, l, t

\* The first section and what is around it are found as by dividing.
LEMMA FirstSection ==
  ASSUME NEW s \in Texts, At(s, ThinkStart) # {}, At(After(s, ThinkStart), ThinkEnd) # {}
  PROVE  LET opened == {o \in At(s, ThinkStart) : Closes(s, o) # {}}
             i == Min(opened)
             j == Min(Closes(s, i))
             t == After(s, ThinkStart)
         IN /\ opened # {}
            /\ Before(s, i) = Until(s, ThinkStart)
            /\ SubSeq(s, i + Len(ThinkStart), j - 1) = Until(t, ThinkEnd)
            /\ From(s, j + Len(ThinkEnd)) = After(t, ThinkEnd)
<1> DEFINE opened == {o \in At(s, ThinkStart) : Closes(s, o) # {}}
           i == Min(At(s, ThinkStart))
           n == Len(ThinkStart)
           l == (i + n) - 1
           t == After(s, ThinkStart)
           k == Min(At(t, ThinkEnd))
           e == Len(ThinkEnd)
<1>1. /\ ThinkStart \in Texts /\ ThinkEnd \in Texts
      /\ n \in Nat \ {0} /\ e \in Nat \ {0} /\ Len(s) \in Nat
  BY TagFacts DEF Texts
<1>2. /\ i \in At(s, ThinkStart) /\ i \in 1 .. (Len(s) - n) + 1
      /\ \A o \in At(s, ThinkStart) : i <= o
  BY <1>1, FirstIs
<1>3. /\ t \in Texts /\ Len(t) = (Len(s) - i - n) + 1
      /\ \A x \in 1 .. (Len(s) - i - n) + 1 : t[x] = s[(i + n - 1) + x]
  BY <1>1, AroundIs
<1>4. /\ \A j : j \in Closes(s, i) <=> \E x \in At(t, ThinkEnd) : j = l + x
      /\ \E o \in At(s, ThinkStart) : Closes(s, o) # {}
  BY ClosesIs
<1>5. /\ k \in At(t, ThinkEnd) /\ k \in 1 .. (Len(t) - e) + 1
      /\ \A x \in At(t, ThinkEnd) : k <= x
  BY <1>1, <1>3, FirstIs
<1>6. /\ Until(t, ThinkEnd) \in Texts /\ Len(Until(t, ThinkEnd)) = k - 1
      /\ \A x \in 1 .. k - 1 : Until(t, ThinkEnd)[x] = t[x]
      /\ After(t, ThinkEnd) \in Texts /\ Len(After(t, ThinkEnd)) = (Len(t) - k - e) + 1
      /\ \A x \in 1 .. (Len(t) - k - e) + 1 : After(t, ThinkEnd)[x] = t[(k + e - 1) + x]
  BY <1>1, <1>3, AroundIs
<1>7. At(s, ThinkStart) \subseteq Int /\ At(t, ThinkEnd) \subseteq Int /\ Closes(s, i) \subseteq Int
  BY DEF At, Closes
<1> HIDE DEF i, t, k, n, e
<1>8. Min(opened) = i /\ opened # {}
  <2>1. i \in opened /\ opened \subseteq Int /\ \A y \in opened : i <= y
    BY <1>2, <1>4, <1>5, <1>7
  <2> HIDE DEF opened
  <2> QED
    BY <2>1, MinOf
<1>9. Min(Closes(s, i)) = l + k
  <2>1. l + k \in Closes(s, i) /\ \A y \in Closes(s, i) : l + k <= y
    <3>1. l \in Int
      BY <1>1, <1>2
    <3> HIDE DEF l
    <3> QED
      BY <1>4, <1>5, <1>7, <3>1
  <2> QED
    BY <1>7, <2>1, MinOf
<1> DEFINE a == SubSeq(s, i + n, (l + k) - 1)
           b == SubSeq(s, (l + k) + e, Len(s))
<1>10. a = Until(t, ThinkEnd)
  <2>1. i + n \in Nat \ {0} /\ (l + k) - 1 \in Nat /\ (l + k) - 1 <= Len(s) /\ i + n <= ((l + k) - 1) + 1
        /\ (((l + k) - 1) - (i + n)) + 1 = k - 1
    BY <1>1, <1>2, <1>3, <1>5
  <2>2. a \in Texts /\ Len(a) = k - 1 /\ \A x \in 1 .. k - 1 : a[x] = s[((i + n) - 1) + x]
    BY <2>1, SubSeqIs DEF Texts
  <2> HIDE DEF a
  <2>3. \A x \in 1 .. k - 1 : a[x] = Until(t, ThinkEnd)[x]
    BY <1>1, <1>2, <1>3, <1>5, <1>6, <2>2
  <2> QED
    BY <1>6, <2>2, <2>3, SeqEqual DEF Texts
<1>11. b = After(t, ThinkEnd)
  <2> DEFINE c == (l + k) + e
             z == (Len(t) - k - e) + 1
  <2>1. c \in Nat \ {0} /\ Len(s) <= Len(s) /\ c <= Len(s) + 1 /\ (Len(s) - c) + 1 = z
    BY <1>1, <1>2, <1>3, <1>5
  <2>2. b \in Texts /\ Len(b) = z /\ \A x \in 1 .. z : b[x] = s[(c - 1) + x]
    <3> HIDE DEF c, z
    <3>1. SubSeq(s, c, Len(s)) = b
      BY DEF c
    <3> HIDE DEF b
    <3> QED
      <4> DEFINE d == SubSeq(s, c, Len(s))
                 g == Len(s)
      <4>1. s \in Seq(Symbols) /\ g \in Nat /\ g <= Len(s) /\ c <= g + 1 /\ (g - c) + 1 = z
        BY <1>1, <2>1 DEF Texts
      <4>2. d = SubSeq(s, c, g)
        OBVIOUS
      <4> HIDE DEF d, g
      <4>3. d \in Seq(Symbols) /\ Len(d) = (g - c) + 1 /\ \A x \in 1 .. (g - c) + 1 : d[x] = s[(c - 1) + x]
        BY <2>1, <4>1, <4>2, SubSeqIs
      <4> QED
        BY <3>1, <4>1, <4>3 DEF d, Texts
  <2> HIDE DEF b
  <2>3. ASSUME NEW x \in 1 .. z PROVE b[x] = After(t, ThinkEnd)[x]
    <3> DEFINE y == (k + e - 1) + x
    <3>1. y \in 1 .. (Len(s) - i - n) + 1 /\ (i + n - 1) + y = (c - 1) + x
      BY <1>1, <1>2, <1>3, <1>5
    <3> HIDE DEF c, z
    <3>2. After(t, ThinkEnd)[x] = t[y]
      BY <1>6 DEF z
    <3> HIDE DEF y
    <3>3. t[y] = s[(c - 1) + x]
      BY <1>3, <3>1
    <3> QED
      BY <2>2, <3>2, <3>3
  <2> HIDE DEF c
  <2> QED
    BY <1>6, <2>2, <2>3, SeqEqual DEF Texts
<1>12. Before(s, i) = Until(s, ThinkStart)
  BY DEF Until, i
<1>13. From(s, (l + k) + e) = b
  BY DEF From
<1> HIDE DEF a, b, opened
<1>14. SubSeq(s, i + n, (l + k) - 1) = a
  BY DEF a
<1> QED
  BY <1>8, <1>9, <1>10, <1>11, <1>12, <1>13, <1>14, Zenon DEF opened, n, e, t

\* A text without its sections, and the sections.
Parted == [clean: Texts, thoughts: Seq(Texts)]

\* There is a section.
Sectioned(s) == At(s, ThinkStart) # {} /\ At(After(s, ThinkStart), ThinkEnd) # {}

\* What follows the first section.
Behind(s) == After(After(s, ThinkStart), ThinkEnd)

\* The text with its first section taken out, v being what follows it.
Parts(s, v) ==
  [clean    |-> Until(s, ThinkStart) \o v.clean,
   thoughts |-> <<Until(After(s, ThinkStart), ThinkEnd)>> \o v.thoughts]

\* What follows the first section is shorter.
LEMMA SectionedIs ==
  ASSUME NEW s \in Texts, Sectioned(s)
  PROVE  /\ Until(s, ThinkStart) \in Texts
         /\ Until(After(s, ThinkStart), ThinkEnd) \in Texts
         /\ Behind(s) \in Texts /\ Len(Behind(s)) < Len(s)
<1> DEFINE t == After(s, ThinkStart)
<1>1. Until(s, ThinkStart) \in Texts /\ t \in Texts /\ Len(t) < Len(s)
  BY TagFacts, AroundIs DEF Sectioned
<1>2. Until(t, ThinkEnd) \in Texts /\ Behind(s) \in Texts /\ Len(Behind(s)) < Len(t)
  <2>1. After(t, ThinkEnd) = Behind(s) /\ At(t, ThinkEnd) # {}
    BY DEF Behind, Sectioned
  <2> HIDE DEF t
  <2> QED
    BY <1>1, <2>1, TagFacts, AroundIs
<1>3. Len(s) \in Nat /\ Len(t) \in Nat /\ Len(Behind(s)) \in Nat
  BY <1>1, <1>2 DEF Texts
<1> QED
  BY <1>1, <1>2, <1>3

\* The recursion that takes out the sections is well founded.
LEMMA SectionsIs ==
  /\ Sections \in [Texts -> Parted]
  /\ \A s \in Texts : Sections[s] = IF Sectioned(s) THEN Parts(s, Sections[Behind(s)])
                                    ELSE [clean |-> s, thoughts |-> <<>>]
<1> DEFINE D == {s \in Texts : Sectioned(s)}
           m == [s \in Texts |-> Len(s)]
           next == [s \in D |-> Behind(s)]
           base == [s \in Texts |-> [clean |-> s, thoughts |-> <<>>]]
           comb == [s \in Texts |-> [v \in Parted |-> IF s \in D THEN Parts(s, v) ELSE v]]
           Opened(s) == {i \in At(s, ThinkStart) : Closes(s, i) # {}}
           First(s) == Min(Opened(s))
           Last1(s) == Min(Closes(s, First(s)))
           Divided(f, s) ==
             IF Opened(s) = {} THEN [clean |-> s, thoughts |-> <<>>]
             ELSE [clean    |-> Before(s, First(s)) \o f[From(s, Last1(s) + Len(ThinkEnd))].clean,
                   thoughts |-> <<SubSeq(s, First(s) + Len(ThinkStart), Last1(s) - 1)>>
                                  \o f[From(s, Last1(s) + Len(ThinkEnd))].thoughts]
           Body(f) == [s \in Texts |-> Divided(f, s)]
<1>1. m \in [Texts -> Nat] /\ \A s \in Texts : m[s] = Len(s)
  BY DEF Texts
<1>2. /\ next \in [D -> Texts] /\ D \subseteq Texts /\ \A s \in D : next[s] = Behind(s)
      /\ \A s \in D : m[next[s]] < m[s]
  BY <1>1, SectionedIs
<1>3. base \in [Texts -> Parted] /\ \A s \in Texts : base[s] = [clean |-> s, thoughts |-> <<>>]
  BY DEF Parted, Texts
<1>4. ASSUME NEW s \in D, NEW v \in Parted PROVE Parts(s, v) \in Parted
  <2>1. v.clean \in Texts /\ v.thoughts \in Seq(Texts)
    BY DEF Parted
  <2>2. Until(s, ThinkStart) \in Texts /\ Until(After(s, ThinkStart), ThinkEnd) \in Texts
    BY SectionedIs
  <2>3. Until(s, ThinkStart) \o v.clean \in Texts
    BY <2>1, <2>2, TextConcat
  <2>4. <<Until(After(s, ThinkStart), ThinkEnd)>> \o v.thoughts \in Seq(Texts)
    BY <2>1, <2>2
  <2> QED
    BY <2>3, <2>4 DEF Parts, Parted
<1>5. /\ comb \in [Texts -> [Parted -> Parted]]
      /\ \A s \in D : \A v \in Parted : comb[s][v] = Parts(s, v)
  <2> HIDE DEF D
  <2> QED
    BY <1>2, <1>4
<1>6. \A s \in Texts : s \in D <=> Sectioned(s)
  OBVIOUS
<1> HIDE DEF D, m, next, base, comb
<1>7. PICK f \in [Texts -> Parted] :
        \A s \in Texts : f[s] = IF s \in D THEN comb[s][f[next[s]]] ELSE base[s]
  <2>1. Founded(Texts, Parted, m, D, next, base, comb)
    BY <1>1, <1>2, <1>3, <1>5 DEF Founded
  <2> QED
    BY <2>1, RecursionExists
<1>8. ASSUME NEW g, NEW s \in Texts
      PROVE  Divided(g, s) = IF Sectioned(s) THEN Parts(s, g[Behind(s)])
                             ELSE [clean |-> s, thoughts |-> <<>>]
  <2>1. CASE Sectioned(s)
    <3>1. /\ Opened(s) # {}
          /\ Before(s, First(s)) = Until(s, ThinkStart)
          /\ SubSeq(s, First(s) + Len(ThinkStart), Last1(s) - 1) = Until(After(s, ThinkStart), ThinkEnd)
          /\ From(s, Last1(s) + Len(ThinkEnd)) = Behind(s)
      BY <2>1, FirstSection DEF Sectioned, Behind
    <3> HIDE DEF Opened, First, Last1
    <3> QED
      BY <2>1, <3>1 DEF Parts
  <2>2. CASE ~Sectioned(s)
    <3>1. Opened(s) = {}
      BY <2>2, ClosesIs DEF Sectioned
    <3> QED
      BY <2>2, <3>1
  <2> QED
    BY <2>1, <2>2
<1> HIDE DEF Divided
<1>9. f = Body(f)
  <2>1. ASSUME NEW s \in Texts PROVE f[s] = Divided(f, s)
    <3>1. CASE s \in D
      BY <1>2, <1>5, <1>6, <1>7, <1>8, <3>1
    <3>2. CASE s \notin D
      BY <1>3, <1>6, <1>7, <1>8, <3>2
    <3> QED
      BY <3>1, <3>2
  <2> QED
    BY <1>7, <2>1
<1>10. Sections = Body(Sections)
  <2>1. \E g : g = Body(g)
    BY <1>9
  <2>2. Sections = CHOOSE g : g = Body(g)
    BY Zenon DEF Sections, Divided, Texts
  <2> HIDE DEF Body
  <2> QED
    BY <2>1, <2>2, Zenon
<1>11. \A s \in Texts : Sections[s] = Divided(Sections, s)
  BY <1>10
<1> DEFINE S == {s \in Texts : Sections[s] \in Parted}
<1>12. ASSUME NEW s \in Texts, \A t \in Texts : m[t] < m[s] => t \in S PROVE s \in S
  <2>1. CASE Sectioned(s)
    <3>1. Behind(s) \in S
      <4> HIDE DEF S
      <4> QED
        BY <1>1, <1>12, <2>1, SectionedIs
    <3> DEFINE v == Sections[Behind(s)]
    <3>2. Sections[s] = Parts(s, v) /\ v \in Parted /\ s \in D
      BY <1>6, <1>8, <1>11, <2>1, <3>1
    <3> HIDE DEF v
    <3>3. Sections[s] \in Parted
      BY <1>4, <3>2
    <3> QED
      BY <3>3
  <2>2. CASE ~Sectioned(s)
    <3>1. Sections[s] = base[s] /\ base[s] \in Parted
      BY <1>3, <1>8, <1>11, <2>2
    <3> QED
      BY <3>1
  <2> QED
    BY <2>1, <2>2
<1>13. Texts \subseteq S
  <2> HIDE DEF S
  <2>1. \A s \in Texts : (\A t \in Texts : m[t] < m[s] => t \in S) => s \in S
    BY <1>12
  <2>2. m \in [Texts -> Nat]
    BY <1>1
  <2> QED
    BY <2>1, <2>2, AllSmaller
<1>14. Sections = [s \in Texts |-> Sections[s]]
  BY <1>10
<1> QED
  BY <1>8, <1>11, <1>13, <1>14

\* Unless it ends in a thought, the sections of a text are what it says and
\* thinks.
LEMMA SectionsAreWhole ==
  ASSUME NEW s \in Texts, ~Division[s].open
  PROVE  Sections[s].clean = Division[s].answer /\ Sections[s].thoughts = Division[s].thoughts
<1> DEFINE Same(t) == ~Division[t].open => /\ Sections[t].clean = Division[t].answer
                                           /\ Sections[t].thoughts = Division[t].thoughts
           S == {t \in Texts : Same(t)}
           m == [t \in Texts |-> Len(t)]
<1>1. m \in [Texts -> Nat] /\ \A t \in Texts : m[t] = Len(t)
  BY DEF Texts
<1>2. ASSUME NEW t \in Texts, \A x \in Texts : m[x] < m[t] => x \in S PROVE t \in S
  <2> SUFFICES ASSUME ~Division[t].open
               PROVE  /\ Sections[t].clean = Division[t].answer
                      /\ Sections[t].thoughts = Division[t].thoughts
    OBVIOUS
  <2>1. CASE At(t, ThinkStart) = {}
    <3>1. Division[t] = [answer |-> t, thoughts |-> <<>>, open |-> FALSE]
      BY <2>1, DivisionIs
    <3>2. Sections[t] = [clean |-> t, thoughts |-> <<>>]
      BY <2>1, SectionsIs DEF Sectioned
    <3> QED
      BY <3>1, <3>2
  <2>2. CASE At(t, ThinkStart) # {}
    <3> DEFINE a == After(t, ThinkStart)
               w == FromThought(a, Division)
               h == Until(t, ThinkStart)
    <3>1. Division[t] = [w EXCEPT !.answer = h \o @]
      BY <2>2, DivisionIs
    <3>2. a \in Texts /\ h \in Texts
      BY <2>2, TagFacts, AroundIs
    <3>3. w \in Divisions
      <4>1. w = Whole(a, TRUE)
        BY Zenon DEF Whole
      <4> HIDE DEF w, a
      <4> QED
        BY <3>2, <4>1, WholeIs, Zenon
    <3> HIDE DEF h
    <3>4. Division[t] = [answer |-> h \o w.answer, thoughts |-> w.thoughts, open |-> w.open]
      <4> HIDE DEF w
      <4> QED
        BY <3>1, <3>3, PutBefore
    <3>5. ~w.open
      <4> HIDE DEF w
      <4> QED
        BY <3>4
    <3>6. At(a, ThinkEnd) # {}
      <4> SUFFICES ASSUME At(a, ThinkEnd) = {} PROVE FALSE
        OBVIOUS
      <4>1. w = [answer |-> <<>>, thoughts |-> <<a>>, open |-> TRUE]
        BY DEF FromThought
      <4> HIDE DEF w
      <4> QED
        BY <3>5, <4>1
    <3> DEFINE v == Division[After(a, ThinkEnd)]
               g == Until(a, ThinkEnd)
    <3>7. w = [v EXCEPT !.thoughts = <<g>> \o @]
      BY <3>6 DEF FromThought
    <3>8. /\ Sectioned(t) /\ After(a, ThinkEnd) = Behind(t)
          /\ Sections[t] = Parts(t, Sections[Behind(t)])
      BY <2>2, <3>6, SectionsIs DEF Sectioned, Behind
    <3>9. Behind(t) \in S /\ Behind(t) \in Texts
      <4> HIDE DEF S
      <4> QED
        BY <1>1, <1>2, <3>8, SectionedIs
    <3>10. v \in Divisions /\ v = Division[Behind(t)]
      BY <3>8, <3>9, DivisionIs
    <3> DEFINE z == Sections[Behind(t)]
    <3>11. ~v.open => z.clean = v.answer /\ z.thoughts = v.thoughts
      BY <3>9, <3>10
    <3>12. Sections[t] = [clean |-> h \o z.clean, thoughts |-> <<g>> \o z.thoughts]
      BY <3>8 DEF Parts, h
    <3> HIDE DEF v, w, g, z
    <3>13. w = [answer |-> v.answer, thoughts |-> <<g>> \o v.thoughts, open |-> v.open]
      BY <3>7, <3>10, PutBefore
    <3> QED
      <4>1. w.answer = v.answer /\ w.thoughts = <<g>> \o v.thoughts /\ w.open = v.open
        BY <3>13
      <4>2. ~v.open
        BY <3>5, <4>1, Zenon
      <4>3. Division[t].answer = h \o w.answer /\ Division[t].thoughts = w.thoughts
        BY <3>4
      <4>4. Sections[t].clean = h \o z.clean /\ Sections[t].thoughts = <<g>> \o z.thoughts
        BY <3>12
      <4> QED
        BY <3>11, <4>1, <4>2, <4>3, <4>4, Zenon
  <2> QED
    BY <2>1, <2>2
<1>3. Texts \subseteq S
  <2> HIDE DEF S, m
  <2>1. \A t \in Texts : (\A x \in Texts : m[x] < m[t] => x \in S) => t \in S
    BY <1>2
  <2>2. m \in [Texts -> Nat]
    BY <1>1
  <2> QED
    BY <2>1, <2>2, AllSmaller
<1> QED
  BY <1>3

\* A text without tags is left as it is; sections are taken out if there are any.
LEMMA ExtractIs ==
  ASSUME NEW s \in Texts
  PROVE  /\ Extract(s) \in Parted
         /\ At(s, ThinkStart) = {} /\ At(s, ThinkEnd) = {} =>
              Extract(s) = [clean |-> s, thoughts |-> <<>>]
         /\ Sections[s].thoughts # <<>> => Extract(s) = Sections[s]
<1>1. Sections[s] \in Parted
  BY SectionsIs
<1>2. CASE Sections[s].thoughts # <<>>
  <2>1. Extract(s) = Sections[s]
    BY <1>2 DEF Extract
  <2>2. ~ (At(s, ThinkStart) = {} /\ At(s, ThinkEnd) = {})
    <3> SUFFICES ASSUME At(s, ThinkStart) = {} PROVE FALSE
      OBVIOUS
    <3>1. Sections[s] = [clean |-> s, thoughts |-> <<>>]
      BY SectionsIs DEF Sectioned
    <3> QED
      BY <1>2, <3>1
  <2> QED
    BY <1>1, <1>2, <2>1, <2>2
<1>3. CASE Sections[s].thoughts = <<>> /\ At(s, ThinkEnd) # {}
  <2> DEFINE a == After(s, ThinkEnd)
             u == Until(s, ThinkEnd)
  <2>1. a \in Texts /\ u \in Texts
    BY <1>3, TagFacts, AroundIs
  <2>2. Extract(s) = [clean    |-> Erase(Erase(a, ThinkStart), ThinkEnd),
                      thoughts |-> <<Erase(u, ThinkStart)>>]
    BY <1>3 DEF Extract
  <2> HIDE DEF a, u
  <2>3. Erase(Erase(a, ThinkStart), ThinkEnd) \in Texts /\ Erase(u, ThinkStart) \in Texts
    BY <2>1, TagFacts, EraseIs
  <2>4. <<Erase(u, ThinkStart)>> \in Seq(Texts)
    BY <2>3
  <2> QED
    BY <1>3, <2>2, <2>3, <2>4 DEF Parted
<1>4. CASE Sections[s].thoughts = <<>> /\ At(s, ThinkEnd) = {}
  <2> DEFINE e == Erase(s, ThinkStart)
  <2>1. Extract(s) = [clean |-> Erase(e, ThinkEnd), thoughts |-> <<>>]
    BY <1>4 DEF Extract
  <2>2. e \in Texts /\ (At(s, ThinkStart) = {} => e = s)
    BY TagFacts, EraseIs
  <2> HIDE DEF e
  <2>3. Erase(e, ThinkEnd) \in Texts /\ (At(e, ThinkEnd) = {} => Erase(e, ThinkEnd) = e)
    BY <2>2, TagFacts, EraseIs
  <2>4. <<>> \in Seq(Texts)
    OBVIOUS
  <2> QED
    BY <1>4, <2>1, <2>2, <2>3, <2>4 DEF Parted
<1> QED
  BY <1>2, <1>3, <1>4

\* At the start, and at the first tool call, nothing is said.
LEMMA AnswersStart ==
  ASSUME NEW r \in Replies, r.full = <<>>, r.buffer = <<>>
  PROVE  Answers(r, <<>>, r.thinking)
<1> SUFFICES ASSUME NEW u \in Texts
             PROVE  Whole(<<>> \o u, r.thinking).answer = r.full \o Whole(r.buffer \o u, r.thinking).answer
  BY DEF Answers
<1> DEFINE a == Whole(u, r.thinking).answer
<1>1. r.thinking \in BOOLEAN /\ <<>> \o u = u
  BY ConcatEmpty DEF Replies, Texts
<1>2. Whole(u, r.thinking) \in Divisions
  BY <1>1, WholeIs
<1>3. a \in Texts
  BY <1>2 DEF Divisions
<1> HIDE DEF a
<1>4. r.full \o a = a
  BY <1>3, ConcatEmpty DEF Texts
<1>5. Whole(<<>> \o u, r.thinking).answer = a /\ Whole(r.buffer \o u, r.thinking).answer = a
  BY <1>1 DEF a
<1> QED
  BY <1>4, <1>5

\* At the start nothing is thought.
LEMMA ThoughtsStart ==
  ASSUME NEW r \in Replies, r.buffer = <<>>, r.thinking = FALSE, r.thought = <<>>, r.step = <<>>,
         r.entries = <<>>
  PROVE  Thoughts(r, <<>>)
<1>1. /\ <<>> \in Seq(Texts) /\ FlattenSeq(<<>>) = <<>> /\ <<>> \o <<>> = <<>>
      /\ Range(<<>>) \ {<<>>} = Range(<<>>)
  <2>1. <<>> \in Seq(Texts) /\ <<>> \in Seq(Seq(Symbols)) /\ <<>> \in Seq(Symbols)
    OBVIOUS
  <2>2. Range(<<>>) = {}
    BY DEF Range
  <2> QED
    BY <2>1, <2>2, FlattenIs, ConcatEmpty
<1>2. ASSUME NEW u \in Texts
      PROVE  /\ Division[<<>> \o u].open = Whole(r.buffer \o u, r.thinking).open
             /\ Division[<<>> \o u].thoughts
                  = <<>> \o Goes(r, Whole(r.buffer \o u, r.thinking).thoughts)
  <2> DEFINE w == Division[u]
             v == Whole(r.buffer \o u, r.thinking)
  <2>1. <<>> \o u = u
    BY ConcatEmpty DEF Texts
  <2>2. w \in Divisions
    BY DivisionIs
  <2>3. v = w
    <3>1. v = Whole(u, FALSE)
      BY <2>1, Zenon
    <3>2. Whole(u, FALSE) = Division[u]
      BY DEF Whole
    <3> QED
      BY <3>1, <3>2, Zenon
  <2>4. Division[<<>> \o u] = w
    BY <2>1
  <2> HIDE DEF w, v
  <2>5. Goes(r, v.thoughts) = v.thoughts
    BY DEF Goes
  <2>6. <<>> \o w.thoughts = w.thoughts
    <3>1. w.thoughts \in Seq(Texts)
      BY <2>2 DEF Divisions
    <3> QED
      BY <3>1, ConcatEmpty
  <2>7. w.open = v.open /\ w.thoughts = <<>> \o Goes(r, v.thoughts)
    BY <2>3, <2>5, <2>6, Zenon
  <2> QED
    BY <2>4, <2>7, Zenon DEF v
<1>3. Ended(r, <<>>, <<>>)
  <2>1. /\ r.thought = FlattenSeq(<<>>) \o r.step
        /\ Range(r.entries) = Range(<<>>) \ {<<>>}
    BY <1>1
  <2> QED
    BY <1>1, <1>2, <2>1 DEF Ended
<1> QED
  BY <1>3, Zenon DEF Thoughts

\* What is added to the buffer is added to the text.
LEMMA MoreText ==
  ASSUME NEW r \in Replies, NEW x \in Texts
  PROVE  LET n == [r EXCEPT !.buffer = r.buffer \o x]
         IN /\ n \in Replies /\ n.called = r.called
            /\ \A s \in Texts, b \in BOOLEAN : Answers(r, s, b) => Answers(n, s \o x, b)
            /\ \A s \in Texts : Thoughts(r, s) => Thoughts(n, s \o x)
<1> DEFINE y == r.buffer \o x
           n == [r EXCEPT !.buffer = y]
<1>1. r.buffer \in Texts /\ y \in Texts
  BY TextConcat DEF Replies, Texts
<1> HIDE DEF y
<1>2. /\ n \in Replies /\ n.called = r.called /\ n.buffer = y /\ n.full = r.full
      /\ n.thinking = r.thinking /\ n.thought = r.thought /\ n.step = r.step /\ n.entries = r.entries
  BY <1>1 DEF Replies, Texts
<1> HIDE DEF n
<1>3. \A u \in Texts : x \o u \in Texts /\ n.buffer \o u = r.buffer \o (x \o u)
  <2>1. \A u \in Texts : x \o u \in Texts /\ (r.buffer \o x) \o u = r.buffer \o (x \o u)
    <3> DEFINE z == r.buffer
    <3>1. z \in Texts
      BY <1>1
    <3> HIDE DEF z
    <3>2. \A u \in Texts : x \o u \in Texts /\ (z \o x) \o u = z \o (x \o u)
      BY <3>1, TextConcat, TextAssoc
    <3> QED
      BY <3>2 DEF z
  <2> QED
    BY <1>2, <2>1, Zenon DEF y
<1>4. \A s \in Texts, u \in Texts : (s \o x) \o u = s \o (x \o u)
  BY TextAssoc
<1>5. ASSUME NEW s \in Texts, NEW b \in BOOLEAN, Answers(r, s, b) PROVE Answers(n, s \o x, b)
  <2> SUFFICES ASSUME NEW u \in Texts
               PROVE  Whole((s \o x) \o u, b).answer = n.full \o Whole(n.buffer \o u, n.thinking).answer
    BY DEF Answers
  <2>1. Whole(s \o (x \o u), b).answer = r.full \o Whole(r.buffer \o (x \o u), r.thinking).answer
    BY <1>3, <1>5 DEF Answers
  <2> QED
    BY <1>2, <1>3, <1>4, <2>1, Zenon
<1>6. ASSUME NEW s \in Texts, Thoughts(r, s) PROVE Thoughts(n, s \o x)
  <2>1. PICK done : Ended(r, s, done)
    BY <1>6 DEF Thoughts
  <2>2. ASSUME NEW u \in Texts
        PROVE  /\ Division[(s \o x) \o u].open = Whole(n.buffer \o u, n.thinking).open
               /\ Division[(s \o x) \o u].thoughts
                    = done \o Goes(n, Whole(n.buffer \o u, n.thinking).thoughts)
    <3>1. /\ Division[s \o (x \o u)].open = Whole(r.buffer \o (x \o u), r.thinking).open
          /\ Division[s \o (x \o u)].thoughts
               = done \o Goes(r, Whole(r.buffer \o (x \o u), r.thinking).thoughts)
      BY <1>3, <2>1 DEF Ended
    <3>2. \A ts : Goes(n, ts) = Goes(r, ts)
      BY <1>2 DEF Goes
    <3> QED
      BY <1>2, <1>3, <1>4, <3>1, <3>2, Zenon
  <2>3. Ended(n, s \o x, done)
    BY <1>2, <2>1, <2>2 DEF Ended
  <2> QED
    BY <2>3, Zenon DEF Thoughts
<1> QED
  BY <1>2, <1>5, <1>6 DEF n, y

\* A text from its beginning, and from its end.
LEMMA TextFrom ==
  ASSUME NEW s \in Texts, NEW x \in Texts, NEW c \in Nat, c <= Len(s)
  PROVE  /\ From(s, c + 1) \in Texts
         /\ From(s \o x, c + 1) = From(s, c + 1) \o x
         /\ c = 0 => From(s, c + 1) = s
         /\ c = Len(s) => From(s, c + 1) = <<>>
<1> DEFINE t == s \o x
           p == SubSeq(s, c + 1, Len(s))
           q == SubSeq(t, c + 1, Len(t))
           v == p \o x
<1>1. /\ t \in Texts /\ Len(s) \in Nat /\ Len(x) \in Nat /\ Len(t) = Len(s) + Len(x)
      /\ \A k \in 1 .. Len(s) : t[k] = s[k]
      /\ \A k \in 1 .. Len(x) : t[Len(s) + k] = x[k]
  BY TextConcat
<1> HIDE DEF t
<1>2. p \in Texts /\ Len(p) = Len(s) - c /\ \A k \in 1 .. Len(s) - c : p[k] = s[c + k]
  <2>1. c + 1 \in Nat \ {0} /\ c + 1 <= Len(s) + 1 /\ (Len(s) - (c + 1)) + 1 = Len(s) - c /\ (c + 1) - 1 = c
    BY <1>1
  <2> DEFINE d == c + 1
             g == Len(s)
  <2> HIDE DEF d, g
  <2>2. /\ SubSeq(s, d, g) \in Seq(Symbols) /\ Len(SubSeq(s, d, g)) = (g - d) + 1
        /\ \A k \in 1 .. (g - d) + 1 : SubSeq(s, d, g)[k] = s[(d - 1) + k]
    <3>1. s \in Seq(Symbols) /\ d \in Nat \ {0} /\ g \in Nat /\ g <= Len(s) /\ d <= g + 1
      BY <1>1, <2>1 DEF Texts, d, g
    <3> QED
      BY <3>1, SubSeqIs
  <2>3. p = SubSeq(s, d, g)
    BY DEF d, g
  <2> HIDE DEF p
  <2> QED
    BY <2>1, <2>2, <2>3 DEF Texts, d, g
<1>3. q \in Texts /\ Len(q) = Len(t) - c /\ \A k \in 1 .. Len(t) - c : q[k] = t[c + k]
  <2>1. c + 1 \in Nat \ {0} /\ c + 1 <= Len(t) + 1 /\ (Len(t) - (c + 1)) + 1 = Len(t) - c /\ (c + 1) - 1 = c
        /\ Len(t) \in Nat
    BY <1>1
  <2> DEFINE d == c + 1
             g == Len(t)
  <2> HIDE DEF d, g
  <2>2. /\ SubSeq(t, d, g) \in Seq(Symbols) /\ Len(SubSeq(t, d, g)) = (g - d) + 1
        /\ \A k \in 1 .. (g - d) + 1 : SubSeq(t, d, g)[k] = t[(d - 1) + k]
    <3>1. t \in Seq(Symbols) /\ d \in Nat \ {0} /\ g \in Nat /\ g <= Len(t) /\ d <= g + 1
      BY <1>1, <2>1 DEF Texts, d, g
    <3> QED
      BY <3>1, SubSeqIs
  <2>3. q = SubSeq(t, d, g)
    BY DEF d, g
  <2> HIDE DEF q
  <2> QED
    BY <2>1, <2>2, <2>3 DEF Texts, d, g
<1> HIDE DEF p, q
<1>4. /\ v \in Texts /\ Len(v) = Len(p) + Len(x)
      /\ \A k \in 1 .. Len(p) : v[k] = p[k]
      /\ \A k \in 1 .. Len(x) : v[Len(p) + k] = x[k]
  BY <1>2, TextConcat
<1> HIDE DEF v
<1>5. ASSUME NEW k \in 1 .. Len(q) PROVE q[k] = v[k]
  <2>1. CASE k <= Len(p)
    BY <1>1, <1>2, <1>3, <1>4, <2>1
  <2>2. CASE k > Len(p)
    <3> DEFINE d == k - Len(p)
    <3>1. d \in 1 .. Len(x) /\ Len(p) + d = k /\ Len(s) + d = c + k
      BY <1>1, <1>2, <1>3, <2>2
    <3> HIDE DEF d
    <3>2. v[k] = x[d] /\ t[c + k] = x[d]
      BY <1>1, <1>4, <3>1
    <3> QED
      BY <1>3, <3>2
  <2> QED
    BY <1>1, <1>2, <2>1, <2>2
<1>6. q = v
  <2>1. Len(q) = Len(v)
    BY <1>1, <1>2, <1>3, <1>4
  <2> QED
    BY <1>3, <1>4, <1>5, <2>1, SeqEqual DEF Texts
<1>7. c = 0 => p = s
  <2> SUFFICES ASSUME c = 0 PROVE p = s
    OBVIOUS
  <2>1. Len(p) = Len(s) /\ \A k \in 1 .. Len(p) : p[k] = s[k]
    BY <1>1, <1>2
  <2> QED
    BY <1>2, <2>1, SeqEqual DEF Texts
<1>8. c = Len(s) => p = <<>>
  BY <1>1, <1>2 DEF Texts
<1>9. From(s, c + 1) = p /\ From(t, c + 1) = q
  BY DEF From, p, q
<1> QED
  BY <1>2, <1>6, <1>7, <1>8, <1>9 DEF v, t

\* While a reply comes in: what is kept back may still become a tag, and the
\* answer and the thoughts so far, with what is kept back, are the text's.
Told ==
  /\ Len(reply.buffer) < Len(Awaited(reply))
  /\ reasoning => /\ Answers(reply, From(text, cut + 1), inThought)
                  /\ ~reply.called => Thoughts(reply, text)
  /\ ~reasoning => /\ reply.buffer = <<>> /\ reply.thinking = FALSE
                   /\ ~reply.called => reply.full = text /\ reply.entries = <<>>

\* Once it is finished nothing is kept back.
Complete ==
  /\ reply.buffer = <<>> /\ reply.thinking = FALSE
  /\ reasoning => reply.full = Expected.answer
  /\ reasoning /\ ~reply.called =>
       /\ reply.thought = FlattenSeq(Expected.thoughts)
       /\ Range(reply.entries) = Range(Expected.thoughts) \ {<<>>}
  /\ ~reply.called /\ InOrderTags(Expected) =>
       /\ stored.text = Expected.answer
       /\ Range(stored.entries) = Range(Expected.thoughts) \ {<<>>}

\* The inductive invariant.
TagInv ==
  /\ /\ reasoning \in BOOLEAN /\ text \in Texts
     /\ cut \in Nat /\ cut <= Len(text) /\ inThought \in BOOLEAN
     /\ reply \in Replies /\ stored \in [text: Texts, entries: Seq(Texts)]
     /\ mode \in {"streaming", "finished", "paused", "failed"}
  /\ ~reply.called => cut = 0 /\ inThought = FALSE
  /\ mode # "finished" => Told
  /\ mode = "finished" => Complete
  /\ mode # "streaming" => Range(reply.entries) \subseteq Range(stored.entries)

\* Before the first tool call the text counts from its beginning.
LEMMA ExpectedIs ==
  ASSUME TagInv
  PROVE  /\ From(text, cut + 1) \in Texts
         /\ Expected \in Divisions
         /\ ~reply.called => Expected = Division[text] /\ From(text, cut + 1) = text
<1>1. <<>> \in Texts /\ text \in Texts /\ cut \in Nat /\ cut <= Len(text) /\ inThought \in BOOLEAN
  BY DEF TagInv, Texts
<1>2. From(text, cut + 1) \in Texts /\ (cut = 0 => From(text, cut + 1) = text)
  BY <1>1, TextFrom
<1>3. Expected \in Divisions
  BY <1>1, <1>2, WholeIs DEF Expected
<1>4. ASSUME ~reply.called PROVE Expected = Division[text] /\ From(text, cut + 1) = text
  <2>1. cut = 0 /\ inThought = FALSE
    BY <1>4 DEF TagInv
  <2>2. Expected = Whole(text, FALSE)
    BY <1>2, <2>1, Zenon DEF Expected
  <2>3. Whole(text, FALSE) = Division[text]
    BY DEF Whole
  <2> QED
    BY <1>2, <2>1, <2>2, <2>3, Zenon
<1> QED
  BY <1>2, <1>3, <1>4

\* The inductive invariant has the properties.
LEMMA TagInvShows ==
  TagInv => PiecesDoNotMatter
<1> SUFFICES ASSUME TagInv PROVE PiecesDoNotMatter
  OBVIOUS
<1>1. /\ reply \in Replies /\ stored.text \in Texts /\ inThought \in BOOLEAN /\ text \in Texts
      /\ mode \in {"streaming", "finished", "paused", "failed"}
      /\ reply.full \in Texts /\ reply.thought \in Texts /\ <<>> \in Texts
  BY DEF TagInv, Replies, Texts
<1>2. /\ From(text, cut + 1) \in Texts
      /\ Expected \in Divisions
      /\ ~reply.called => Expected = Division[text] /\ From(text, cut + 1) = text
  BY ExpectedIs
<1>3. Len(ThinkStart) \in Nat \ {0} /\ Len(ThinkEnd) \in Nat \ {0} /\ Len(<<>>) = 0
  BY TagFacts
<1>4. TagTypeOK
  <2>1. CASE mode # "finished"
    <3>1. Told
      BY <2>1 DEF TagInv
    <3> QED
      BY <1>1, <3>1 DEF Told, TagTypeOK, Texts
  <2>2. CASE mode = "finished"
    <3>1. reply.buffer = <<>> /\ reply.thinking = FALSE
      BY <2>2 DEF TagInv, Complete
    <3>2. Len(reply.buffer) < Len(Awaited(reply))
      BY <1>3, <3>1 DEF Awaited
    <3> QED
      BY <1>1, <3>1, <3>2 DEF TagTypeOK, Texts
  <2> QED
    BY <2>1, <2>2
<1>5. ASSUME NEW s \in Texts PROVE IsPrefix(s, s) /\ Len(s) - Len(s) = 0
  <2>1. s \o <<>> = s
    BY ConcatEmpty DEF Texts
  <2> QED
    BY <1>1, <1>3, <2>1, PrefixOf
<1>6. AnswerInPieces
  <2> SUFFICES ASSUME reasoning
               PROVE  /\ IsPrefix(reply.full, Expected.answer)
                      /\ Len(Expected.answer) - Len(reply.full) < Len(ThinkStart)
                      /\ mode = "finished" => reply.full = Expected.answer
    BY DEF AnswerInPieces
  <2>1. CASE mode # "finished"
    <3>1. /\ Answers(reply, From(text, cut + 1), inThought)
          /\ Len(reply.buffer) < Len(Awaited(reply))
      BY <2>1 DEF TagInv, Told
    <3> QED
      BY <1>1, <1>2, <2>1, <3>1, AnswerShown DEF Expected
  <2>2. CASE mode = "finished"
    <3>1. reply.full = Expected.answer
      BY <2>2 DEF TagInv, Complete
    <3> QED
      BY <1>1, <1>3, <1>5, <3>1
  <2> QED
    BY <2>1, <2>2
<1>7. ThoughtsInPieces
  <2> DEFINE all   == FlattenSeq(Expected.thoughts)
             ended == IF Expected.open /\ mode # "finished"
                      THEN Front(Expected.thoughts) ELSE Expected.thoughts
  <2> SUFFICES ASSUME reasoning, ~reply.called
               PROVE  /\ IsPrefix(reply.thought, all)
                      /\ Len(all) - Len(reply.thought) < Len(ThinkEnd)
                      /\ Range(ended) \ {<<>>} \subseteq Range(reply.entries)
                      /\ mode # "streaming" => Range(reply.entries) \subseteq Range(stored.entries)
    BY DEF ThoughtsInPieces
  <2>1. mode # "streaming" => Range(reply.entries) \subseteq Range(stored.entries)
    BY DEF TagInv
  <2>2. CASE mode # "finished"
    <3>1. Thoughts(reply, text) /\ Len(reply.buffer) < Len(Awaited(reply))
      BY <2>2 DEF TagInv, Told
    <3> DEFINE w == Division[text]
    <3>2. /\ IsPrefix(reply.thought, FlattenSeq(w.thoughts))
          /\ Len(FlattenSeq(w.thoughts)) - Len(reply.thought) < Len(ThinkEnd)
          /\ Range(IF w.open THEN Front(w.thoughts) ELSE w.thoughts) \ {<<>>}
               \subseteq Range(reply.entries)
      BY <1>1, <3>1, ThoughtsShown
    <3>3. Expected = w
      BY <1>2
    <3> HIDE DEF w
    <3> QED
      BY <2>1, <2>2, <3>2, <3>3
  <2>3. CASE mode = "finished"
    <3>1. reply.thought = all /\ Range(reply.entries) = Range(Expected.thoughts) \ {<<>>}
      BY <2>3 DEF TagInv, Complete
    <3>2. ended = Expected.thoughts
      BY <2>3
    <3> HIDE DEF all, ended
    <3> QED
      BY <1>1, <1>3, <1>5, <2>1, <3>1, <3>2
  <2> QED
    BY <2>2, <2>3
<1>8. SameEitherWay
  BY DEF SameEitherWay, TagInv, Complete
<1> QED
  BY <1>4, <1>6, <1>7, <1>8 DEF PiecesDoNotMatter

\* A reply that has not begun.
LEMMA InitTags ==
  TagInit => TagInv
<1> SUFFICES ASSUME TagInit PROVE TagInv
  OBVIOUS
<1>1. /\ reasoning \in BOOLEAN /\ text = <<>> /\ cut = 0 /\ inThought = FALSE
      /\ mode = "streaming"
      /\ reply = [full |-> <<>>, buffer |-> <<>>, thinking |-> FALSE, thought |-> <<>>,
                  step |-> <<>>, entries |-> <<>>, called |-> FALSE]
      /\ stored = [text |-> <<>>, entries |-> <<>>]
  BY DEF TagInit
<1>2. <<>> \in Texts /\ <<>> \in Seq(Texts) /\ <<>> \in Seq(Seq(Symbols)) /\ Len(<<>>) = 0
  BY DEF Texts
<1>3. reply \in Replies /\ stored \in [text: Texts, entries: Seq(Texts)]
  BY <1>1, <1>2 DEF Replies, Texts
<1>4. /\ reply.full = <<>> /\ reply.buffer = <<>> /\ reply.thinking = FALSE /\ reply.thought = <<>>
      /\ reply.step = <<>> /\ reply.entries = <<>> /\ reply.called = FALSE
  BY <1>1
<1>5. From(text, cut + 1) = <<>>
  BY <1>1, <1>2, TextFrom
<1>6. Answers(reply, From(text, cut + 1), inThought)
  BY <1>1, <1>3, <1>4, <1>5, AnswersStart
<1>7. Thoughts(reply, text)
  BY <1>1, <1>3, <1>4, ThoughtsStart
<1>8. Len(reply.buffer) < Len(Awaited(reply))
  BY <1>2, <1>4, TagFacts DEF Awaited
<1>9. Told
  BY <1>1, <1>4, <1>6, <1>7, <1>8 DEF Told
<1> QED
  <2>1. text \in Texts /\ cut \in Nat /\ cut <= Len(text) /\ inThought \in BOOLEAN
    <3>1. text \in Texts /\ Len(text) = 0
      BY <1>1, <1>2
    <3>2. cut \in Nat /\ cut <= Len(text)
      BY <1>1, <3>1
    <3>3. inThought \in BOOLEAN
      BY <1>1
    <3> QED
      BY <3>1, <3>2, <3>3
  <2>2. /\ mode # "finished" /\ mode = "streaming"
        /\ mode \in {"streaming", "finished", "paused", "failed"}
    BY <1>1
  <2> QED
    BY <1>1, <1>3, <1>9, <2>1, <2>2, Zenon DEF TagInv

\* A piece is a text.
LEMMA PiecesAreTexts ==
  Pieces \subseteq Texts
BY DEF Pieces, Texts

\* A piece is divided as it comes.
LEMMA PieceTags ==
  ASSUME TagInv, NEW s \in Texts, Piece(s)
  PROVE  TagInv'
<1>1. /\ mode = "streaming" /\ text' = text \o s
      /\ reply' = IF reasoning THEN Process[[reply EXCEPT !.buffer = @ \o s]] ELSE Answer(reply, s)
      /\ reasoning' = reasoning /\ cut' = cut /\ inThought' = inThought /\ stored' = stored
      /\ mode' = mode
  BY DEF Piece
<1>2. /\ reasoning \in BOOLEAN /\ text \in Texts
      /\ cut \in Nat /\ cut <= Len(text) /\ inThought \in BOOLEAN
      /\ reply \in Replies /\ stored \in [text: Texts, entries: Seq(Texts)]
      /\ ~reply.called => cut = 0 /\ inThought = FALSE
      /\ Told
  BY <1>1 DEF TagInv
<1>3. /\ text \o s \in Texts /\ Len(text) \in Nat /\ Len(s) \in Nat /\ Len(text \o s) = Len(text) + Len(s)
      /\ From(text, cut + 1) \in Texts
      /\ From(text \o s, cut + 1) = From(text, cut + 1) \o s
  <2>1. text \o s \in Texts /\ Len(text) \in Nat /\ Len(s) \in Nat /\ Len(text \o s) = Len(text) + Len(s)
    BY <1>2, TextConcat
  <2>2. From(text, cut + 1) \in Texts /\ From(text \o s, cut + 1) = From(text, cut + 1) \o s
    BY <1>2, TextFrom
  <2> QED
    BY <2>1, <2>2
<1>4. text' \in Texts /\ cut' <= Len(text') /\ From(text', cut' + 1) = From(text, cut + 1) \o s
  BY <1>1, <1>2, <1>3
<1>5. ASSUME reply' \in Replies, reply'.called = reply.called, Told' PROVE TagInv'
  BY <1>1, <1>2, <1>4, <1>5 DEF TagInv
<1>6. CASE reasoning
  <2> DEFINE f == From(text, cut + 1)
             n == [reply EXCEPT !.buffer = reply.buffer \o s]
  <2>1. n = [reply EXCEPT !.buffer = @ \o s]
    OBVIOUS
  <2>2. /\ n \in Replies /\ n.called = reply.called
        /\ \A t \in Texts, b \in BOOLEAN : Answers(reply, t, b) => Answers(n, t \o s, b)
        /\ \A t \in Texts : Thoughts(reply, t) => Thoughts(n, t \o s)
    BY <1>2, MoreText
  <2>3. reply' = Process[n]
    BY <1>1, <1>6, <2>1
  <2> HIDE DEF n, f
  <2>4. /\ reply' \in Replies /\ reply'.called = n.called
        /\ Len(reply'.buffer) < Len(Awaited(reply'))
        /\ \A t \in Texts, b \in BOOLEAN : Answers(n, t, b) => Answers(reply', t, b)
        /\ \A t \in Texts : Thoughts(n, t) => Thoughts(reply', t)
    BY <2>2, <2>3, ProcessRight
  <2>5. Answers(reply, f, inThought) /\ (~reply.called => Thoughts(reply, text))
    BY <1>2, <1>6 DEF Told, f
  <2>6. Answers(reply', f \o s, inThought)
    <3>1. f \in Texts /\ f \o s \in Texts
      BY <1>3, TextConcat DEF f
    <3> QED
      BY <1>2, <2>2, <2>4, <2>5, <3>1
  <2>7. ~reply.called => Thoughts(reply', text \o s)
    BY <1>2, <1>3, <2>2, <2>4, <2>5
  <2>8. reply'.called = reply.called
    BY <2>2, <2>4
  <2>9. Told'
    <3>1. Answers(reply', From(text', cut' + 1), inThought')
      BY <1>1, <1>4, <2>6 DEF f
    <3>2. ~reply'.called => Thoughts(reply', text')
      BY <1>1, <2>7, <2>8
    <3> QED
      BY <1>1, <1>6, <2>4, <3>1, <3>2 DEF Told
  <2> QED
    BY <1>5, <2>4, <2>8, <2>9
<1>7. CASE ~reasoning
  <2>1. reply' = [reply EXCEPT !.full = reply.full \o s] /\ reply.full \o s \in Texts
    BY <1>1, <1>2, <1>7, TextConcat DEF Answer, Replies, Texts
  <2>2. /\ reply' \in Replies /\ reply'.called = reply.called /\ reply'.buffer = reply.buffer
        /\ reply'.thinking = reply.thinking /\ reply'.entries = reply.entries
        /\ reply'.full = reply.full \o s
    BY <1>2, <2>1 DEF Replies, Texts
  <2>3. /\ Len(reply.buffer) < Len(Awaited(reply))
        /\ reply.buffer = <<>> /\ reply.thinking = FALSE
        /\ ~reply.called => reply.full = text /\ reply.entries = <<>>
    BY <1>2, <1>7 DEF Told
  <2>4. Awaited(reply') = Awaited(reply)
    BY <2>2 DEF Awaited
  <2>5. Told'
    BY <1>1, <1>7, <2>2, <2>3, <2>4 DEF Told
  <2> QED
    BY <1>5, <2>2, <2>5
<1> QED
  BY <1>6, <1>7

\* The first tool call starts the answer again.
LEMMA FirstCallTags ==
  ASSUME TagInv, FirstCall
  PROVE  TagInv'
<1> DEFINE more == Extract(reply.full).thoughts
           all == NotedAll(reply.entries, more)
<1>1. /\ mode = "streaming" /\ ~reply.called
      /\ reply' = [reply EXCEPT !.entries = all, !.full = <<>>, !.buffer = <<>>, !.called = TRUE]
      /\ cut' = Len(text) /\ inThought' = reply.thinking
      /\ reasoning' = reasoning /\ text' = text /\ stored' = stored /\ mode' = mode
  BY DEF FirstCall
<1>2. /\ reasoning \in BOOLEAN /\ text \in Texts
      /\ cut \in Nat /\ cut <= Len(text) /\ inThought \in BOOLEAN
      /\ reply \in Replies /\ stored \in [text: Texts, entries: Seq(Texts)]
      /\ Told
  BY <1>1 DEF TagInv
<1>3. all \in Seq(Texts)
  <2>1. reply.full \in Texts /\ reply.entries \in Seq(Texts)
    BY <1>2 DEF Replies, Texts
  <2>2. Extract(reply.full) \in Parted
    BY <2>1, ExtractIs
  <2>3. more \in Seq(Texts)
    BY <2>2 DEF Parted
  <2> HIDE DEF more
  <2> QED
    BY <2>1, <2>3, NotedAllIs
<1> HIDE DEF all
<1>4. /\ reply' \in Replies /\ reply'.full = <<>> /\ reply'.buffer = <<>> /\ reply'.called = TRUE
      /\ reply'.thinking = reply.thinking
  <2>1. reply' \in Replies
    <3>1. <<>> \in Texts /\ Texts = Seq(Symbols)
      BY DEF Texts
    <3> QED
      BY <1>1, <1>2, <1>3, <3>1 DEF Replies
  <2>2. reply \in Replies
    BY <1>2
  <2>3. /\ reply'.full = <<>> /\ reply'.buffer = <<>> /\ reply'.called = TRUE
        /\ reply'.thinking = reply.thinking
    BY <1>1, <2>2 DEF Replies
  <2> QED
    BY <2>1, <2>3
<1>5. <<>> \in Texts /\ Len(text) \in Nat /\ Len(text) <= Len(text) /\ reply.thinking \in BOOLEAN
      /\ Len(<<>>) = 0
  BY <1>2 DEF Texts, Replies
<1>6. From(text', cut' + 1) = <<>>
  BY <1>1, <1>2, <1>5, TextFrom
<1>7. Answers(reply', From(text', cut' + 1), inThought')
  BY <1>1, <1>4, <1>6, AnswersStart
<1>8. Len(reply'.buffer) < Len(Awaited(reply'))
  BY <1>4, <1>5, TagFacts DEF Awaited
<1>9. Told'
  <2>1. ~reasoning => reply.thinking = FALSE
    BY <1>2 DEF Told
  <2> QED
    BY <1>1, <1>4, <1>7, <1>8, <2>1 DEF Told
<1>10. text' \in Texts /\ cut' \in Nat /\ cut' <= Len(text') /\ inThought' \in BOOLEAN
  BY <1>1, <1>2, <1>5
<1>11. mode' = "streaming" /\ reasoning' \in BOOLEAN /\ stored' \in [text: Texts, entries: Seq(Texts)]
  BY <1>1, <1>2
<1> QED
  BY <1>4, <1>9, <1>10, <1>11 DEF TagInv

\* What is stored with a reply.
LEMMA StoreKeeps ==
  ASSUME NEW r \in Replies, NEW to, Store(r, to), TagInv
  PROVE  /\ reasoning' = reasoning /\ text' = text /\ cut' = cut /\ inThought' = inThought
         /\ reply' = r /\ mode' = to /\ Expected' = Expected
         /\ stored' \in [text: Texts, entries: Seq(Texts)]
         /\ stored'.text = Extract(r.full).clean
         /\ stored'.entries = NotedAll(r.entries, Extract(r.full).thoughts)
         /\ Range(stored'.entries) = Range(r.entries) \cup (Range(Extract(r.full).thoughts) \ {<<>>})
<1> DEFINE x == Extract(r.full)
           all == NotedAll(r.entries, x.thoughts)
<1>1. /\ reasoning' = reasoning /\ text' = text /\ cut' = cut /\ inThought' = inThought
      /\ reply' = r /\ mode' = to /\ stored' = [text |-> x.clean, entries |-> all]
  BY DEF Store
<1>2. r.full \in Texts /\ r.entries \in Seq(Texts)
  BY DEF Replies, Texts
<1>3. x \in Parted
  BY <1>2, ExtractIs
<1>4. x.clean \in Texts /\ x.thoughts \in Seq(Texts)
  <2> HIDE DEF x
  <2> QED
    BY <1>3 DEF Parted
<1>5. all \in Seq(Texts) /\ Range(all) = Range(r.entries) \cup (Range(x.thoughts) \ {<<>>})
  <2> HIDE DEF x
  <2> QED
    BY <1>2, <1>4, NotedAllIs
<1>6. Expected' = Expected
  BY <1>1 DEF Expected
<1> HIDE DEF x, all
<1>7. stored'.text = x.clean /\ stored'.entries = all /\ stored' \in [text: Texts, entries: Seq(Texts)]
  BY <1>1, <1>4, <1>5
<1> QED
  BY <1>1, <1>5, <1>6, <1>7 DEF x, all

\* A reply that is paused or fails keeps what it has.
LEMMA EndTags ==
  ASSUME TagInv, Paused \/ Failed
  PROVE  TagInv'
<1>1. PICK to \in {"paused", "failed"} : Store(reply, to)
  BY DEF Paused, Failed
<1>2. mode = "streaming"
  BY DEF Paused, Failed
<1>3. /\ reasoning \in BOOLEAN /\ text \in Texts
      /\ cut \in Nat /\ cut <= Len(text) /\ inThought \in BOOLEAN
      /\ reply \in Replies
      /\ ~reply.called => cut = 0 /\ inThought = FALSE
      /\ Told
  BY <1>2 DEF TagInv
<1>4. /\ reasoning' = reasoning /\ text' = text /\ cut' = cut /\ inThought' = inThought
      /\ reply' = reply /\ mode' = to
      /\ stored' \in [text: Texts, entries: Seq(Texts)]
      /\ Range(reply.entries) \subseteq Range(stored'.entries)
  BY <1>1, <1>3, StoreKeeps
<1>5. Told'
  BY <1>3, <1>4 DEF Told
<1> QED
  BY <1>3, <1>4, <1>5 DEF TagInv

\* A finished reply has all of the text.
LEMMA FinishedTags ==
  ASSUME TagInv, Finished
  PROVE  TagInv'
<1> DEFINE n == IF reasoning THEN Flushed(reply) ELSE reply
<1>1. mode = "streaming" /\ Store(n, "finished")
  BY DEF Finished
<1>2. /\ reasoning \in BOOLEAN /\ text \in Texts
      /\ cut \in Nat /\ cut <= Len(text) /\ inThought \in BOOLEAN
      /\ reply \in Replies
      /\ ~reply.called => cut = 0 /\ inThought = FALSE
      /\ Told
  BY <1>1 DEF TagInv
<1>3. /\ From(text, cut + 1) \in Texts
      /\ Expected \in Divisions
      /\ ~reply.called => Expected = Division[text] /\ From(text, cut + 1) = text
  BY ExpectedIs
<1>4. /\ n \in Replies /\ n.buffer = <<>> /\ n.thinking = FALSE /\ n.called = reply.called
  <2>1. CASE reasoning
    BY <1>2, <2>1, FlushedIs
  <2>2. CASE ~reasoning
    BY <1>2, <2>2 DEF Told
  <2> QED
    BY <2>1, <2>2
<1>5. /\ reasoning' = reasoning /\ text' = text /\ cut' = cut /\ inThought' = inThought
      /\ reply' = n /\ mode' = "finished" /\ Expected' = Expected
      /\ stored' \in [text: Texts, entries: Seq(Texts)]
      /\ stored'.text = Extract(n.full).clean
      /\ Range(stored'.entries) = Range(n.entries) \cup (Range(Extract(n.full).thoughts) \ {<<>>})
  <2> HIDE DEF n
  <2> QED
    BY <1>1, <1>4, StoreKeeps
<1>6. reasoning => n.full = Expected.answer
  <2> SUFFICES ASSUME reasoning PROVE Flushed(reply).full = Expected.answer
    OBVIOUS
  <2>1. Answers(reply, From(text, cut + 1), inThought) /\ Len(reply.buffer) < Len(Awaited(reply))
    BY <1>2 DEF Told
  <2> QED
    BY <1>2, <1>3, <2>1, AnswerShown DEF Expected
<1>7. reasoning /\ ~reply.called => /\ n.thought = FlattenSeq(Expected.thoughts)
                                    /\ Range(n.entries) = Range(Expected.thoughts) \ {<<>>}
  <2> SUFFICES ASSUME reasoning, ~reply.called
               PROVE  /\ Flushed(reply).thought = FlattenSeq(Expected.thoughts)
                      /\ Range(Flushed(reply).entries) = Range(Expected.thoughts) \ {<<>>}
    OBVIOUS
  <2>1. Thoughts(reply, text) /\ Len(reply.buffer) < Len(Awaited(reply)) /\ Expected = Division[text]
    BY <1>2, <1>3 DEF Told
  <2> QED
    BY <1>2, <2>1, ThoughtsShown
<1>8. ASSUME ~reply.called, InOrderTags(Expected)
      PROVE  /\ stored'.text = Expected.answer
             /\ Range(stored'.entries) = Range(Expected.thoughts) \ {<<>>}
  <2> DEFINE w == Expected
  <2>1. /\ ~w.open /\ At(w.answer, ThinkStart) = {} /\ At(w.answer, ThinkEnd) = {}
        /\ w.answer \in Texts /\ w.thoughts \in Seq(Texts)
    BY <1>3, <1>8 DEF InOrderTags, Divisions
  <2>2. Range(<<>>) = {}
    BY DEF Range
  <2>3. CASE reasoning
    <3>1. n.full = w.answer /\ Range(n.entries) = Range(w.thoughts) \ {<<>>}
      BY <1>6, <1>7, <1>8, <2>3
    <3> HIDE DEF n, w
    <3>2. Extract(w.answer) = [clean |-> w.answer, thoughts |-> <<>>]
      BY <2>1, ExtractIs
    <3>3. Extract(n.full).clean = w.answer /\ Extract(n.full).thoughts = <<>>
      BY <3>1, <3>2
    <3>4. stored'.text = w.answer /\ Range(stored'.entries) = Range(w.thoughts) \ {<<>>}
      BY <1>5, <2>2, <3>1, <3>3
    <3> QED
      BY <3>4 DEF w
  <2>4. CASE ~reasoning
    <3>1. n.full = text /\ n.entries = <<>>
      BY <1>2, <1>8, <2>4 DEF Told
    <3>2. w = Division[text]
      BY <1>3, <1>8
    <3> HIDE DEF n, w
    <3>3. Sections[text].clean = w.answer /\ Sections[text].thoughts = w.thoughts
      BY <1>2, <2>1, <3>2, SectionsAreWhole
    <3>4. Extract(text).clean = w.answer /\ Extract(text).thoughts = w.thoughts
      <4>1. CASE w.thoughts # <<>>
        <5>1. Extract(text) = Sections[text]
          BY <1>2, <3>3, <4>1, ExtractIs
        <5> QED
          BY <3>3, <5>1
      <4>2. CASE w.thoughts = <<>>
        <5>1. ~Sectioned(text)
          <6> SUFFICES ASSUME Sectioned(text) PROVE FALSE
            OBVIOUS
          <6> DEFINE v == Sections[Behind(text)]
                     h == Until(After(text, ThinkStart), ThinkEnd)
          <6>1. /\ Sections[text].thoughts = <<h>> \o v.thoughts
                /\ v.thoughts \in Seq(Texts) /\ h \in Texts
            <7>1. Sections[text] = Parts(text, v) /\ Behind(text) \in Texts /\ h \in Texts
              BY <1>2, SectionsIs, SectionedIs
            <7>2. v \in Parted
              BY <7>1, SectionsIs
            <7> HIDE DEF v
            <7> QED
              BY <7>1, <7>2 DEF Parts, Parted
          <6> HIDE DEF v, h
          <6>2. <<h>> \o v.thoughts # <<>>
            <7>1. <<h>> \in Seq(Texts) /\ Len(<<h>>) = 1
              BY <6>1
            <7>2. Len(<<h>> \o v.thoughts) = 1 + Len(v.thoughts) /\ Len(v.thoughts) \in Nat
              BY <6>1, <7>1
            <7> QED
              BY <7>2
          <6> QED
            BY <3>3, <4>2, <6>1, <6>2
        <5>2. Sections[text] = [clean |-> text, thoughts |-> <<>>]
          BY <1>2, <5>1, SectionsIs
        <5>3. w.answer = text
          BY <3>3, <5>2
        <5>4. Extract(text) = [clean |-> text, thoughts |-> <<>>]
          BY <1>2, <2>1, <5>3, ExtractIs
        <5> QED
          BY <4>2, <5>3, <5>4
      <4> QED
        BY <4>1, <4>2
    <3>5. stored'.text = w.answer /\ Range(stored'.entries) = Range(w.thoughts) \ {<<>>}
      BY <1>5, <2>2, <3>1, <3>4
    <3> QED
      BY <3>5 DEF w
  <2> QED
    BY <2>3, <2>4
<1>9. Range(n.entries) \subseteq Range(stored'.entries)
  BY <1>5
<1> HIDE DEF n
<1>10. Complete'
  <2>1. reply'.buffer = <<>> /\ reply'.thinking = FALSE /\ reply'.called = reply.called
    BY <1>4, <1>5
  <2>2. reasoning' => reply'.full = Expected'.answer
    BY <1>5, <1>6
  <2>3. reasoning' /\ ~reply'.called =>
          /\ reply'.thought = FlattenSeq(Expected'.thoughts)
          /\ Range(reply'.entries) = Range(Expected'.thoughts) \ {<<>>}
    BY <1>5, <1>7, <2>1
  <2>4. ~reply'.called /\ InOrderTags(Expected') =>
          /\ stored'.text = Expected'.answer
          /\ Range(stored'.entries) = Range(Expected'.thoughts) \ {<<>>}
    BY <1>5, <1>8, <2>1
  <2> QED
    BY <2>1, <2>2, <2>3, <2>4 DEF Complete, InOrderTags
<1>11. mode' # "streaming" => Range(reply'.entries) \subseteq Range(stored'.entries)
  BY <1>5, <1>9
<1> QED
  BY <1>2, <1>4, <1>5, <1>10, <1>11 DEF TagInv

\* Answer and thoughts are those of the whole text, however it came in pieces,
\* and the same with reasoning on or off.
THEOREM PiecesAgree == TagSpec => []PiecesDoNotMatter
<1>1. TagInv /\ [TagNext]_tagVars => TagInv'
  <2> SUFFICES ASSUME TagInv, [TagNext]_tagVars PROVE TagInv'
    OBVIOUS
  <2>1. CASE \E s \in Pieces : Piece(s)
    BY <2>1, PieceTags, PiecesAreTexts
  <2>2. CASE FirstCall
    BY <2>2, FirstCallTags
  <2>3. CASE Finished
    BY <2>3, FinishedTags
  <2>4. CASE Paused \/ Failed
    BY <2>4, EndTags
  <2>5. CASE UNCHANGED tagVars
    BY <2>5 DEF tagVars, TagInv, Told, Complete, Expected
  <2> QED
    BY <2>1, <2>2, <2>3, <2>4, <2>5 DEF TagNext
<1> QED
  BY <1>1, InitTags, TagInvShows, PTL DEF TagSpec
=============================================================================
