------------------------------ MODULE BotReply ------------------------------
(***************************************************************************)
(* The bot reply pipeline: the HTTP requests that store a user message and *)
(* schedule a reply, the asynq task of the chat, the worker that runs it,  *)
(* and the handler goroutines that generate and post the reply.            *)
(*                                                                         *)
(* Every request is a process of several steps, because the code makes     *)
(* several independent calls: commit the transaction, publish a cancel     *)
(* signal, delete the queued task, enqueue the new one.  asynq itself is   *)
(* external; it is modelled from the calls the code makes on it.           *)
(***************************************************************************)
EXTENDS Naturals, FiniteSets

CONSTANTS
  Chats,         \* chats between a user and an automated user
  Messages,      \* user messages that may be sent or recreated
  Interrupts,    \* "interrupt" signals that users may send
  ChatOf,        \* the chat a message or an interrupt belongs to
  Attempts,      \* executions of HandleBotReply, numbered
  NoMessage,
  NoAttempt,
  MaxRetry,      \* asynq.MaxRetry(10)
  Concurrency,   \* --asynq-concurrency
  MaxStops,      \* bound on shutdowns and crashes
  SlowReplies,   \* may a reply take longer than asynq.Timeout(5 minutes)?
  EmbeddedRedis  \* TRUE: the queue lives in the server's own process

ASSUME ConstantsAssumption ==
  /\ ChatOf \in [Messages \cup Interrupts -> Chats]
  /\ Messages \cap Interrupts = {}
  /\ Attempts \subseteq Nat
  /\ NoMessage \notin Messages
  /\ NoAttempt \notin Attempts
  /\ MaxRetry \in Nat
  /\ Concurrency \in Nat \ {0}
  /\ MaxStops \in Nat
  /\ SlowReplies \in BOOLEAN
  /\ EmbeddedRedis \in BOOLEAN

VARIABLES
  server,     \* "up", "draining" (HTTP closed, worker running) or "down"
  stops,      \* shutdowns and crashes so far
  req,        \* request that carries each message: how far it has come
  intr,       \* the same for each interrupt
  after,      \* after[m]: messages of m's chat with a larger id
  deleted,    \* soft-deleted messages
  signals,    \* cancel signals published and not yet delivered
  task,       \* the asynq task with id BotReplyTaskID(chat)
  worker,     \* the attempt whose outcome asynq waits for, per chat
  pc,         \* where an attempt is in HandleBotReply
  src,        \* message an attempt answers
  ctx,        \* state of an attempt's context
  fate,       \* what asynq did with an attempt
  post,       \* what an attempt has posted, or "barred" if it ended before it could
  withdrawn   \* messages whose queued task was deleted by a later request

requestVars == <<req, intr, after, deleted>>
queueVars   == <<task, worker>>
attemptVars == <<pc, src, ctx, fate, post>>
vars == <<server, stops, requestVars, signals, queueVars, attemptVars,
          withdrawn>>

NoTask == [state |-> "none", msg |-> NoMessage, retried |-> 0]

\* Fault: the queue states an endpoint takes for "active" without "active".
LiveStatesWithoutActive == {"pending", "retry"}

\* resolveInteractionStatus reads "active" off the queue in these states
\* (isQueueStateActive), and otherwise falls back on the newest message.
LiveStates == {"pending", "active", "retry"}
Live(c)    == task[c].state \in LiveStates

\* Between the start and the return of HandleBotReply.
Working    == {"start", "generating", "settling", "failing"}
Running(a) == pc[a] \in Working

InFlight(r) == r \in {"stored", "signalled", "cleared"}

Init ==
  /\ server    = "up"
  /\ stops     = 0
  /\ req       = [m \in Messages |-> "new"]
  /\ intr      = [i \in Interrupts |-> "new"]
  /\ after     = [m \in Messages |-> {}]
  /\ deleted   = {}
  /\ signals   = {}
  /\ task      = [c \in Chats |-> NoTask]
  /\ worker    = [c \in Chats |-> NoAttempt]
  /\ pc        = [a \in Attempts |-> "unused"]
  /\ src       = [a \in Attempts |-> NoMessage]
  /\ ctx       = [a \in Attempts |-> "live"]
  /\ fate      = [a \in Attempts |-> "none"]
  /\ post      = [a \in Attempts |-> "none"]
  /\ withdrawn = {}

(***************************************************************************)
(* Requests.                                                               *)
(***************************************************************************)

\* The rows of m's chat that are already in the table when m is inserted.
Older(m) == {n \in Messages : req[n] # "new" /\ ChatOf[n] = ChatOf[m]}

\* The INSERT of a message.
Insert(m) ==
  /\ req[m] = "new"
  /\ req'    = [req EXCEPT ![m] = "stored"]
  /\ after'  = [n \in Messages |->
                  IF n \in Older(m) THEN after[n] \cup {m} ELSE after[n]]

\* MessageSend: the transaction that stores a user's message.
MessageSend(m) ==
  /\ server = "up"
  /\ Insert(m)
  /\ UNCHANGED <<server, stops, intr, deleted, signals, queueVars, attemptVars,
                 withdrawn>>

\* RerunMessage: s and everything newer is soft-deleted and s is recreated as
\* m.  s is loaded before the transaction, which does not check again that s
\* itself is still there: some row at or after s is enough, and the chat's
\* newest message always is one.
RerunMessage(m, s) ==
  /\ server = "up"
  /\ req[s] # "new"
  /\ ChatOf[s] = ChatOf[m]
  /\ Insert(m)
  /\ deleted' = deleted \cup {s} \cup after[s]
  /\ UNCHANGED <<server, stops, intr, signals, queueVars, attemptVars,
                 withdrawn>>

\* inspector.DeleteTask: an active task is refused, and the error is ignored.
DeleteTask(c) ==
  IF task[c].state \in {"pending", "retry", "archived"}
  THEN /\ task' = [task EXCEPT ![c] = NoTask]
       /\ withdrawn' = withdrawn \cup {task[c].msg}
  ELSE UNCHANGED <<task, withdrawn>>

\* EnqueueBotReply, first call: CancelProcessing only publishes a signal.
EnqueueSignal(m) ==
  /\ server # "down"
  /\ req[m] = "stored"
  /\ req' = [req EXCEPT ![m] = "signalled"]
  /\ signals' = signals \cup {m}
  /\ UNCHANGED <<server, stops, intr, after, deleted, queueVars,
                 attemptVars, withdrawn>>

\* EnqueueBotReply, second call.
EnqueueClear(m) ==
  /\ server # "down"
  /\ req[m] = "signalled"
  /\ req' = [req EXCEPT ![m] = "cleared"]
  /\ DeleteTask(ChatOf[m])
  /\ UNCHANGED <<server, stops, intr, after, deleted, signals, worker,
                 attemptVars>>

\* Fault: an existing task is overwritten.
EnqueueTaskOverwriting(m) ==
  /\ server # "down"
  /\ req[m] = "cleared"
  /\ task' = [task EXCEPT ![ChatOf[m]] =
                 [state |-> "pending", msg |-> m, retried |-> 0]]
  /\ req' = [req EXCEPT ![m] = "accepted"]
  /\ UNCHANGED <<server, stops, intr, after, deleted, signals, worker,
                 attemptVars, withdrawn>>

\* EnqueueBotReply, last call: client.Enqueue under the chat's task id.  A
\* task that still exists is ErrTaskIDConflict, and the request answers 500.
EnqueueTask(m) ==
  LET c == ChatOf[m] IN
  /\ server # "down"
  /\ req[m] = "cleared"
  /\ \/ /\ task[c].state = "none"
        /\ task' = [task EXCEPT ![c] =
                      [state |-> "pending", msg |-> m, retried |-> 0]]
        /\ req' = [req EXCEPT ![m] = "accepted"]
     \/ /\ task[c].state # "none"
        /\ req' = [req EXCEPT ![m] = "refused"]
        /\ UNCHANGED task
  /\ UNCHANGED <<server, stops, intr, after, deleted, signals, worker,
                 attemptVars, withdrawn>>

\* SignalSendMessage "interrupt" in a bot chat: CancelBotReplyTask.
InterruptSignal(i) ==
  /\ server = "up"
  /\ intr[i] = "new"
  /\ intr' = [intr EXCEPT ![i] = "signalled"]
  /\ signals' = signals \cup {i}
  /\ UNCHANGED <<server, stops, req, after, deleted, queueVars,
                 attemptVars, withdrawn>>

InterruptClear(i) ==
  /\ server # "down"
  /\ intr[i] = "signalled"
  /\ intr' = [intr EXCEPT ![i] = "done"]
  /\ DeleteTask(ChatOf[i])
  /\ UNCHANGED <<server, stops, req, after, deleted, signals, worker,
                 attemptVars>>

Request(m) ==
  \/ EnqueueSignal(m)
  \/ EnqueueClear(m)
  \/ EnqueueTask(m)

(***************************************************************************)
(* The asynq worker (external).                                            *)
(***************************************************************************)

Busy == {c \in Chats : worker[c] # NoAttempt}

\* The processor dequeues the chat's task and starts a handler goroutine.
Claim(c, a) ==
  /\ server # "down"
  /\ task[c].state = "pending"
  /\ Cardinality(Busy) < Concurrency
  /\ pc[a] = "unused"
  /\ \A b \in Attempts : b < a => pc[b] # "unused"
  /\ task'   = [task EXCEPT ![c].state = "active"]
  /\ worker' = [worker EXCEPT ![c] = a]
  /\ pc'     = [pc EXCEPT ![a] = "start"]
  /\ src'    = [src EXCEPT ![a] = task[c].msg]
  /\ fate'   = [fate EXCEPT ![a] = "owner"]
  /\ UNCHANGED <<server, stops, requestVars, signals, ctx, post,
                 withdrawn>>

\* A cancel signal reaches the worker: it cancels the context of whatever
\* attempt owns the task id at that moment.  Redis pub/sub may also drop it.
DeliverSignal(r) ==
  LET a == worker[ChatOf[r]] IN
  /\ server # "down"
  /\ r \in signals
  /\ signals' = signals \ {r}
  /\ \/ /\ a # NoAttempt
        /\ ctx[a] = "live"
        /\ ctx' = [ctx EXCEPT ![a] = "ended"]
     \/ UNCHANGED ctx
  /\ UNCHANGED <<server, stops, requestVars, queueVars, pc, src, fate,
                 post, withdrawn>>

\* asynq.Timeout(5 * time.Minute) runs out.
Timeout(c) ==
  LET a == worker[c] IN
  /\ server # "down"
  /\ SlowReplies
  /\ a # NoAttempt
  /\ ctx[a] = "live"
  /\ ctx' = [ctx EXCEPT ![a] = "ended"]
  /\ UNCHANGED <<server, stops, requestVars, signals, queueVars, pc,
                 src, fate, post, withdrawn>>

\* Faults: one retry too many, and retries that are not counted.
RetriedOnceMore(t) ==
  IF t.retried <= MaxRetry
  THEN [state |-> "retry", msg |-> t.msg, retried |-> t.retried + 1]
  ELSE [t EXCEPT !.state = "archived"]

RetriedUncounted(t) == [t EXCEPT !.state = "retry"]

\* retry: back to the queue with a backoff while the budget lasts.
Retried(t) ==
  IF t.retried < MaxRetry
  THEN [state |-> "retry", msg |-> t.msg, retried |-> t.retried + 1]
  ELSE [t EXCEPT !.state = "archived"]

\* The worker sees the context end before the handler's result, or the result
\* says so: the task is retried, and a handler goroutine that is not done goes
\* on by itself.
AbandonAttempt(c) ==
  LET a == worker[c] IN
  /\ server # "down"
  /\ a # NoAttempt
  /\ ctx[a] # "live"
  /\ task'   = [task EXCEPT ![c] = Retried(@)]
  /\ worker' = [worker EXCEPT ![c] = NoAttempt]
  /\ fate'   = [fate EXCEPT ![a] = "abandoned"]
  /\ pc'     = [pc EXCEPT ![a] = IF Running(a) THEN pc[a] ELSE "over"]
  /\ UNCHANGED <<server, stops, requestVars, signals, src, ctx, post,
                 withdrawn>>

\* Fault: a reply that was posted goes back to the queue.
FinishTaskKept(c) ==
  LET a == worker[c] IN
  /\ server # "down"
  /\ a # NoAttempt
  /\ pc[a] \in {"succeeded", "skipped"}
  /\ task'   = [task EXCEPT ![c] = Retried(@)]
  /\ worker' = [worker EXCEPT ![c] = NoAttempt]
  /\ fate'   = [fate EXCEPT ![a] = "done"]
  /\ pc'     = [pc EXCEPT ![a] = "over"]
  /\ UNCHANGED <<server, stops, requestVars, signals, src, ctx, post,
                 withdrawn>>

\* The worker takes the handler's result: nil removes the task (retention 0),
\* SkipRetry archives it.
FinishTask(c) ==
  LET a == worker[c] IN
  /\ server # "down"
  /\ a # NoAttempt
  /\ pc[a] \in {"succeeded", "skipped"}
  /\ task'   = [task EXCEPT ![c] = IF pc[a] = "succeeded" THEN NoTask
                                   ELSE [@ EXCEPT !.state = "archived"]]
  /\ worker' = [worker EXCEPT ![c] = NoAttempt]
  /\ fate'   = [fate EXCEPT ![a] = "done"]
  /\ pc'     = [pc EXCEPT ![a] = "over"]
  /\ UNCHANGED <<server, stops, requestVars, signals, src, ctx, post,
                 withdrawn>>

\* The forwarder moves a retry whose delay is over back to pending.
Forward(c) ==
  /\ server # "down"
  /\ task[c].state = "retry"
  /\ task' = [task EXCEPT ![c].state = "pending"]
  /\ UNCHANGED <<server, stops, requestVars, signals, worker,
                 attemptVars, withdrawn>>

\* The recoverer retries an active task whose lease has expired.
Recover(c) ==
  /\ server # "down"
  /\ task[c].state = "active"
  /\ worker[c] = NoAttempt
  /\ task' = [task EXCEPT ![c] = Retried(@)]
  /\ UNCHANGED <<server, stops, requestVars, signals, worker,
                 attemptVars, withdrawn>>

Worker(c) ==
  \/ \E a \in Attempts : Claim(c, a)
  \/ AbandonAttempt(c)
  \/ FinishTask(c)
  \/ Forward(c)
  \/ Recover(c)

(***************************************************************************)
(* The handler goroutine: HandleBotReply.                                  *)
(***************************************************************************)

\* The handler's result goes to the worker; nobody receives it any more when
\* the attempt was abandoned.
Return(a, result) == IF fate[a] = "abandoned" THEN "over" ELSE result

\* Bot, source message and sender are loaded and the bot session is created.
\* A soft-deleted source is not found; the bot may be no automated user any
\* more, the sender gone, the session not stored.  That is SkipRetry, and the
\* chat is told nothing.
LoadSource(a) ==
  /\ server # "down"
  /\ pc[a] = "start"
  /\ \/ /\ src[a] \notin deleted
        /\ pc' = [pc EXCEPT ![a] = "generating"]
        /\ UNCHANGED post
     \/ /\ pc' = [pc EXCEPT ![a] = Return(a, "skipped")]
        /\ post' = [post EXCEPT ![a] = "barred"]
  /\ UNCHANGED <<server, stops, requestVars, signals, queueVars, src,
                 ctx, fate, withdrawn>>

\* A message posted through the HTTP API.  With the HTTP server gone the call
\* fails and the handler does not look at the error.
Post(a, kind) ==
  post' = IF server = "up" THEN [post EXCEPT ![a] = kind] ELSE post

\* The response is complete and its final message is sent.  A context that is
\* already cancelled does not prevent it: commands and tools-only responses
\* never look at it, and a select may take the last event first.
Respond(a) ==
  /\ server # "down"
  /\ pc[a] = "generating"
  /\ Post(a, "reply")
  /\ pc' = [pc EXCEPT ![a] = "settling"]
  /\ UNCHANGED <<server, stops, requestVars, signals, queueVars, src, ctx, fate,
                 withdrawn>>

\* Fault: the failure message is not sent.
FailResponseSilently(a) ==
  /\ server # "down"
  /\ pc[a] = "generating"
  /\ pc' = [pc EXCEPT ![a] = "failing"]
  /\ UNCHANGED <<server, stops, requestVars, signals, queueVars, src, ctx, fate,
                 post, withdrawn>>

\* GenerateResponse fails: either its final message already carries the error
\* (ErrResponseAlreadySent) or the handler sends the failure message.
FailResponse(a) ==
  /\ server # "down"
  /\ pc[a] = "generating"
  /\ Post(a, "notice")
  /\ pc' = [pc EXCEPT ![a] = "failing"]
  /\ UNCHANGED <<server, stops, requestVars, signals, queueVars, src, ctx, fate,
                 withdrawn>>

\* The stream loop sees ctx.Done and sends "I paused this response".  When the
\* cause is the deadline the handler adds a failure message of its own.
PauseResponse(a) ==
  /\ server # "down"
  /\ pc[a] = "generating"
  /\ ctx[a] # "live"
  /\ Post(a, "notice")
  /\ pc' = [pc EXCEPT ![a] = "failing"]
  /\ UNCHANGED <<server, stops, requestVars, signals, queueVars, src, ctx, fate,
                 withdrawn>>

\* The task result is persisted, the bot session deleted and the handler
\* returns: SkipRetry after a failure, otherwise what writeResult returns, which
\* is an error once the context is over.
ReturnResult(a) ==
  /\ server # "down"
  /\ pc[a] \in {"settling", "failing"}
  /\ pc' = [pc EXCEPT ![a] = Return(a, CASE pc[a] = "failing" -> "skipped"
                                         [] ctx[a] = "live" -> "succeeded"
                                         [] OTHER -> "errored")]
  /\ UNCHANGED <<server, stops, requestVars, signals, queueVars, src,
                 ctx, fate, post, withdrawn>>

Handler(a) ==
  \/ LoadSource(a)
  \/ Respond(a)
  \/ FailResponse(a)
  \/ PauseResponse(a)
  \/ ReturnResult(a)

(***************************************************************************)
(* Shutdown, crash and restart.                                            *)
(***************************************************************************)

\* The process is gone: requests, signals and handler goroutines with it.
ProcessGone ==
  /\ server'  = "down"
  /\ req'     = [m \in Messages |->
                   IF InFlight(req[m]) THEN "lost" ELSE req[m]]
  /\ intr'    = [i \in Interrupts |->
                   IF intr[i] = "signalled" THEN "done" ELSE intr[i]]
  /\ signals' = {}
  /\ worker'  = [c \in Chats |-> NoAttempt]
  /\ pc'      = [a \in Attempts |-> IF pc[a] = "unused" THEN "unused" ELSE "over"]
  /\ fate'    = [a \in Attempts |-> IF fate[a] = "owner" THEN "abandoned"
                                    ELSE fate[a]]

\* s.Shutdown: the HTTP server closes first, while the worker goes on.
CloseHTTP ==
  /\ server = "up"
  /\ stops < MaxStops
  /\ server' = "draining"
  /\ stops' = stops + 1
  /\ UNCHANGED <<requestVars, signals, queueVars, attemptVars,
                 withdrawn>>

\* workerServer.Shutdown: tasks still running are pushed back to the queue.
StopWorker ==
  /\ server = "draining"
  /\ task' = [c \in Chats |->
                IF EmbeddedRedis THEN NoTask
                ELSE IF worker[c] # NoAttempt
                THEN [task[c] EXCEPT !.state = "pending"] ELSE task[c]]
  /\ ProcessGone
  /\ UNCHANGED <<stops, after, deleted, src, ctx, post, withdrawn>>

\* A crash leaves active tasks to the lease recovery.
Crash ==
  /\ server # "down"
  /\ stops < MaxStops
  /\ stops' = stops + 1
  /\ task' = [c \in Chats |-> IF EmbeddedRedis THEN NoTask ELSE task[c]]
  /\ ProcessGone
  /\ UNCHANGED <<after, deleted, src, ctx, post, withdrawn>>

Restart ==
  /\ server = "down"
  /\ server' = "up"
  /\ UNCHANGED <<stops, requestVars, signals, queueVars, attemptVars,
                 withdrawn>>

Operate == CloseHTTP \/ StopWorker \/ Crash \/ Restart

Next ==
  \/ \E m \in Messages : MessageSend(m) \/ Request(m)
  \/ \E m, s \in Messages : RerunMessage(m, s)
  \/ \E i \in Interrupts : InterruptSignal(i) \/ InterruptClear(i)
  \/ \E r \in Messages \cup Interrupts : DeliverSignal(r)
  \/ \E c \in Chats : Timeout(c) \/ Worker(c)
  \/ \E a \in Attempts : Handler(a)
  \/ Operate

Spec == Init /\ [][Next]_vars

\* A request once begun runs to its end, asynq keeps its loops running, time
\* passes, handlers make progress, and a stopping server stops and comes back.
\* Users are under no obligation to send, rerun or interrupt anything.
Fairness ==
  /\ \A m \in Messages : WF_vars(Request(m))
  /\ \A i \in Interrupts : WF_vars(InterruptClear(i))
  /\ \A c \in Chats : WF_vars(Timeout(c)) /\ WF_vars(Worker(c))
  /\ \A a \in Attempts : WF_vars(Handler(a))
  /\ WF_vars(StopWorker) /\ WF_vars(Restart)

FairSpec == Spec /\ Fairness

(***************************************************************************)
(* Properties.                                                             *)
(***************************************************************************)

TaskRecord ==
  [state : {"pending", "active", "retry", "archived"}, msg : Messages,
   retried : 0..MaxRetry]

\* Every variable keeps its type, and no task is retried more often than
\* MaxRetry.
TypeOK ==
  /\ server \in {"up", "draining", "down"}
  /\ stops \in 0..MaxStops
  /\ req \in [Messages -> {"new", "stored", "signalled", "cleared", "accepted",
                           "refused", "lost"}]
  /\ intr \in [Interrupts -> {"new", "signalled", "done"}]
  /\ after \in [Messages -> SUBSET Messages]
  /\ deleted \subseteq Messages
  /\ signals \subseteq Messages \cup Interrupts
  /\ task \in [Chats -> TaskRecord \cup {NoTask}]
  /\ worker \in [Chats -> Attempts \cup {NoAttempt}]
  /\ pc \in [Attempts -> Working \cup {"unused", "succeeded", "skipped",
                                        "errored", "over"}]
  /\ src \in [Attempts -> Messages \cup {NoMessage}]
  /\ ctx \in [Attempts -> {"live", "ended"}]
  /\ fate \in [Attempts -> {"none", "owner", "done", "abandoned"}]
  /\ post \in [Attempts -> {"none", "reply", "notice", "barred"}]
  /\ withdrawn \subseteq Messages

\* A handler whose context is live works on its chat's active task, for the
\* very message the task carries: a handler that lost its task (retry, delete,
\* re-enqueue under the same task id) has always been told so through its
\* context.
LiveHandlerOwnsTask ==
  \A a \in Attempts : Running(a) /\ ctx[a] = "live" =>
    LET c == ChatOf[src[a]] IN
    /\ worker[c] = a
    /\ task[c].state = "active"
    /\ task[c].msg = src[a]

\* A client that polls the status endpoint never reads "finished", "failed" or
\* "idle" while a reply that nobody cancelled is still being produced, nor
\* while a reply is queued or waiting for its next attempt.
StatusCoversWork ==
  \A c \in Chats : ~Live(c) =>
    /\ task[c].state \in {"none", "archived"}
    /\ \A a \in Attempts : Running(a) /\ ctx[a] = "live" => ChatOf[src[a]] # c

\* The same message is answered by two attempts only if asynq gave one of them
\* up: no message is answered twice in a run without timeout, cancel or crash.
NoUnexplainedDuplicate ==
  \A a, b \in Attempts :
    a # b /\ src[a] = src[b] /\ post[a] = "reply" /\ post[b] = "reply" =>
      "abandoned" \in {fate[a], fate[b]}

\* A reply that a request was told is scheduled (HTTP 200) does not vanish: its
\* task is still there, or was taken to an end by the worker, or was deleted by
\* a later request.  (With the embedded Redis a restart empties the queue.)
AcceptedNotLost ==
  \A m \in Messages : req[m] = "accepted" =>
    \/ task[ChatOf[m]].msg = m
    \/ m \in withdrawn
    \/ \E a \in Attempts : src[a] = m /\ fate[a] = "done"
    \/ EmbeddedRedis /\ stops > 0

\* "EnqueueBotReply schedules a bot reply, cancelling any existing reply task
\* for the chat first" (workqueue/bot_reply.go:26): the call never finds the old
\* task still in its way.  Violated by a message that is sent while the bot is
\* writing: its task is active, and DeleteTask refuses that.
ExistingReplyIsCancelled == \A m \in Messages : req[m] # "refused"

\* The queue works every scheduled reply off: no chat stays "active" for ever,
\* whatever requests, cancels, timeouts and crashes come in between.
TaskSettles == \A c \in Chats : Live(c) ~> ~Live(c)

\* A scheduled reply leads to a message from the bot, unless the reply was
\* withdrawn, its handler barred before it began (LoadSource), or the process
\* stopped.
AcceptedIsAnswered ==
  \A m \in Messages :
    req[m] = "accepted" ~>
      \/ \E a \in Attempts : src[a] = m /\ post[a] # "none"
      \/ m \in withdrawn
      \/ stops > 0
=============================================================================
