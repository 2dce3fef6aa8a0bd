------------------------- MODULE BotReplyRefinement -------------------------
(***************************************************************************)
(* The queue, the worker and the contexts of BotReply implement ReplySlot. *)
(***************************************************************************)
EXTENDS BotReply

\* A chat owes a reply while its task is pending, active or due for a retry.
OwedBy(c) == IF Live(c) THEN task[c].msg ELSE NoMessage

\* The attempt asynq waits for holds the mandate until its context ends.
Mandated(c) == worker[c] # NoAttempt /\ ctx[worker[c]] = "live"

Slot == INSTANCE ReplySlot WITH
  owed      <- [c \in Chats |-> OwedBy(c)],
  mandated  <- [c \in Chats |-> Mandated(c)],
  scheduled <- {m \in Messages : req[m] = "accepted"}

\* Every step of requests, worker, handlers and outages is a step of the reply
\* slot or leaves it alone: EnqueueBotReply never overwrites a reply that is
\* still owed, CancelBotReplyTask never takes the task away from a handler whose
\* context is live, and no second handler starts while a first is in charge.
ImplementsReplySlot == Slot!Spec
=============================================================================
