----------------------------- MODULE ReplySlot ------------------------------
(***************************************************************************)
(* What the bot reply pipeline promises, seen from a chat: it owes at most *)
(* one reply at a time, a reply once owed is never silently exchanged for  *)
(* another, at most one handler holds the mandate to produce it, the       *)
(* mandate is revoked before anybody else gets it, and a message is        *)
(* scheduled at most once.                                                 *)
(***************************************************************************)
CONSTANTS Chats, Messages, NoMessage

VARIABLES
  owed,       \* the message a chat owes a reply to, or NoMessage
  mandated,   \* is a handler working on it with a live mandate?
  scheduled   \* messages whose reply has ever been scheduled

vars == <<owed, mandated, scheduled>>

Init ==
  /\ owed      = [c \in Chats |-> NoMessage]
  /\ mandated  = [c \in Chats |-> FALSE]
  /\ scheduled = {}

Schedule(c, m) ==
  /\ owed[c] = NoMessage
  /\ m \notin scheduled
  /\ owed' = [owed EXCEPT ![c] = m]
  /\ scheduled' = scheduled \cup {m}
  /\ UNCHANGED mandated

\* A handler gets the mandate.
Start(c) ==
  /\ owed[c] # NoMessage
  /\ ~mandated[c]
  /\ mandated' = [mandated EXCEPT ![c] = TRUE]
  /\ UNCHANGED <<owed, scheduled>>

\* The mandate ends and the reply stays owed.
Revoke(c) ==
  /\ mandated[c]
  /\ mandated' = [mandated EXCEPT ![c] = FALSE]
  /\ UNCHANGED <<owed, scheduled>>

\* The holder of the mandate settles what is owed.
Complete(c) ==
  /\ mandated[c]
  /\ mandated' = [mandated EXCEPT ![c] = FALSE]
  /\ owed' = [owed EXCEPT ![c] = NoMessage]
  /\ UNCHANGED scheduled

\* Nobody holds the mandate and the reply is given up.
GiveUp(c) ==
  /\ ~mandated[c]
  /\ owed' = [owed EXCEPT ![c] = NoMessage]
  /\ UNCHANGED <<mandated, scheduled>>

\* The process stops: every mandate ends, and what was owed stays owed or, with
\* a queue that lives in the process, is forgotten.
Outage ==
  /\ mandated' = [c \in Chats |-> FALSE]
  /\ owed' \in {owed, [c \in Chats |-> NoMessage]}
  /\ UNCHANGED scheduled

Next ==
  \/ \E c \in Chats, m \in Messages : Schedule(c, m)
  \/ \E c \in Chats : Start(c) \/ Revoke(c) \/ Complete(c) \/ GiveUp(c)
  \/ Outage

Spec == Init /\ [][Next]_vars
=============================================================================
