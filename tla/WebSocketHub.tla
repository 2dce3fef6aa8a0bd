---------------------------- MODULE WebSocketHub ----------------------------
(***************************************************************************)
(* The websocket handler: publishers put a message into the buffer of each *)
(* subscriber of a channel and never wait.  A subscriber whose buffer is   *)
(* full misses the message and is closed by a goroutine of its own, which  *)
(* races with the subscription's set-up.  Messages are numbered in the     *)
(* order they are published; all subscribers are on one channel.           *)
(***************************************************************************)
EXTENDS Naturals, Sequences, SequencesExt

CONSTANTS
  Subs,         \* subscriptions
  Capacity,     \* subscriberMessageBuffer
  MaxMessages   \* bound on the messages published

ASSUME HubAssumption == Capacity \in Nat \ {0} /\ MaxMessages \in Nat

VARIABLES
  pc,           \* where the handler of a subscription is
  subscribers,  \* the registered subscriptions
  connections,  \* the registered connections
  conn,         \* the connection: "none", "open" or "closed"
  msgs,         \* the buffer of a subscription
  writing,      \* the message it has taken from there, at most one
  received,     \* what its client has received
  published,    \* number of messages published
  joined,       \* ... when the subscription was registered
  closing,      \* has a closeSlow goroutine been started and not yet run?
  closed        \* the flag closeSlow sets

vars == <<pc, subscribers, connections, conn, msgs, writing, received,
          published, joined, closing, closed>>

Init ==
  /\ pc = [s \in Subs |-> "new"]
  /\ subscribers = {}
  /\ connections = {}
  /\ conn = [s \in Subs |-> "none"]
  /\ msgs = [s \in Subs |-> <<>>]
  /\ writing = [s \in Subs |-> <<>>]
  /\ received = [s \in Subs |-> <<>>]
  /\ published = 0
  /\ joined = [s \in Subs |-> 0]
  /\ closing = [s \in Subs |-> FALSE]
  /\ closed = [s \in Subs |-> FALSE]

(***************************************************************************)
(* Publishers.                                                             *)
(***************************************************************************)

Full(s) == Len(msgs[s]) = Capacity

\* Fault: a message that does not fit is dropped and nobody is told.
PublishDropping ==
  /\ published < MaxMessages
  /\ published' = published + 1
  /\ msgs' = [s \in Subs |->
                IF s \in subscribers /\ ~Full(s)
                THEN Append(msgs[s], published') ELSE msgs[s]]
  /\ UNCHANGED <<pc, subscribers, connections, conn, writing, received, joined,
                 closing, closed>>

\* A message is offered to every subscriber, under the lock of the hub.
PublishInChannel ==
  /\ published < MaxMessages
  /\ published' = published + 1
  /\ msgs' = [s \in Subs |->
                IF s \in subscribers /\ ~Full(s)
                THEN Append(msgs[s], published') ELSE msgs[s]]
  /\ closing' = [s \in Subs |-> closing[s] \/ (s \in subscribers /\ Full(s))]
  /\ UNCHANGED <<pc, subscribers, connections, conn, writing, received, joined,
                 closed>>

\* Has the handler handed its connection to closeSlow?
HasConn(s) == pc[s] \in {"assigned", "serving", "writing"}

\* The goroutine of a slow subscription: sets the flag, and closes the
\* connection if it has one by now.
CloseSlow(s) ==
  /\ closing[s]
  /\ closing' = [closing EXCEPT ![s] = FALSE]
  /\ closed' = [closed EXCEPT ![s] = TRUE]
  /\ conn' = [conn EXCEPT ![s] = IF HasConn(s) THEN "closed" ELSE @]
  /\ UNCHANGED <<pc, subscribers, connections, msgs, writing, received,
                 published, joined>>

(***************************************************************************)
(* The handler of a subscription.                                          *)
(***************************************************************************)

\* Registered before the connection is accepted, so that nothing is missed.
AddSubscriber(s) ==
  /\ pc[s] = "new"
  /\ pc' = [pc EXCEPT ![s] = "subscribed"]
  /\ subscribers' = subscribers \cup {s}
  /\ joined' = [joined EXCEPT ![s] = published]
  /\ UNCHANGED <<connections, conn, msgs, writing, received, published,
                 closing, closed>>

Accept(s) ==
  /\ pc[s] = "subscribed"
  /\ pc' = [pc EXCEPT ![s] = "accepted"]
  /\ conn' = [conn EXCEPT ![s] = "open"]
  /\ UNCHANGED <<subscribers, connections, msgs, writing, received, published,
                 joined, closing, closed>>

\* The handler returns, and its deferred calls forget the subscription.
Return(s) ==
  /\ pc' = [pc EXCEPT ![s] = "returned"]
  /\ subscribers' = subscribers \ {s}
  /\ connections' = connections \ {s}
  /\ writing' = [writing EXCEPT ![s] = <<>>]
  /\ UNCHANGED <<msgs, received, published, joined, closing, closed>>

AcceptFails(s) ==
  /\ pc[s] = "subscribed"
  /\ Return(s)
  /\ UNCHANGED conn

\* Fault: the flag is not looked at when the connection is handed over.
AssignUnchecked(s) ==
  /\ pc[s] = "accepted"
  /\ pc' = [pc EXCEPT ![s] = "assigned"]
  /\ UNCHANGED <<subscribers, connections, conn, msgs, writing, received,
                 published, joined, closing, closed>>

\* The accepted connection is handed to closeSlow, unless that has run: then
\* the handler returns, and leaves the connection as it is.
Assign(s) ==
  /\ pc[s] = "accepted"
  /\ \/ /\ closed[s]
        /\ Return(s)
     \/ /\ ~closed[s]
        /\ pc' = [pc EXCEPT ![s] = "assigned"]
        /\ UNCHANGED <<subscribers, connections, msgs, writing, received,
                       published, joined, closing, closed>>
  /\ UNCHANGED conn

AddConnection(s) ==
  /\ pc[s] = "assigned"
  /\ pc' = [pc EXCEPT ![s] = "serving"]
  /\ connections' = connections \cup {s}
  /\ UNCHANGED <<subscribers, conn, msgs, writing, received, published, joined,
                 closing, closed>>

TakeMessage(s) ==
  /\ pc[s] = "serving"
  /\ msgs[s] # <<>>
  /\ pc' = [pc EXCEPT ![s] = "writing"]
  /\ writing' = [writing EXCEPT ![s] = <<Head(msgs[s])>>]
  /\ msgs' = [msgs EXCEPT ![s] = Tail(@)]
  /\ UNCHANGED <<subscribers, connections, conn, received, published, joined,
                 closing, closed>>

WriteMessage(s) ==
  /\ pc[s] = "writing"
  /\ conn[s] = "open"
  /\ pc' = [pc EXCEPT ![s] = "serving"]
  /\ received' = [received EXCEPT ![s] = @ \o writing[s]]
  /\ writing' = [writing EXCEPT ![s] = <<>>]
  /\ UNCHANGED <<subscribers, connections, conn, msgs, published, joined,
                 closing, closed>>

\* A write fails, or takes longer than 200 s; or the loop sees that the
\* connection is closed.  The deferred CloseNow closes it.
StopServing(s) ==
  /\ \/ pc[s] = "writing"
     \/ pc[s] = "serving" /\ conn[s] = "closed"
  /\ Return(s)
  /\ conn' = [conn EXCEPT ![s] = "closed"]

\* The client goes away.
Disconnect(s) ==
  /\ conn[s] = "open"
  /\ conn' = [conn EXCEPT ![s] = "closed"]
  /\ UNCHANGED <<pc, subscribers, connections, msgs, writing, received,
                 published, joined, closing, closed>>

\* The server shuts down: the connections registered by now are closed.
Shutdown ==
  /\ \E s \in connections : conn[s] = "open"
  /\ conn' = [s \in Subs |-> IF s \in connections THEN "closed" ELSE conn[s]]
  /\ UNCHANGED <<pc, subscribers, connections, msgs, writing, received,
                 published, joined, closing, closed>>

Serve(s) ==
  \/ Accept(s) \/ AcceptFails(s) \/ Assign(s) \/ AddConnection(s)
  \/ TakeMessage(s) \/ WriteMessage(s) \/ StopServing(s)

Next ==
  \/ PublishInChannel
  \/ \E s \in Subs :
       AddSubscriber(s) \/ Serve(s) \/ CloseSlow(s) \/ Disconnect(s)
  \/ Shutdown

Spec == Init /\ [][Next]_vars

\* Fairness: goroutines run, an Accept ends, a write ends within its timeout.
FairSpec ==
  /\ Spec
  /\ \A s \in Subs : WF_vars(Serve(s)) /\ WF_vars(CloseSlow(s))

-----------------------------------------------------------------------------
\* Every variable keeps its type.
TypeOK ==
  /\ pc \in [Subs -> {"new", "subscribed", "accepted", "assigned", "serving",
                      "writing", "returned"}]
  /\ subscribers \subseteq Subs
  /\ connections \subseteq subscribers
  /\ conn \in [Subs -> {"none", "open", "closed"}]
  /\ msgs \in [Subs -> Seq(1..published)]
  /\ writing \in [Subs -> Seq(1..published)]
  /\ received \in [Subs -> Seq(1..published)]
  /\ \A s \in Subs : Len(msgs[s]) <= Capacity /\ Len(writing[s]) <= 1
  /\ published \in 0..MaxMessages
  /\ joined \in [Subs -> 0..published]
  /\ closing \in [Subs -> BOOLEAN]
  /\ closed \in [Subs -> BOOLEAN]

Stream(s) == received[s] \o writing[s] \o msgs[s]

\* A subscription that is not being closed as slow has every message since it
\* was registered, in the order of publishing, received or on its way.
CompleteUnlessSlow ==
  \A s \in subscribers :
    ~closing[s] /\ ~closed[s] =>
      Stream(s) = [i \in 1 .. published - joined[s] |-> joined[s] + i]

\* No client receives a message twice, late, or from before it subscribed, also
\* not one that is being closed.
InOrder ==
  \A s \in Subs :
    /\ \A i \in 1 .. Len(Stream(s)) : Stream(s)[i] > joined[s]
    /\ \A i \in 2 .. Len(Stream(s)) : Stream(s)[i - 1] < Stream(s)[i]

\* A slow subscription is given up, whenever in its life it became slow.
SlowLeaves ==
  \A s \in Subs : closing[s] ~> pc[s] = "returned"

\* A subscription that was not slow got every message, and all get them in order.
DeliveredRight ==
  /\ TypeOK
  /\ CompleteUnlessSlow
  /\ InOrder
=============================================================================
