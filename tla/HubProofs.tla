----------------------------- MODULE HubProofs ------------------------------
(***************************************************************************)
(* Who is asked for and who is told: the sessions that a request is let in *)
(* with, and the hub that pushes what happens to the clients.  The two are *)
(* apart: each has an invariant of its own.                                *)
(***************************************************************************)
EXTENDS WebSocketHub, Sessions, SequenceTheorems, TLAPS

(***************************************************************************)
(* What a client of the websocket hub receives, proved for any number of   *)
(* subscriptions, any capacity of their buffers and any number of          *)
(* messages.  The stream of a subscription is what its client has          *)
(* received, then what its handler holds, then what its buffer holds: a    *)
(* publisher appends to it, the handler moves messages along it, and only  *)
(* a handler that returns takes one out.                                   *)
(***************************************************************************)
\* The handler and the hub agree: a subscription is registered from its first
\* step to its last, has nothing before that, and holds a message only while
\* it writes.
PlaceInv ==
  \A s \in Subs :
    /\ s \in subscribers <=> pc[s] \notin {"new", "returned"}
    /\ pc[s] = "new" =>
         msgs[s] = <<>> /\ writing[s] = <<>> /\ received[s] = <<>>
    /\ pc[s] # "writing" => writing[s] = <<>>

\* A sequence of numbers that grows at every step, from above n.
Rising(q, n) ==
  /\ \A i \in 1 .. Len(q) : q[i] > n
  /\ \A i, k \in 1 .. Len(q) : i < k => q[i] < q[k]

\* Pairwise, so that it survives the loss of a message in the middle.
OrderInv == \A s \in Subs : Rising(Stream(s), joined[s])

HubInv == TypeOK /\ PlaceInv /\ OrderInv /\ CompleteUnlessSlow

-----------------------------------------------------------------------------
\* What the steps of a stream do to it.

LEMMA RisingAppend ==
  ASSUME NEW q \in Seq(Nat), NEW n \in Nat, NEW x \in Nat,
         Rising(q, n), x > n, \A i \in 1 .. Len(q) : q[i] < x
  PROVE  Rising(Append(q, x), n)
<1>1. /\ Append(q, x) \in Seq(Nat)
      /\ Len(Append(q, x)) = Len(q) + 1
      /\ \A i \in 1 .. Len(q) : Append(q, x)[i] = q[i]
      /\ Append(q, x)[Len(q) + 1] = x
  BY AppendProperties
<1>2. Len(q) \in Nat /\ \A i \in 1 .. Len(q) : q[i] \in Nat
  BY LenProperties, ElementOfSeq
<1> QED  BY <1>1, <1>2 DEF Rising

LEMMA RisingDrop ==
  ASSUME NEW r \in Seq(Nat), NEW w \in Seq(Nat), NEW m \in Seq(Nat),
         NEW n \in Nat, Rising((r \o w) \o m, n)
  PROVE  Rising((r \o <<>>) \o m, n)
<1> DEFINE q == (r \o w) \o m
           p == r \o m
<1>1. r \o w \in Seq(Nat) /\ q \in Seq(Nat) /\ p \in Seq(Nat)
  BY ConcatProperties
<1>2. /\ Len(r) \in Nat /\ Len(w) \in Nat /\ Len(m) \in Nat
      /\ Len(r \o w) = Len(r) + Len(w)
      /\ Len(q) = Len(r) + Len(w) + Len(m)
      /\ Len(p) = Len(r) + Len(m)
  BY <1>1, ConcatProperties, LenProperties
<1> DEFINE at(i) == IF i <= Len(r) THEN i ELSE i + Len(w)
<1>3. ASSUME NEW i \in 1 .. Len(p)
      PROVE  at(i) \in 1 .. Len(q) /\ p[i] = q[at(i)]
  <2>1. /\ p[i] = IF i <= Len(r) THEN r[i] ELSE m[i - Len(r)]
        /\ \A j \in 1 .. Len(r) + Len(w) :
              (r \o w)[j] = IF j <= Len(r) THEN r[j] ELSE w[j - Len(r)]
        /\ \A j \in 1 .. Len(r) + Len(w) + Len(m) :
              q[j] = IF j <= Len(r) + Len(w) THEN (r \o w)[j]
                     ELSE m[j - (Len(r) + Len(w))]
    <3>1. p[i] = IF i <= Len(r) THEN r[i] ELSE m[i - Len(r)]
      BY <1>2, ConcatProperties
    <3>2. \A j \in 1 .. Len(r) + Len(w) :
            (r \o w)[j] = IF j <= Len(r) THEN r[j] ELSE w[j - Len(r)]
      BY ConcatProperties
    <3>3. \A j \in 1 .. Len(r \o w) + Len(m) :
            q[j] = IF j <= Len(r \o w) THEN (r \o w)[j]
                   ELSE m[j - Len(r \o w)]
      BY <1>1, ConcatProperties
    <3> QED  BY <3>1, <3>2, <3>3, <1>2
  <2> HIDE DEF p, q
  <2>2. CASE i <= Len(r)
    <3>1. at(i) = i /\ i \in 1 .. Len(r) + Len(w)
            /\ i \in 1 .. Len(r) + Len(w) + Len(m)
      BY <2>2, <1>2
    <3> QED  BY <3>1, <2>1, <2>2, <1>2
  <2>3. CASE ~(i <= Len(r))
    <3>1. /\ at(i) = i + Len(w)
          /\ i + Len(w) \in 1 .. Len(r) + Len(w) + Len(m)
          /\ ~(i + Len(w) <= Len(r) + Len(w))
          /\ (i + Len(w)) - (Len(r) + Len(w)) = i - Len(r)
      BY <2>3, <1>2
    <3> QED  BY <3>1, <2>1, <2>3, <1>2
  <2> QED  BY <2>2, <2>3
<1>4. \A i, k \in 1 .. Len(p) : i < k => at(i) < at(k)
  BY <1>2
<1>5. Rising(q, n)
  OBVIOUS
<1>6. (r \o <<>>) \o m = p
  BY ConcatEmptySeq
<1> HIDE DEF p, q, at
<1>7. Rising(p, n)
  BY <1>3, <1>4, <1>5 DEF Rising
<1> QED  BY <1>6, <1>7

LEMMA Assoc ==
  ASSUME NEW p \in Seq(Nat), NEW q \in Seq(Nat), NEW r \in Seq(Nat)
  PROVE  (p \o q) \o r = p \o (q \o r)
<1> DEFINE lhs == (p \o q) \o r
           rhs == p \o (q \o r)
<1>1. /\ p \o q \in Seq(Nat) /\ q \o r \in Seq(Nat)
      /\ lhs \in Seq(Nat) /\ rhs \in Seq(Nat)
  BY ConcatProperties
<1>2. Len(lhs) = Len(rhs)
  OBVIOUS
<1>3. ASSUME NEW i \in 1 .. Len(lhs)  PROVE  lhs[i] = rhs[i]
  OBVIOUS
<1> HIDE DEF lhs, rhs
<1>4. lhs = rhs
  BY <1>1, <1>2, <1>3, SeqEqual
<1> QED  BY <1>4, Zenon DEF lhs, rhs

LEMMA StreamAppend ==
  ASSUME NEW r \in Seq(Nat), NEW w \in Seq(Nat), NEW m \in Seq(Nat),
         NEW x \in Nat
  PROVE  (r \o w) \o Append(m, x) = Append((r \o w) \o m, x)
<1> DEFINE p == r \o w
           u == <<x>>
<1>1. p \in Seq(Nat) /\ u \in Seq(Nat)
  BY ConcatProperties
<1>2. Append(m, x) = m \o u /\ Append(p \o m, x) = (p \o m) \o u
  <2>1. p \o m \in Seq(Nat)
    BY <1>1, ConcatProperties
  <2> QED  BY <2>1, AppendIsConcat
<1> HIDE DEF p, u
<1>3. (p \o m) \o u = p \o (m \o u)
  BY <1>1, Assoc, ZenonT(60)
<1>4. p \o Append(m, x) = Append(p \o m, x)
  BY <1>2, <1>3, Zenon
<1> QED  BY <1>4, Zenon DEF p

LEMMA StreamTake ==
  ASSUME NEW r \in Seq(Nat), NEW m \in Seq(Nat), m # <<>>
  PROVE  (r \o <<Head(m)>>) \o Tail(m) = (r \o <<>>) \o m
<1>1. /\ Head(m) \in Nat /\ Tail(m) \in Seq(Nat)
      /\ Len(Tail(m)) = Len(m) - 1
      /\ \A i \in 1 .. Len(Tail(m)) : Tail(m)[i] = m[i + 1]
  BY HeadTailProperties
<1>2. <<Head(m)>> \in Seq(Nat) /\ Len(<<Head(m)>>) = 1
      /\ <<Head(m)>>[1] = Head(m) /\ Head(m) = m[1]
  BY <1>1
<1>3. Len(m) \in Nat \ {0}
  BY EmptySeq
<1>4. <<Head(m)>> \o Tail(m) = m
  <2> DEFINE c == <<Head(m)>> \o Tail(m)
  <2>1. /\ c \in Seq(Nat) /\ Len(c) = 1 + Len(Tail(m))
        /\ \A i \in 1 .. 1 + Len(Tail(m)) :
             c[i] = IF i <= 1 THEN <<Head(m)>>[i] ELSE Tail(m)[i - 1]
    BY <1>1, <1>2, ConcatProperties
  <2> HIDE DEF c
  <2>2. Len(c) = Len(m)
    BY <2>1, <1>1, <1>3
  <2>3. ASSUME NEW i \in 1 .. Len(c)  PROVE  c[i] = m[i]
    <3>1. CASE i = 1
      BY <3>1, <2>1, <2>2, <1>1, <1>2, <1>3
    <3>2. CASE i # 1
      <4>1. i - 1 \in 1 .. Len(Tail(m)) /\ ~(i <= 1) /\ (i - 1) + 1 = i
        BY <3>2, <2>2, <1>1, <1>3
      <4> QED  BY <4>1, <2>1, <2>2, <1>1, <1>3
    <3> QED  BY <3>1, <3>2
  <2>4. c = m
    BY <2>1, <2>2, <2>3, SeqEqual
  <2> QED  BY <2>4 DEF c
<1>5. (r \o <<Head(m)>>) \o Tail(m) = r \o (<<Head(m)>> \o Tail(m))
  BY <1>1, <1>2, Assoc, ZenonT(60)
<1>6. r \o <<>> = r
  BY ConcatEmptySeq
<1> QED  BY <1>4, <1>5, <1>6

\* All the numbers from j + 1 on, one more.
LEMMA AllAppend ==
  ASSUME NEW j \in Nat, NEW k \in Nat,
         NEW q \in Seq(Nat), q = [i \in 1 .. k |-> j + i]
  PROVE  Append(q, j + k + 1) = [i \in 1 .. k + 1 |-> j + i]
<1>1. Len(q) = k
  BY LenProperties
<1>2. /\ Append(q, j + k + 1) \in Seq(Nat)
      /\ Len(Append(q, j + k + 1)) = k + 1
      /\ \A i \in 1 .. k : Append(q, j + k + 1)[i] = q[i]
      /\ Append(q, j + k + 1)[k + 1] = j + k + 1
  BY <1>1, AppendProperties
<1>3. [i \in 1 .. k + 1 |-> j + i] \in Seq(Nat)
      /\ Len([i \in 1 .. k + 1 |-> j + i]) = k + 1
  OBVIOUS
<1>4. ASSUME NEW i \in 1 .. k + 1
      PROVE  Append(q, j + k + 1)[i] = [h \in 1 .. k + 1 |-> j + h][i]
  <2>1. CASE i = k + 1
    BY <2>1, <1>2
  <2>2. CASE i # k + 1
    <3>1. i \in 1 .. k
      BY <2>2
    <3> QED  BY <3>1, <1>2
  <2> QED  BY <2>1, <2>2
<1> QED  BY <1>2, <1>3, <1>4, SeqEqual

-----------------------------------------------------------------------------
\* The parts of a stream, and the stream, are sequences of the numbers given
\* so far.
LEMMA Streams ==
  ASSUME TypeOK, NEW s \in Subs
  PROVE  /\ published \in Nat /\ joined[s] \in Nat
         /\ joined[s] <= published
         /\ received[s] \in Seq(Nat)
         /\ writing[s] \in Seq(Nat)
         /\ msgs[s] \in Seq(Nat)
         /\ Stream(s) \in Seq(Nat)
         /\ \A i \in 1 .. Len(Stream(s)) : Stream(s)[i] <= published
<1>1. published \in Nat /\ joined[s] \in 0 .. published
  BY HubAssumption DEF TypeOK
<1>2. /\ received[s] \in Seq(1 .. published)
      /\ writing[s] \in Seq(1 .. published)
      /\ msgs[s] \in Seq(1 .. published)
  BY DEF TypeOK
<1>3. received[s] \o writing[s] \in Seq(1 .. published)
  BY <1>2, ConcatProperties
<1>4. Stream(s) \in Seq(1 .. published)
  BY <1>2, <1>3, ConcatProperties DEF Stream
<1>5. ASSUME NEW q \in Seq(1 .. published)  PROVE  q \in Seq(Nat)
  <2>1. 1 .. published \subseteq Nat
    BY <1>1
  <2> QED  BY <2>1, SeqMonotonic
<1>6. \A i \in 1 .. Len(Stream(s)) : Stream(s)[i] \in 1 .. published
  BY <1>4, ElementOfSeq
<1> QED  BY <1>1, <1>2, <1>4, <1>5, <1>6

LEMMA HubInit ==
  Init => HubInv
<1> SUFFICES ASSUME Init  PROVE  HubInv
  OBVIOUS
<1>1. TypeOK
  BY HubAssumption, EmptySeq DEF Init, TypeOK
<1>2. PlaceInv
  BY DEF Init, PlaceInv
<1>3. ASSUME NEW s \in Subs  PROVE  Stream(s) = <<>>
  BY ConcatEmptySeq, EmptySeq DEF Init, Stream
<1>4. OrderInv
  BY <1>3, EmptySeq DEF OrderInv, Rising
<1>5. CompleteUnlessSlow
  BY DEF Init, CompleteUnlessSlow
<1> QED  BY <1>1, <1>2, <1>4, <1>5 DEF HubInv

-----------------------------------------------------------------------------
\* A sequence of the numbers given so far is one of those given a step later.
LEMMA Later ==
  ASSUME TypeOK, published' \in {published, published + 1},
         NEW q \in Seq(1 .. published)
  PROVE  q \in Seq(1 .. published')
<1>1. 1 .. published \subseteq 1 .. published'
  BY HubAssumption DEF TypeOK
<1> QED  BY <1>1, SeqMonotonic

LEMMA Published ==
  ASSUME TypeOK, [Next]_vars
  PROVE  /\ published' \in {published, published + 1}
         /\ published' \in 0 .. MaxMessages
<1>1. published \in 0 .. MaxMessages /\ MaxMessages \in Nat
  BY HubAssumption DEF TypeOK
<1>2. CASE PublishInChannel
  BY <1>1, <1>2 DEF PublishInChannel
<1>3. CASE ~PublishInChannel
  <2>1. published' = published
    BY <1>3 DEF Next, vars, AddSubscriber, Serve, Accept, AcceptFails, Assign,
                AddConnection, TakeMessage, WriteMessage, StopServing, Return,
                CloseSlow, Disconnect, Shutdown
  <2> QED  BY <2>1, <1>1
<1> QED  BY <1>2, <1>3

\* The sequences of a subscription.
LEMMA SequencesStep ==
  ASSUME TypeOK, [Next]_vars, NEW s \in Subs
  PROVE  /\ msgs'[s] \in Seq(1 .. published')
         /\ writing'[s] \in Seq(1 .. published')
         /\ received'[s] \in Seq(1 .. published')
         /\ Len(msgs'[s]) <= Capacity
         /\ Len(writing'[s]) <= 1
<1>0. /\ msgs[s] \in Seq(1 .. published) /\ Len(msgs[s]) <= Capacity
      /\ writing[s] \in Seq(1 .. published) /\ Len(writing[s]) <= 1
      /\ received[s] \in Seq(1 .. published)
      /\ published \in Nat /\ Capacity \in Nat \ {0}
  BY HubAssumption DEF TypeOK
<1>1. /\ msgs[s] \in Seq(1 .. published')
      /\ writing[s] \in Seq(1 .. published')
      /\ received[s] \in Seq(1 .. published')
      /\ <<>> \in Seq(1 .. published') /\ Len(<<>>) = 0
      /\ Len(msgs[s]) \in Nat
  BY <1>0, Published, Later, EmptySeq, LenProperties
<1>2. \A q : q = writing[s] \/ q = <<>> =>
              q \in Seq(1 .. published') /\ Len(q) <= 1
  <2>1. Len(<<>>) <= 1
    BY <1>1
  <2> QED  BY <1>0, <1>1, <2>1, Zenon
<1>3. CASE PublishInChannel
  <2>1. /\ published' = published + 1 /\ published' \in 1 .. published'
        /\ writing' = writing /\ received' = received
        /\ msgs'[s] = IF s \in subscribers /\ ~Full(s)
                      THEN Append(msgs[s], published') ELSE msgs[s]
    BY <1>3, <1>0 DEF PublishInChannel
  <2>2. /\ Append(msgs[s], published') \in Seq(1 .. published')
        /\ Len(Append(msgs[s], published')) = Len(msgs[s]) + 1
    BY <1>1, <2>1, AppendProperties
  <2>3. ~Full(s) => Len(msgs[s]) + 1 <= Capacity
    BY <1>0, <1>1 DEF Full
  <2> QED  BY <1>0, <1>1, <2>1, <2>2, <2>3
<1>4. ASSUME NEW t \in Subs, TakeMessage(t)
      PROVE  /\ msgs'[s] \in Seq(1 .. published') /\ Len(msgs'[s]) <= Capacity
             /\ writing'[s] \in Seq(1 .. published') /\ Len(writing'[s]) <= 1
             /\ received' = received
  <2>1. CASE s = t
    <3>1. /\ msgs[s] # <<>> /\ received' = received
          /\ msgs'[s] = Tail(msgs[s])
          /\ writing'[s] = <<Head(msgs[s])>>
      BY <1>4, <2>1 DEF TakeMessage, TypeOK
    <3>2. /\ Head(msgs[s]) \in 1 .. published'
          /\ Tail(msgs[s]) \in Seq(1 .. published')
          /\ Len(Tail(msgs[s])) = Len(msgs[s]) - 1
      BY <1>1, <3>1, HeadTailProperties
    <3>3. <<Head(msgs[s])>> \in Seq(1 .. published')
          /\ Len(<<Head(msgs[s])>>) = 1
      BY <3>2
    <3> QED  BY <1>0, <1>1, <3>1, <3>2, <3>3
  <2>2. CASE s # t
    <3>1. msgs'[s] = msgs[s] /\ writing'[s] = writing[s] /\ received' = received
      BY <1>4, <2>2 DEF TakeMessage
    <3> QED  BY <3>1, <1>0, <1>1
  <2> QED  BY <2>1, <2>2
<1>5. ASSUME NEW t \in Subs, WriteMessage(t)
      PROVE  /\ received'[s] \in Seq(1 .. published')
             /\ writing'[s] \in Seq(1 .. published') /\ Len(writing'[s]) <= 1
             /\ msgs' = msgs
  <2>1. received[s] \o writing[s] \in Seq(1 .. published')
    BY <1>1, ConcatProperties
  <2>2. /\ received'[s] = received[s] \/ received'[s] = received[s] \o writing[s]
        /\ writing'[s] = writing[s] \/ writing'[s] = <<>>
        /\ msgs' = msgs
    BY <1>5 DEF WriteMessage, TypeOK
  <2> QED  BY <1>1, <1>2, <2>1, <2>2
<1>6. CASE \/ UNCHANGED vars \/ Shutdown
           \/ \E t \in Subs : \/ AddSubscriber(t) \/ CloseSlow(t) \/ Disconnect(t)
                              \/ Accept(t) \/ AcceptFails(t) \/ Assign(t)
                              \/ AddConnection(t) \/ StopServing(t)
  <2>1. /\ msgs' = msgs /\ received' = received
        /\ writing'[s] = writing[s] \/ writing'[s] = <<>>
    BY <1>6 DEF vars, Shutdown, AddSubscriber, CloseSlow, Disconnect, Accept,
                AcceptFails, Assign, AddConnection, StopServing, Return, TypeOK
  <2> QED  BY <1>0, <1>1, <1>2, <2>1
<1> QED
  <2>1. CASE \E t \in Subs : TakeMessage(t)
    BY <1>1, <1>4, <2>1
  <2>2. CASE \E t \in Subs : WriteMessage(t)
    BY <1>0, <1>1, <1>5, <2>2
  <2> QED  BY <1>3, <1>6, <2>1, <2>2 DEF Next, Serve

\* What a step does to one subscription: nothing that its stream shows; a
\* message is offered; it registers, moves on, takes or writes a message, or
\* returns.
Kept(s) == msgs'[s] = msgs[s] /\ received'[s] = received[s]

Same(s) ==
  /\ pc'[s] = pc[s] /\ (s \in subscribers' <=> s \in subscribers)
  /\ joined'[s] = joined[s] /\ writing'[s] = writing[s]

Joins(s) ==
  /\ pc[s] = "new" /\ pc'[s] = "subscribed" /\ s \in subscribers'
  /\ joined'[s] = published /\ published' = published
  /\ writing'[s] = writing[s] /\ Kept(s)

Leaves(s) ==
  /\ pc[s] # "new" /\ pc'[s] = "returned" /\ s \notin subscribers'
  /\ joined'[s] = joined[s] /\ published' = published
  /\ writing'[s] = <<>> /\ Kept(s)

Serves(s) ==
  /\ pc[s] \notin {"new", "returned"} /\ pc'[s] \notin {"new", "returned"}
  /\ s \in subscribers /\ s \in subscribers'
  /\ joined'[s] = joined[s] /\ published' = published

Moves(s) ==
  \/ Same(s) /\ published' = published /\ Kept(s)
  \/ Same(s) /\ PublishInChannel
  \/ Joins(s)
  \/ Leaves(s)
  \/ Serves(s) /\ writing'[s] = writing[s] /\ pc[s] # "writing" /\ Kept(s)
  \/ /\ Serves(s) /\ pc'[s] = "writing" /\ pc[s] # "writing"
     /\ msgs[s] # <<>>
     /\ writing'[s] = <<Head(msgs[s])>> /\ msgs'[s] = Tail(msgs[s])
     /\ received'[s] = received[s]
  \/ /\ Serves(s)
     /\ writing'[s] = <<>> /\ received'[s] = received[s] \o writing[s]
     /\ msgs'[s] = msgs[s]

LEMMA Move ==
  ASSUME TypeOK, PlaceInv, [Next]_vars, NEW s \in Subs
  PROVE  Moves(s)
<1>1. CASE UNCHANGED vars
  BY <1>1 DEF vars, Moves, Same, Kept
<1>2. CASE PublishInChannel
  BY <1>2 DEF PublishInChannel, Moves, Same
<1>3. CASE Shutdown
  BY <1>3 DEF Shutdown, Moves, Same, Kept
<1>4. ASSUME NEW t \in Subs, CloseSlow(t) \/ Disconnect(t)
      PROVE  Moves(s)
  BY <1>4 DEF CloseSlow, Disconnect, Moves, Same, Kept
<1>5. ASSUME NEW t \in Subs, AddSubscriber(t) \/ Serve(t), s # t
      PROVE  Same(s) /\ published' = published /\ Kept(s)
  <2>1. CASE AddSubscriber(t)
    BY <1>5, <2>1 DEF AddSubscriber, Same, Kept
  <2>2. CASE Accept(t)
    BY <1>5, <2>2 DEF Accept, Same, Kept
  <2>3. ASSUME Return(t)
        PROVE  Same(s) /\ published' = published /\ Kept(s)
    BY <1>5, <2>3 DEF Return, Same, Kept
  <2>4. CASE Assign(t) /\ ~Return(t)
    <3>1. /\ pc' = [pc EXCEPT ![t] = "assigned"]
          /\ UNCHANGED <<subscribers, msgs, writing, received, published, joined>>
      BY <2>4 DEF Assign
    <3> QED  BY <1>5, <3>1 DEF Same, Kept
  <2>5. CASE AddConnection(t)
    BY <1>5, <2>5 DEF AddConnection, Same, Kept
  <2>6. CASE TakeMessage(t)
    BY <1>5, <2>6 DEF TakeMessage, Same, Kept
  <2>7. CASE WriteMessage(t)
    BY <1>5, <2>7 DEF WriteMessage, Same, Kept
  <2> QED
    BY <1>5, <2>1, <2>2, <2>3, <2>4, <2>5, <2>6, <2>7
    DEF Serve, AcceptFails, StopServing
<1>6. s \in subscribers <=> pc[s] \notin {"new", "returned"}
  BY DEF PlaceInv
<1>7. CASE AddSubscriber(s)
  BY <1>7 DEF AddSubscriber, TypeOK, Joins, Kept, Moves
<1>8. ASSUME Return(s), pc[s] # "new"  PROVE  Leaves(s)
  BY <1>8 DEF Return, TypeOK, Leaves, Kept
<1>9. CASE AcceptFails(s) \/ StopServing(s) \/ (Assign(s) /\ Return(s))
  <2>1. Return(s) /\ pc[s] # "new"
    BY <1>9 DEF AcceptFails, StopServing, Assign
  <2> QED  BY <1>8, <2>1 DEF Moves
<1>10. CASE Accept(s) \/ AddConnection(s) \/ (Assign(s) /\ ~Return(s))
  <2>1. /\ pc[s] \in {"subscribed", "accepted", "assigned"}
        /\ pc'[s] \in {"accepted", "assigned", "serving"}
        /\ subscribers' = subscribers /\ joined' = joined
        /\ published' = published /\ writing' = writing /\ msgs' = msgs
        /\ received' = received
    BY <1>10 DEF Accept, AddConnection, Assign, TypeOK
  <2> QED  BY <1>6, <2>1 DEF Moves, Serves, Kept
<1>11. CASE TakeMessage(s)
  <2>1. pc[s] = "serving" /\ pc'[s] = "writing"
    BY <1>11 DEF TakeMessage, TypeOK
  <2> QED  BY <1>6, <1>11, <2>1 DEF TakeMessage, TypeOK, Moves, Serves
<1>12. CASE WriteMessage(s)
  <2>1. pc[s] = "writing" /\ pc'[s] = "serving"
    BY <1>12 DEF WriteMessage, TypeOK
  <2> QED  BY <1>6, <1>12, <2>1 DEF WriteMessage, TypeOK, Moves, Serves
<1>13. CASE \E t \in Subs : AddSubscriber(t) \/ Serve(t)
  <2>1. PICK t \in Subs : AddSubscriber(t) \/ Serve(t)
    BY <1>13
  <2>2. CASE s # t
    BY <1>5, <2>1, <2>2 DEF Moves
  <2>3. CASE s = t
    BY <1>7, <1>9, <1>10, <1>11, <1>12, <2>1, <2>3 DEF Serve
  <2> QED  BY <2>2, <2>3
<1> QED  BY <1>1, <1>2, <1>3, <1>4, <1>13 DEF Next

LEMMA PlaceStep ==
  ASSUME TypeOK, PlaceInv, [Next]_vars
  PROVE  PlaceInv'
<1> SUFFICES ASSUME NEW s \in Subs
             PROVE  /\ s \in subscribers' <=> pc'[s] \notin {"new", "returned"}
                    /\ pc'[s] = "new" => /\ msgs'[s] = <<>>
                                         /\ writing'[s] = <<>>
                                         /\ received'[s] = <<>>
                    /\ pc'[s] # "writing" => writing'[s] = <<>>
  BY DEF PlaceInv
<1>1. Moves(s)
  BY Move
<1>2. /\ s \in subscribers <=> pc[s] \notin {"new", "returned"}
      /\ pc[s] = "new" =>
           msgs[s] = <<>> /\ writing[s] = <<>> /\ received[s] = <<>>
      /\ pc[s] # "writing" => writing[s] = <<>>
  BY DEF PlaceInv
<1>3. CASE Same(s) /\ PublishInChannel
  <2>1. pc[s] = "new" => msgs'[s] = msgs[s] /\ received'[s] = received[s]
    BY <1>2, <1>3 DEF PublishInChannel
  <2> QED  BY <1>2, <1>3, <2>1, Zenon DEF Same
<1>4. CASE Same(s) /\ Kept(s)
  BY <1>2, <1>4, Zenon DEF Same, Kept
<1>5. CASE Joins(s)
  BY <1>2, <1>5, ZenonT(30) DEF Joins, Kept
<1>6. CASE Leaves(s)
  BY <1>2, <1>6 DEF Leaves, Kept
<1>7. CASE Serves(s) /\ writing'[s] = writing[s] /\ pc[s] # "writing"
  BY <1>2, <1>7, Zenon DEF Serves
<1>8. CASE Serves(s) /\ (pc'[s] = "writing" \/ writing'[s] = <<>>)
  BY <1>2, <1>8, Zenon DEF Serves
<1> QED  BY <1>1, <1>3, <1>4, <1>5, <1>6, <1>7, <1>8 DEF Moves

LEMMA TypeStep ==
  ASSUME TypeOK, PlaceInv, [Next]_vars
  PROVE  TypeOK'
<1>1. published' \in 0 .. MaxMessages /\ published \in Nat
      /\ published' \in {published, published + 1}
  BY Published, HubAssumption DEF TypeOK
<1> USE DEF AddSubscriber, CloseSlow, Disconnect, Accept, AcceptFails, Assign,
            AddConnection, StopServing, TakeMessage, WriteMessage, Return,
            Serve, Shutdown, PublishInChannel, vars
<1>2. /\ msgs' = [s \in Subs |-> msgs'[s]]
      /\ writing' = [s \in Subs |-> writing'[s]]
      /\ received' = [s \in Subs |-> received'[s]]
  BY DEF Next, TypeOK
<1>3. pc' = [s \in Subs |-> pc'[s]]
  BY DEF Next, TypeOK
<1>4. conn' \in [Subs -> {"none", "open", "closed"}]
  BY ZenonT(40) DEF Next, TypeOK
<1>5. joined' = [s \in Subs |-> joined'[s]]
  BY DEF Next, TypeOK
<1>6. closing' \in [Subs -> BOOLEAN] /\ closed' \in [Subs -> BOOLEAN]
  BY DEF Next, TypeOK
<1>7. subscribers' \subseteq Subs
  BY DEF Next, TypeOK
<1>8. connections' \subseteq subscribers'
  BY DEF Next, TypeOK, PlaceInv
<1>9. \A s \in Subs : /\ pc'[s] \in {"new", "subscribed", "accepted", "assigned",
                                    "serving", "writing", "returned"}
  BY DEF Next, TypeOK
<1> HIDE DEF AddSubscriber, CloseSlow, Disconnect, Accept, AcceptFails,
             Assign, AddConnection, StopServing, TakeMessage, WriteMessage,
             Return, Serve, Shutdown, PublishInChannel, vars
<1>10. ASSUME NEW s \in Subs  PROVE  joined'[s] \in 0 .. published'
  <2>1. Moves(s) /\ joined[s] \in 0 .. published
    BY Move DEF TypeOK
  <2>2. joined'[s] = joined[s] \/ joined'[s] = published
    BY <2>1 DEF Moves, Same, Joins, Leaves, Serves
  <2> QED  BY <1>1, <2>1, <2>2
<1>11. \A s \in Subs : /\ msgs'[s] \in Seq(1 .. published')
                       /\ writing'[s] \in Seq(1 .. published')
                       /\ received'[s] \in Seq(1 .. published')
                       /\ Len(msgs'[s]) <= Capacity /\ Len(writing'[s]) <= 1
  BY SequencesStep
<1>12. /\ msgs' \in [Subs -> Seq(1 .. published')]
       /\ writing' \in [Subs -> Seq(1 .. published')]
       /\ received' \in [Subs -> Seq(1 .. published')]
  BY <1>2, <1>11
<1>13. joined' \in [Subs -> 0 .. published']
  BY <1>5, <1>10
<1> QED
  BY <1>1, <1>3, <1>4, <1>6, <1>7, <1>8, <1>9, <1>11, <1>12, <1>13 DEF TypeOK

\* The stream of a subscription over a step: it stays, or gets the message
\* that is published, or loses the one its handler held when it returned.
LEMMA StreamStep ==
  ASSUME TypeOK, PlaceInv, [Next]_vars, NEW s \in Subs
  PROVE  \/ Stream(s)' = Stream(s) /\ joined'[s] = joined[s]
         \/ Stream(s)' = <<>> /\ joined'[s] = published /\ published' = published
         \/ /\ PublishInChannel /\ published' = published + 1
            /\ s \in subscribers /\ s \in subscribers' /\ ~Full(s)
            /\ Stream(s)' = Append(Stream(s), published + 1)
            /\ joined'[s] = joined[s]
         \/ /\ Stream(s)' = (received[s] \o <<>>) \o msgs[s]
            /\ s \notin subscribers'
            /\ joined'[s] = joined[s]
<1> DEFINE r == received[s]
           w == writing[s]
           m == msgs[s]
<1>1. /\ r \in Seq(Nat) /\ w \in Seq(Nat) /\ m \in Seq(Nat)
      /\ published \in Nat
  BY Streams
<1>2. Stream(s) = (r \o w) \o m
      /\ Stream(s)' = (received'[s] \o writing'[s]) \o msgs'[s]
  BY DEF Stream
<1>3. Moves(s)
  BY Move
<1>4. pc[s] # "writing" => w = <<>>
  BY DEF PlaceInv
<1>5. CASE Same(s) /\ Kept(s)
  BY <1>2, <1>5, Zenon DEF Same, Kept
<1>6. CASE Same(s) /\ PublishInChannel
  <2>1. /\ published' = published + 1 /\ received'[s] = r /\ writing'[s] = w
        /\ joined'[s] = joined[s] /\ (s \in subscribers' <=> s \in subscribers)
        /\ msgs'[s] = IF s \in subscribers /\ ~Full(s)
                      THEN Append(m, published + 1) ELSE m
    BY <1>6 DEF PublishInChannel, Same
  <2>2. (r \o w) \o Append(m, published + 1)
          = Append((r \o w) \o m, published + 1)
    <3>1. published + 1 \in Nat
      BY <1>1
    <3> QED  BY <1>1, <3>1, StreamAppend, ZenonT(60)
  <2>3. CASE s \in subscribers /\ ~Full(s)
    <3>1. Stream(s)' = Append(Stream(s), published + 1)
      BY <1>2, <2>1, <2>2, <2>3, Zenon
    <3> QED  BY <1>6, <2>1, <2>3, <3>1, Zenon
  <2>4. CASE ~(s \in subscribers /\ ~Full(s))
    <3>1. Stream(s)' = Stream(s)
      BY <1>2, <2>1, <2>4, Zenon
    <3> QED  BY <2>1, <3>1, Zenon
  <2> QED  BY <2>3, <2>4
<1>7. CASE Joins(s)
  <2>1. m = <<>> /\ w = <<>> /\ r = <<>>
    BY <1>7 DEF Joins, PlaceInv
  <2>2. (<<>> \o <<>>) \o <<>> = <<>>
    BY ConcatEmptySeq, EmptySeq
  <2>3. Stream(s)' = <<>>
    BY <1>2, <1>7, <2>1, <2>2, Zenon DEF Joins, Kept
  <2> QED  BY <1>7, <2>3, Zenon DEF Joins
<1>8. CASE Leaves(s)
  BY <1>2, <1>8, Zenon DEF Leaves, Kept
<1>9. CASE Serves(s) /\ writing'[s] = writing[s] /\ Kept(s)
  BY <1>2, <1>9, Zenon DEF Serves, Kept
<1>10. CASE /\ Serves(s) /\ pc[s] # "writing" /\ m # <<>>
            /\ writing'[s] = <<Head(m)>> /\ msgs'[s] = Tail(m)
            /\ received'[s] = r
  <2>1. (r \o <<Head(m)>>) \o Tail(m) = (r \o <<>>) \o m
    BY <1>1, <1>10, StreamTake
  <2>2. Stream(s)' = Stream(s)
    BY <1>2, <1>4, <1>10, <2>1, Zenon
  <2> QED  BY <1>10, <2>2, Zenon DEF Serves
<1>11. CASE /\ Serves(s) /\ writing'[s] = <<>> /\ received'[s] = r \o w
            /\ msgs'[s] = m
  <2>1. (r \o w) \o <<>> = r \o w
    <3>1. r \o w \in Seq(Nat)
      BY <1>1, ConcatProperties
    <3> QED  BY <3>1, ConcatEmptySeq
  <2>2. Stream(s)' = Stream(s)
    BY <1>2, <1>11, <2>1, Zenon
  <2> QED  BY <1>11, <2>2, Zenon DEF Serves
<1> QED
  BY <1>3, <1>5, <1>6, <1>7, <1>8, <1>9, <1>10, <1>11, Zenon DEF Moves

LEMMA OrderStep ==
  ASSUME HubInv, [Next]_vars
  PROVE  OrderInv'
<1> USE DEF HubInv
<1> SUFFICES ASSUME NEW s \in Subs  PROVE  Rising(Stream(s)', joined'[s])
  BY DEF OrderInv
<1>1. /\ published \in Nat /\ joined[s] \in Nat /\ joined[s] <= published
      /\ Stream(s) \in Seq(Nat) /\ received[s] \in Seq(Nat)
      /\ writing[s] \in Seq(Nat) /\ msgs[s] \in Seq(Nat)
      /\ \A i \in 1 .. Len(Stream(s)) : Stream(s)[i] <= published
  BY Streams
<1>2. Rising(Stream(s), joined[s])
  BY DEF OrderInv
<1>3. Rising(<<>>, published)
  BY EmptySeq DEF Rising
<1>4. Rising(Append(Stream(s), published + 1), joined[s])
  <2>1. \A i \in 1 .. Len(Stream(s)) : Stream(s)[i] < published + 1
    <3>1. \A i \in 1 .. Len(Stream(s)) : Stream(s)[i] \in Nat
      BY <1>1, ElementOfSeq
    <3> QED  BY <1>1, <3>1
  <2>2. published + 1 > joined[s] /\ published + 1 \in Nat
    BY <1>1
  <2> QED  BY <1>1, <1>2, <2>1, <2>2, RisingAppend
<1>5. Rising((received[s] \o <<>>) \o msgs[s], joined[s])
  BY <1>1, <1>2, RisingDrop DEF Stream
<1> QED  BY StreamStep, <1>2, <1>3, <1>4, <1>5, Zenon

LEMMA CompleteStep ==
  ASSUME HubInv, [Next]_vars
  PROVE  CompleteUnlessSlow'
<1> USE DEF HubInv
<1> SUFFICES ASSUME NEW s \in subscribers', ~closing'[s], ~closed'[s]
             PROVE  Stream(s)' = [i \in 1 .. published' - joined'[s] |->
                                    joined'[s] + i]
  BY DEF CompleteUnlessSlow
<1>1. s \in Subs
  BY TypeStep DEF TypeOK
<1> HIDE DEF HubInv
<1>2. TypeOK /\ PlaceInv /\ CompleteUnlessSlow
  BY DEF HubInv
<1>3. /\ published \in Nat /\ joined[s] \in Nat /\ joined[s] <= published
      /\ Stream(s) \in Seq(Nat)
  BY <1>1, <1>2, Streams
<1>4. Moves(s)
  BY <1>1, <1>2, Move
<1>5. CASE Joins(s)
  <2>1. Stream(s)' = <<>>
    <3>1. pc[s] = "new" /\ Kept(s) /\ writing'[s] = writing[s]
      BY <1>5 DEF Joins
    <3>2. msgs[s] = <<>> /\ writing[s] = <<>> /\ received[s] = <<>>
      BY <1>1, <1>2, <3>1 DEF PlaceInv
    <3>3. (<<>> \o <<>>) \o <<>> = <<>>
      BY ConcatEmptySeq, EmptySeq
    <3> QED  BY <3>1, <3>2, <3>3, Zenon DEF Stream, Kept
  <2>2. published' = published /\ joined'[s] = published
    BY <1>5 DEF Joins
  <2>3. [i \in 1 .. published - published |-> published + i] = <<>>
    BY <1>3
  <2> QED  BY <2>1, <2>2, <2>3, Zenon
<1>6. CASE ~Joins(s)
  <2>1. s \in subscribers /\ joined'[s] = joined[s]
    BY <1>4, <1>6 DEF Moves, Same, Leaves, Serves
  <2>2. ~closing[s] /\ ~closed[s]
    <3>1. CASE PublishInChannel
      BY <1>1, <3>1 DEF PublishInChannel
    <3>2. ASSUME NEW t \in Subs, CloseSlow(t)  PROVE  ~closing[s] /\ ~closed[s]
      <4>1. s # t
        BY <1>1, <1>2, <3>2 DEF CloseSlow, TypeOK
      <4> QED  BY <1>1, <3>2, <4>1 DEF CloseSlow
    <3>3. CASE /\ ~PublishInChannel
               /\ ~\E t \in Subs : CloseSlow(t)
      <4>1. closing' = closing /\ closed' = closed
        BY <3>3 DEF Next, vars, AddSubscriber, Disconnect, Accept, AcceptFails,
           Assign, AddConnection, StopServing, TakeMessage, WriteMessage,
           Return, Serve, Shutdown
      <4> QED  BY <4>1
    <3> QED  BY <3>1, <3>2, <3>3
  <2>3. Stream(s) = [i \in 1 .. published - joined[s] |-> joined[s] + i]
    BY <1>2, <2>1, <2>2 DEF CompleteUnlessSlow
  <2>4. CASE PublishInChannel
    <3>1. /\ published' = published + 1 /\ ~Full(s)
          /\ msgs'[s] = Append(msgs[s], published + 1)
          /\ writing' = writing /\ received' = received
      BY <1>1, <2>1, <2>4 DEF PublishInChannel
    <3>2. (received[s] \o writing[s]) \o Append(msgs[s], published + 1)
            = Append(Stream(s), published + 1)
      <4>1. /\ received[s] \in Seq(Nat) /\ writing[s] \in Seq(Nat)
            /\ msgs[s] \in Seq(Nat) /\ published + 1 \in Nat
        BY <1>1, <1>2, <1>3, Streams
      <4> QED  BY <4>1, StreamAppend DEF Stream
    <3>3. Stream(s)' = Append(Stream(s), published + 1)
      BY <3>1, <3>2, Zenon DEF Stream
    <3> DEFINE k == published - joined[s]
    <3>4. /\ k \in Nat /\ joined[s] + k + 1 = published + 1
          /\ published' - joined'[s] = k + 1
      <4>1. published' - joined'[s] = (published + 1) - joined[s]
        BY <2>1, <3>1, Zenon
      <4>2. /\ published - joined[s] \in Nat
            /\ joined[s] + (published - joined[s]) + 1 = published + 1
            /\ (published + 1) - joined[s] = (published - joined[s]) + 1
        BY <1>3
      <4> QED  BY <4>1, <4>2
    <3>5. Stream(s) = [i \in 1 .. k |-> joined[s] + i]
      BY <2>3
    <3> HIDE DEF k
    <3>6. Append(Stream(s), joined[s] + k + 1)
            = [i \in 1 .. k + 1 |-> joined[s] + i]
      BY <1>3, <3>4, <3>5, AllAppend
    <3> QED  BY <2>1, <3>3, <3>4, <3>6, Zenon
  <2>5. CASE ~PublishInChannel
    <3>1. published' = published
      BY <1>4, <2>5 DEF Moves, Joins, Leaves, Serves
    <3>2. \/ Stream(s)' = Stream(s)
          \/ Stream(s)' = <<>> /\ joined'[s] = published
      BY <1>1, <1>2, <2>5, StreamStep
    <3>3. [i \in 1 .. published - published |-> published + i] = <<>>
      BY <1>3
    <3>4. CASE Stream(s)' = Stream(s)
      BY <2>1, <2>3, <3>1, <3>4, Zenon
    <3>5. CASE Stream(s)' = <<>> /\ joined'[s] = published
      BY <3>1, <3>3, <3>5, Zenon
    <3> QED  BY <3>2, <3>4, <3>5
  <2> QED  BY <2>4, <2>5
<1> QED  BY <1>5, <1>6

-----------------------------------------------------------------------------
LEMMA RisingInOrder ==
  ASSUME OrderInv, TypeOK
  PROVE  InOrder
<1> SUFFICES ASSUME NEW s \in Subs
             PROVE  /\ \A i \in 1 .. Len(Stream(s)) : Stream(s)[i] > joined[s]
                    /\ \A i \in 2 .. Len(Stream(s)) :
                         Stream(s)[i - 1] < Stream(s)[i]
  BY DEF InOrder
<1>1. Rising(Stream(s), joined[s]) /\ Len(Stream(s)) \in Nat
  BY Streams, LenProperties DEF OrderInv
<1>2. ASSUME NEW i \in 2 .. Len(Stream(s))
      PROVE  Stream(s)[i - 1] < Stream(s)[i]
  <2>1. i - 1 \in 1 .. Len(Stream(s)) /\ i \in 1 .. Len(Stream(s)) /\ i - 1 < i
    BY <1>1
  <2> QED  BY <1>1, <2>1 DEF Rising
<1> QED  BY <1>1, <1>2 DEF Rising

\* The variables keep their types, handler and hub agree on who is subscribed,
\* and each stream rises from the number at which its subscription began; one
\* that is not being closed as slow has every number since then.
THEOREM HubInvariant == Spec => []HubInv
<1>1. Init => HubInv
  BY HubInit
<1>2. HubInv /\ [Next]_vars => HubInv'
  BY TypeStep, PlaceStep, OrderStep, CompleteStep DEF HubInv
<1> QED  BY <1>1, <1>2, PTL DEF Spec

\* However publishers, handlers and closeSlow interleave: a subscription that
\* was not slow gets every message published since it was registered, and no
\* client gets a message twice, late or from before it subscribed.
THEOREM Delivered == Spec => []DeliveredRight
<1>1. HubInv => DeliveredRight
  BY RisingInOrder DEF HubInv, DeliveredRight
<1> QED  BY HubInvariant, <1>1, PTL

-----------------------------------------------------------------------------
(***************************************************************************)
(* For any number of users, logins and requests: a logout ends the         *)
(* sessions of all cookies it was sent with, a dead cookie hides no valid  *)
(* one, and a browser loses a valid one only to a login, to a logout or to *)
(* a refusal from before it.                                               *)
(*                                                                         *)
(* The inductive invariant says of a request that the tokens it has        *)
(* stepped over are dead, and of an answer that clears cookies that none   *)
(* of the tokens sent is alive any more.  It holds on because a login only *)
(* adds a token that nobody has been given yet.  A second one, for the     *)
(* redirects, is stated with them at the end.                              *)
(***************************************************************************)
Kinds   == {"none", "api", "exempt", "optional", "page", "login", "logout"}
Results == Paths \cup {"", "in", "out", "refused", "invalid", "anonymous", "page",
                       "served", "unverified"}

RequestType ==
  [kind : Kinds, at : {"idle", "sent", "answered"}, sent : Seq(Nat),
   path : Paths \cup {""}, scope : Scopes, next : Nat \ {0}, token : Nat, hops : Nat,
   result : Results]

Asks(kind, path) ==
  \/ kind \in {"api", "exempt", "optional", "logout"}
  \/ kind = "page" /\ path \in Paths

\* Of a request, when n tokens have been given out and those of live are alive.
Good(q, n, live) ==
  /\ q.at = "sent" => Asks(q.kind, q.path)
  /\ Range(q.sent) \subseteq 1 .. n
  /\ \A i \in DOMAIN q.sent : i < q.next => q.sent[i] \notin live
  /\ q.result \in {"invalid", "out"} => Range(q.sent) \cap live = {}
  /\ q.result = "in" => q.token \in 1 .. n

SessionsInv ==
  /\ owner \in Seq(Users)
  /\ alive \subseteq 1 .. Len(owner)
  /\ loggedOut \subseteq 1 .. Len(owner)
  /\ loggedOut \cap alive = {}
  /\ jar \in [Scopes -> 0 .. Len(owner)]
  /\ request \in [Requests -> RequestType]
  /\ \A r \in Requests : Good(request[r], Len(owner), alive)

(***************************************************************************)
(* Requests and answers.                                                   *)
(***************************************************************************)
\* No place of a sequence comes before the first.
LEMMA BeforeFirst ==
  ASSUME NEW tokens \in Seq(Nat)
  PROVE  \A i \in DOMAIN tokens : ~(i < 1)
<1>1. DOMAIN tokens = 1 .. Len(tokens) /\ Len(tokens) \in Nat
  OBVIOUS
<1> QED BY <1>1

\* A request that is not under way is in order.
LEMMA IdleGood ==
  ASSUME NEW n \in Nat, NEW live
  PROVE  Idle \in RequestType /\ Good(Idle, n, live)
<1>1. Idle.sent = <<>> /\ Range(Idle.sent) = {} /\ DOMAIN Idle.sent = {}
  BY DEF Idle, Range
<1>2. Idle \in RequestType
  BY DEF Idle, RequestType, Kinds, Paths, Scopes, NoToken, Results
<1> QED BY <1>1, <1>2 DEF Idle, Good

\* More tokens are given out, and of the earlier ones none comes back to life.
LEMMA GoodLater ==
  ASSUME NEW q \in RequestType, NEW n \in Nat, NEW m \in Nat, n <= m, NEW live, NEW later,
         Good(q, n, live), later \cap (1 .. n) \subseteq live
  PROVE  Good(q, m, later)
<1>1. \A i \in DOMAIN q.sent : q.sent[i] \in 1 .. n
  BY DEF Good, Range
<1> QED BY <1>1 DEF Good, Range

\* Counting redirects changes nothing else.
LEMMA HopsGood ==
  ASSUME NEW q \in RequestType, NEW hops \in Nat, NEW n \in Nat, NEW live, Good(q, n, live)
  PROVE  /\ [q EXCEPT !.hops = hops] \in RequestType
         /\ Good([q EXCEPT !.hops = hops], n, live)
         /\ [q EXCEPT !.hops = hops].at = q.at
<1> DEFINE p == [q EXCEPT !.hops = hops]
<1>1. /\ p \in RequestType /\ p.at = q.at /\ p.kind = q.kind /\ p.path = q.path
      /\ p.sent = q.sent /\ p.next = q.next /\ p.result = q.result /\ p.token = q.token
  BY DEF RequestType
<1>2. Good(p, n, live)
  BY <1>1 DEF Good
<1> QED BY <1>1, <1>2

\* Nor does counting them anew, for all requests.
LEMMA MovedGood ==
  ASSUME NEW all \in [Requests -> RequestType], NEW n \in Nat, NEW live,
         \A x \in Requests : Good(all[x], n, live)
  PROVE  /\ Moved(all) \in [Requests -> RequestType]
         /\ \A x \in Requests : Good(Moved(all)[x], n, live) /\ Moved(all)[x].at = all[x].at
<1>1. \A x \in Requests : Moved(all)[x] = [all[x] EXCEPT !.hops = 0]
  BY DEF Moved
<1>2. ASSUME NEW x \in Requests
      PROVE  /\ Moved(all)[x] \in RequestType
             /\ Good(Moved(all)[x], n, live) /\ Moved(all)[x].at = all[x].at
  <2>1. all[x] \in RequestType /\ Good(all[x], n, live) /\ 0 \in Nat
    OBVIOUS
  <2>2. /\ [all[x] EXCEPT !.hops = 0] \in RequestType
        /\ Good([all[x] EXCEPT !.hops = 0], n, live)
        /\ [all[x] EXCEPT !.hops = 0].at = all[x].at
    BY <2>1, HopsGood
  <2>3. Moved(all)[x] = [all[x] EXCEPT !.hops = 0]
    BY <1>1
  <2> QED BY ONLY <2>2, <2>3
<1>3. Moved(all) = [x \in Requests |-> Moved(all)[x]]
  BY DEF Moved
<1> QED BY <1>2, <1>3

\* A new request is in order if its tokens have been given out.
LEMMA SentGood ==
  ASSUME NEW kind \in Kinds, NEW path \in Paths \cup {""}, Asks(kind, path),
         NEW tokens \in Seq(Nat), NEW n \in Nat, NEW live, Range(tokens) \subseteq 1 .. n
  PROVE  /\ Sent(kind, path, tokens) \in RequestType
         /\ Good(Sent(kind, path, tokens), n, live)
         /\ Sent(kind, path, tokens).at = "sent"
<1> DEFINE q == Sent(kind, path, tokens)
<1>1. q \in RequestType
  <2>1. Idle \in RequestType
    BY IdleGood
  <2> QED BY <2>1 DEF Sent, RequestType
<1>2. /\ q.at = "sent" /\ q.kind = kind /\ q.path = path
      /\ q.sent = tokens /\ q.next = 1 /\ q.result = ""
  BY DEF Sent, Idle
<1>3. \A i \in DOMAIN tokens : ~(i < 1)
  BY BeforeFirst
<1>4. Good(q, n, live)
  BY <1>2, <1>3 DEF Good
<1> QED BY <1>1, <1>2, <1>4

\* An answer that clears cookies comes when all the tokens sent are dead.
LEMMA AnsweredGood ==
  ASSUME NEW q \in RequestType, NEW result \in Results, NEW n \in Nat, NEW live,
         Good(q, n, live), result # "in",
         result \in {"invalid", "out"} => Range(q.sent) \cap live = {}
  PROVE  Answered(q, result) \in RequestType /\ Good(Answered(q, result), n, live)
<1> DEFINE p == Answered(q, result)
<1>0. Idle \in RequestType
  BY IdleGood
<1>1. CASE result \in Paths
  <2>1. p \in RequestType
    BY <1>0, <1>1 DEF Answered, RequestType
  <2>2. p.at = "answered" /\ p.sent = <<>> /\ p.result = result
    BY <1>1 DEF Answered, Idle
  <2>3. Range(p.sent) = {} /\ DOMAIN p.sent = {} /\ result \notin {"invalid", "out"}
    BY <1>1, <2>2 DEF Range, Paths
  <2>4. Good(p, n, live)
    BY <2>2, <2>3 DEF Good
  <2> QED BY <2>1, <2>4
<1>2. CASE result \notin Paths /\ Cleared(result) # {}
  <2>1. p \in RequestType
    BY <1>0, <1>2 DEF Answered, RequestType
  <2>2. p.at = "answered" /\ p.sent = q.sent /\ p.next = 1 /\ p.result = result
    BY <1>2 DEF Answered, Idle
  <2>3. \A i \in DOMAIN p.sent : ~(i < 1)
    BY <2>2, BeforeFirst DEF RequestType
  <2>4. Good(p, n, live)
    BY <2>2, <2>3 DEF Good
  <2> QED BY <2>1, <2>4
<1>3. CASE result \notin Paths /\ Cleared(result) = {}
  BY <1>3, IdleGood DEF Answered
<1> QED BY <1>1, <1>2, <1>3

\* A browser sends tokens it was given.
LEMMA TokensType ==
  ASSUME SessionsInv, NEW tokens \in Tokens
  PROVE  tokens \in Seq(Nat) /\ Range(tokens) \subseteq 1 .. Len(owner)
<1>1. PICK o \in Orders : /\ Range(o) = {s \in Scopes : jar[s] # NoToken}
                          /\ tokens = [i \in DOMAIN o |-> jar[o[i]]]
  BY DEF Tokens
<1>2. PICK n \in 0 .. 3 : o \in [1 .. n -> Scopes]
  BY <1>1 DEF Orders
<1>3. \A i \in 1 .. n : jar[o[i]] \in 1 .. Len(owner)
  BY <1>1, <1>2 DEF SessionsInv, Range, NoToken
<1> QED BY <1>1, <1>2, <1>3 DEF Range
(***************************************************************************)
(* The invariant.                                                          *)
(***************************************************************************)
\* The number of logins.
LEMMA LenType == SessionsInv => Len(owner) \in Nat
BY DEF SessionsInv

\* The tokens of a request form a sequence.
LEMMA RequestFields ==
  ASSUME NEW q \in RequestType
  PROVE  /\ DOMAIN q.sent = 1 .. Len(q.sent) /\ Len(q.sent) \in Nat
         /\ q.next \in Nat /\ q.hops + 1 \in Nat
<1>1. q.sent \in Seq(Nat) /\ q.next \in Nat /\ q.hops \in Nat
  BY DEF RequestType
<1> QED BY <1>1

\* At the start nobody is logged in.
LEMMA InvInitially == SessionsInit => SessionsInv
<1> SUFFICES ASSUME SessionsInit PROVE SessionsInv
  OBVIOUS
<1>1. owner \in Seq(Users) /\ Len(owner) = 0 /\ alive = {} /\ loggedOut = {}
  BY DEF SessionsInit
<1>2. jar \in [Scopes -> 0 .. Len(owner)]
  BY <1>1 DEF SessionsInit, NoToken
<1>3. \A r \in Requests : Idle \in RequestType /\ Good(Idle, Len(owner), alive)
  BY <1>1, IdleGood
<1> QED BY <1>1, <1>2, <1>3 DEF SessionsInit, SessionsInv

\* One request is replaced by a good one, and no token is given out or revived.
LEMMA InvReplaced ==
  ASSUME SessionsInv, NEW r \in Requests, NEW p \in RequestType,
         UNCHANGED owner, alive' \subseteq alive, Good(p, Len(owner), alive'),
         request' = [request EXCEPT ![r] = p] \/ request' = Moved([request EXCEPT ![r] = p])
  PROVE  /\ request' \in [Requests -> RequestType]
         /\ \A x \in Requests : Good(request'[x], Len(owner'), alive')
<1> DEFINE rest == [request EXCEPT ![r] = p]
<1> DEFINE n == Len(owner)
<1>1. n \in Nat /\ Len(owner') = n
  BY DEF SessionsInv
<1>2. rest \in [Requests -> RequestType]
  BY DEF SessionsInv
<1>3. \A x \in Requests : Good(rest[x], n, alive')
  <2>1. alive' \cap (1 .. n) \subseteq alive
    OBVIOUS
  <2>2. ASSUME NEW x \in Requests PROVE Good(request[x], n, alive')
    <3>1. request[x] \in RequestType /\ Good(request[x], n, alive)
      BY DEF SessionsInv
    <3> HIDE DEF n
    <3> QED BY <1>1, <2>1, <3>1, GoodLater
  <2> QED BY <2>2 DEF SessionsInv
<1>4. /\ Moved(rest) \in [Requests -> RequestType]
      /\ \A x \in Requests : Good(Moved(rest)[x], n, alive')
  <2> HIDE DEF rest, n
  <2> QED BY <1>1, <1>2, <1>3, MovedGood
<1>5. request' = rest \/ request' = Moved(rest)
  OBVIOUS
<1>6. /\ request' \in [Requests -> RequestType]
      /\ \A x \in Requests : Good(request'[x], n, alive')
  <2> HIDE DEF n, rest
  <2>1. CASE request' = rest
    BY <1>2, <1>3, <2>1
  <2>2. CASE request' = Moved(rest)
    BY <1>4, <2>2
  <2> QED BY <1>5, <2>1, <2>2
<1> QED BY <1>1, <1>6

\* A request is sent with cookies of the browser.
LEMMA InvSendRequest ==
  ASSUME SessionsInv, NEW r \in Requests, SendRequest(r)
  PROVE  SessionsInv'
<1>1. PICK tokens \in Tokens :
        \/ \E kind \in {"api", "exempt", "optional", "logout"} :
             request' = [request EXCEPT ![r] = Sent(kind, "", tokens)]
        \/ \E path \in Paths : request' = [request EXCEPT ![r] = Sent("page", path, tokens)]
  BY DEF SendRequest
<1>2. PICK kind \in Kinds, path \in Paths \cup {""} :
        Asks(kind, path) /\ request' = [request EXCEPT ![r] = Sent(kind, path, tokens)]
  BY <1>1 DEF Kinds, Asks
<1>3. tokens \in Seq(Nat) /\ Range(tokens) \subseteq 1 .. Len(owner)
  BY TokensType
<1>4. /\ Sent(kind, path, tokens) \in RequestType
      /\ Good(Sent(kind, path, tokens), Len(owner), alive)
  <2>1. Len(owner) \in Nat
    BY LenType
  <2> QED BY <1>2, <1>3, <2>1, SentGood
<1>5. UNCHANGED <<owner, alive, jar, loggedOut>>
  BY DEF SendRequest
<1>6. /\ request' \in [Requests -> RequestType]
      /\ \A x \in Requests : Good(request'[x], Len(owner'), alive')
  BY <1>2, <1>4, <1>5, InvReplaced
<1> QED BY <1>5, <1>6 DEF SessionsInv

\* The token of a login is one that nobody has been given.
LEMMA InvLogin ==
  ASSUME SessionsInv, NEW r \in Requests, NEW u \in Users, NEW s \in Scopes, Login(r, u, s)
  PROVE  SessionsInv'
<1> DEFINE n == Len(owner)
<1> DEFINE p == [Idle EXCEPT !.kind = "login", !.at = "answered", !.scope = s,
                             !.token = n + 1, !.result = "in"]
<1>1. /\ n \in Nat /\ owner' \in Seq(Users) /\ Len(owner') = n + 1
      /\ alive' = alive \cup {n + 1} /\ UNCHANGED <<jar, loggedOut>>
      /\ request' = [request EXCEPT ![r] = p] \/ UNCHANGED request
  BY DEF Login, SessionsInv
<1>2. p \in RequestType /\ Good(p, n + 1, alive')
  <2>1. Idle \in RequestType
    BY IdleGood, <1>1
  <2>2. p \in RequestType
    <3>1. n + 1 \in Nat /\ "login" \in Kinds /\ "in" \in Results
      BY <1>1 DEF Kinds, Results
    <3> HIDE DEF n
    <3> QED BY <2>1, <3>1 DEF RequestType
  <2>3. p.at = "answered" /\ p.sent = <<>> /\ p.token = n + 1 /\ p.result = "in"
    BY DEF Idle
  <2>4. Range(p.sent) = {} /\ DOMAIN p.sent = {}
    BY <2>3 DEF Range
  <2>5. Good(p, n + 1, alive')
    <3> HIDE DEF p, n
    <3> QED BY <1>1, <2>3, <2>4 DEF Good
  <2> QED BY <2>2, <2>5
<1>3. \A x \in Requests : Good(request[x], n + 1, alive')
  <2> SUFFICES ASSUME NEW x \in Requests PROVE Good(request[x], n + 1, alive')
    OBVIOUS
  <2>1. request[x] \in RequestType /\ Good(request[x], n, alive)
    BY DEF SessionsInv
  <2>2. n + 1 \in Nat /\ n <= n + 1 /\ alive' \cap (1 .. n) \subseteq alive
    BY <1>1
  <2> HIDE DEF n
  <2> QED BY <1>1, <2>1, <2>2, GoodLater
<1>4. /\ request' \in [Requests -> RequestType]
      /\ \A x \in Requests : Good(request'[x], n + 1, alive')
  <2> HIDE DEF p, n
  <2> QED BY <1>1, <1>2, <1>3 DEF SessionsInv
<1>5. /\ alive' \subseteq 1 .. n + 1 /\ loggedOut' \subseteq 1 .. n + 1
      /\ loggedOut' \cap alive' = {}
  BY <1>1 DEF SessionsInv
<1>6. jar' \in [Scopes -> 0 .. n + 1]
  BY <1>1 DEF SessionsInv
<1> QED BY <1>1, <1>4, <1>5, <1>6 DEF SessionsInv

\* A logout ends the sessions of what it was sent with.
LEMMA InvLogout ==
  ASSUME SessionsInv, NEW r \in Requests, Logout(r)
  PROVE  SessionsInv'
<1> DEFINE q == request[r]
<1>1. q \in RequestType /\ Good(q, Len(owner), alive) /\ Len(owner) \in Nat
  BY DEF SessionsInv
<1>2. UNCHANGED <<owner, jar, loggedOut>> /\ alive' \subseteq alive
  BY DEF Logout
<1>3. PICK result \in {"refused", "out"} :
        /\ \/ request' = [request EXCEPT ![r] = Answered(q, result)]
           \/ request' = Moved([request EXCEPT ![r] = Answered(q, result)])
        /\ result = "out" => Range(q.sent) \cap alive' = {}
  <2>1. CASE q.sent = <<>>
    BY <2>1 DEF Logout, Answer
  <2>2. CASE q.sent # <<>>
    BY <2>2 DEF Logout
  <2> QED BY <2>1, <2>2
<1>4. Good(q, Len(owner), alive')
  <2>1. alive' \cap (1 .. Len(owner)) \subseteq alive
    BY <1>2
  <2> QED BY <1>1, <2>1, GoodLater
<1>5. Answered(q, result) \in RequestType /\ Good(Answered(q, result), Len(owner), alive')
  <2>1. result \in Results
    BY DEF Results
  <2> QED BY <1>1, <1>3, <1>4, <2>1, AnsweredGood
<1>6. /\ request' \in [Requests -> RequestType]
      /\ \A x \in Requests : Good(request'[x], Len(owner'), alive')
  BY <1>2, <1>3, <1>5, InvReplaced
<1> QED BY <1>2, <1>6 DEF SessionsInv

\* An expired session only leaves the ones alive.
LEMMA InvExpire ==
  ASSUME SessionsInv, NEW t \in alive, Expire(t)
  PROVE  SessionsInv'
<1>1. alive' \subseteq alive /\ UNCHANGED <<owner, jar, loggedOut>> /\ request' = Moved(request)
  BY DEF Expire
<1>2. Len(owner) \in Nat /\ request \in [Requests -> RequestType]
      /\ \A x \in Requests : Good(request[x], Len(owner), alive)
  BY DEF SessionsInv
<1>3. /\ request' \in [Requests -> RequestType]
      /\ \A x \in Requests : Good(request'[x], Len(owner), alive)
  BY <1>1, <1>2, MovedGood
<1>4. \A x \in Requests : Good(request'[x], Len(owner), alive')
  <2>1. alive' \cap (1 .. Len(owner)) \subseteq alive
    BY <1>1
  <2> QED BY <1>2, <1>3, <2>1, GoodLater
<1> QED BY <1>1, <1>3, <1>4 DEF SessionsInv

\* A request is refused for its cookies only when all of them have been found dead.
LEMMA InvResolve ==
  ASSUME SessionsInv, NEW r \in Requests, ResolveStep(r)
  PROVE  SessionsInv'
<1> DEFINE q == request[r]
<1>1. q \in RequestType /\ Good(q, Len(owner), alive)
  BY DEF SessionsInv
<1>2. Len(owner) \in Nat
  BY LenType
<1>3. UNCHANGED <<owner, alive, jar, loggedOut>>
  BY DEF ResolveStep
<1>4. q.at = "sent" /\ q.kind \notin {"login", "logout"}
  BY DEF ResolveStep, Resolve, Resolving
<1>5. \/ q.kind \in {"api", "exempt", "optional"}
      \/ q.kind = "page" /\ q.path \in Paths
  <2>1. Asks(q.kind, q.path)
    BY <1>1, <1>4 DEF Good
  <2> HIDE DEF q
  <2> QED BY <1>4, <2>1 DEF Asks
<1>a. DOMAIN q.sent = 1 .. Len(q.sent) /\ Len(q.sent) \in Nat /\ q.next \in Nat
  BY <1>1, RequestFields
<1>6. \/ /\ q.next > Len(q.sent)
         /\ request' = [request EXCEPT ![r] = Answered(q, Unresolved(q))]
      \/ \E user : request' = [request EXCEPT ![r] = Answered(q, Served(q, user))]
      \/ /\ q.next <= Len(q.sent) /\ q.sent[q.next] \notin alive
         /\ request' = [request EXCEPT ![r] = [q EXCEPT !.next = q.next + 1]]
  <2> SUFFICES ASSUME q.next <= Len(q.sent), q.sent[q.next] \in alive
               PROVE  \E user : request' = [request EXCEPT ![r] = Answered(q, Served(q, user))]
    BY <1>a DEF ResolveStep, Resolve, Answer
  <2>1. Answer(r, Served(q, owner[q.sent[q.next]]))
    BY <1>a DEF ResolveStep, Resolve
  <2> QED BY <2>1 DEF Answer
<1>7. CASE q.next > Len(q.sent) /\ request' = [request EXCEPT ![r] = Answered(q, Unresolved(q))]
  <2>1. Range(q.sent) \cap alive = {}
    BY <1>1, <1>a, <1>7 DEF Good, Range
  <2>2. Unresolved(q) \in Results /\ Unresolved(q) \notin {"in", "out"}
    <3>1. CASE q.kind \in {"api", "exempt"}
      BY <3>1 DEF Unresolved, RefusedByAPI, Results
    <3>2. CASE q.kind = "optional"
      BY <3>2 DEF Unresolved, Results
    <3>3. CASE q.kind = "page"
      BY <3>3 DEF Unresolved, PublicPage, Results, Paths
    <3> QED BY <1>5, <3>1, <3>2, <3>3
  <2>3. /\ Answered(q, Unresolved(q)) \in RequestType
        /\ Good(Answered(q, Unresolved(q)), Len(owner), alive)
    BY <1>1, <1>2, <2>1, <2>2, AnsweredGood
  <2> QED BY <1>3, <1>7, <2>3, InvReplaced DEF SessionsInv
<1>8. ASSUME NEW user, request' = [request EXCEPT ![r] = Answered(q, Served(q, user))]
      PROVE  SessionsInv'
  <2>1. Served(q, user) \in Results /\ Served(q, user) \notin {"in", "out", "invalid"}
    <3>1. CASE q.kind = "page"
      BY <1>5, <3>1 DEF Served, Page, Results, Paths
    <3>2. CASE q.kind # "page"
      BY <3>2 DEF Served, Results
    <3> QED BY <3>1, <3>2
  <2>2. /\ Answered(q, Served(q, user)) \in RequestType
        /\ Good(Answered(q, Served(q, user)), Len(owner), alive)
    BY <1>1, <1>2, <2>1, AnsweredGood
  <2> QED BY <1>3, <1>8, <2>2, InvReplaced DEF SessionsInv
<1>9. CASE /\ q.next <= Len(q.sent) /\ q.sent[q.next] \notin alive
           /\ request' = [request EXCEPT ![r] = [q EXCEPT !.next = q.next + 1]]
  <2> DEFINE p == [q EXCEPT !.next = q.next + 1]
  <2>1. /\ p \in RequestType /\ p.at = q.at /\ p.kind = q.kind /\ p.path = q.path
        /\ p.sent = q.sent /\ p.next = q.next + 1 /\ p.result = q.result /\ p.token = q.token
    <3> HIDE DEF q
    <3>1. q.next + 1 \in Nat \ {0}
      BY <1>a
    <3> QED BY <1>1, <3>1 DEF RequestType
  <2>2. \A i \in DOMAIN q.sent : i < q.next + 1 => i < q.next \/ i = q.next
    <3> HIDE DEF q
    <3> QED BY <1>a
  <2>3. Good(p, Len(owner), alive)
    BY <1>1, <1>9, <2>1, <2>2 DEF Good
  <2> HIDE DEF p
  <2> QED BY <1>3, <1>9, <2>1, <2>3, InvReplaced DEF SessionsInv, p
<1> QED BY <1>6, <1>7, <1>8, <1>9

\* An answer sets the cookie it brings, or empties those it clears.
LEMMA JarType ==
  ASSUME SessionsInv, NEW r \in Requests
  PROVE  JarAfter(request[r]) \in [Scopes -> 0 .. Len(owner)]
<1> DEFINE q == request[r]
<1>1. q \in RequestType /\ Good(q, Len(owner), alive) /\ jar \in [Scopes -> 0 .. Len(owner)]
  BY DEF SessionsInv
<1>2. Len(owner) \in Nat
  BY LenType
<1>3. CASE q.result = "in"
  <2>1. q.token \in 1 .. Len(owner)
    BY <1>1, <1>3 DEF Good
  <2>2. JarAfter(q) = [jar EXCEPT ![q.scope] = q.token]
    BY <1>3 DEF JarAfter
  <2>3. q.token \in 0 .. Len(owner)
    BY <1>2, <2>1
  <2>4. [jar EXCEPT ![q.scope] = q.token] \in [Scopes -> 0 .. Len(owner)]
    <3> HIDE DEF q
    <3> QED BY <1>1, <2>3
  <2> QED BY <2>2, <2>4
<1>4. CASE q.result # "in"
  <2>1. JarAfter(q) = [s \in Scopes |-> IF s \in Cleared(q.result) THEN NoToken ELSE jar[s]]
    BY <1>4 DEF JarAfter
  <2>2. NoToken \in 0 .. Len(owner)
    BY <1>2 DEF NoToken
  <2> QED BY <1>1, <2>1, <2>2
<1> QED BY <1>3, <1>4

\* What becomes of an answered request.
LEMMA ReceiveSteps ==
  ASSUME SessionsInv, NEW r \in Requests, Receive(r)
  PROVE  /\ request[r].at = "answered" /\ UNCHANGED <<owner, alive>>
         /\ jar' = JarAfter(request[r])
         /\ loggedOut' = IF request[r].result = "out"
                         THEN loggedOut \cup Range(request[r].sent) ELSE loggedOut
         /\ \E p \in RequestType :
              /\ Good(p, Len(owner), alive) /\ p.at # "answered"
              /\ \/ request' = [request EXCEPT ![r] = p]
                 \/ request' = Moved([request EXCEPT ![r] = p])
<1> DEFINE q == request[r]
<1>1. q \in RequestType /\ Len(owner) \in Nat
  BY LenType DEF SessionsInv
<1>2. PICK tokens \in Tokens :
        LET follow == [Sent("page", q.result, tokens) EXCEPT !.hops = q.hops + 1]
            rest == [request EXCEPT ![r] = IF q.result \in Paths THEN follow ELSE Idle]
        IN request' = IF jar' = jar THEN rest ELSE Moved(rest)
  BY DEF Receive
<1> DEFINE follow == [Sent("page", q.result, tokens) EXCEPT !.hops = q.hops + 1]
<1> DEFINE p == IF q.result \in Paths THEN follow ELSE Idle
<1>3. p \in RequestType /\ Good(p, Len(owner), alive) /\ p.at # "answered"
  <2>1. CASE q.result \in Paths
    <3>1. tokens \in Seq(Nat) /\ Range(tokens) \subseteq 1 .. Len(owner)
      BY TokensType
    <3>2. "page" \in Kinds /\ Asks("page", q.result) /\ q.hops + 1 \in Nat
      BY <1>1, <2>1, RequestFields DEF Kinds, Asks
    <3>3. /\ Sent("page", q.result, tokens) \in RequestType
          /\ Good(Sent("page", q.result, tokens), Len(owner), alive)
          /\ Sent("page", q.result, tokens).at = "sent"
      BY <1>1, <2>1, <3>1, <3>2, SentGood
    <3>4. /\ follow \in RequestType /\ Good(follow, Len(owner), alive)
          /\ follow.at = Sent("page", q.result, tokens).at
      BY <1>1, <3>2, <3>3, HopsGood, Zenon
    <3> QED BY <2>1, <3>3, <3>4
  <2>2. CASE q.result \notin Paths
    <3>1. Idle.at = "idle"
      BY DEF Idle
    <3> QED BY <1>1, <2>2, <3>1, IdleGood
  <2> QED BY <2>1, <2>2
<1>4. \/ request' = [request EXCEPT ![r] = p]
      \/ request' = Moved([request EXCEPT ![r] = p])
  BY <1>2
<1>5. /\ q.at = "answered" /\ UNCHANGED <<owner, alive>> /\ jar' = JarAfter(q)
      /\ loggedOut' = IF q.result = "out" THEN loggedOut \cup Range(q.sent) ELSE loggedOut
  BY DEF Receive
<1> HIDE DEF p
<1> QED BY <1>3, <1>4, <1>5

\* The answer of a logout adds tokens that are dead by then.
LEMMA InvReceive ==
  ASSUME SessionsInv, NEW r \in Requests, Receive(r)
  PROVE  SessionsInv'
<1>1. PICK p \in RequestType :
        /\ Good(p, Len(owner), alive)
        /\ \/ request' = [request EXCEPT ![r] = p]
           \/ request' = Moved([request EXCEPT ![r] = p])
  BY ReceiveSteps
<1>2. UNCHANGED <<owner, alive>>
  BY ReceiveSteps
<1>3. /\ request' \in [Requests -> RequestType]
      /\ \A x \in Requests : Good(request'[x], Len(owner'), alive')
  BY <1>1, <1>2, InvReplaced
<1>4. jar' \in [Scopes -> 0 .. Len(owner)]
  BY ReceiveSteps, JarType
<1>5. loggedOut' \subseteq 1 .. Len(owner) /\ loggedOut' \cap alive = {}
  BY ReceiveSteps DEF SessionsInv, Good
<1> QED BY <1>2, <1>3, <1>4, <1>5 DEF SessionsInv

\* All steps together.
LEMMA InvStep == SessionsInv /\ [SessionsNext]_sessionVars => SessionsInv'
<1> SUFFICES ASSUME SessionsInv, [SessionsNext]_sessionVars PROVE SessionsInv'
  OBVIOUS
<1>1. CASE \E r \in Requests : SendRequest(r) \/ Logout(r) \/ ResolveStep(r) \/ Receive(r)
  BY <1>1, InvSendRequest, InvLogout, InvResolve, InvReceive
<1>2. CASE \E r \in Requests, u \in Users, s \in Scopes : Login(r, u, s)
  BY <1>2, InvLogin
<1>3. CASE \E t \in alive : Expire(t)
  BY <1>3, InvExpire
<1>4. CASE UNCHANGED sessionVars
  BY <1>4 DEF SessionsInv, sessionVars
<1> QED BY <1>1, <1>2, <1>3, <1>4 DEF SessionsNext

\* The inductive invariant holds in every state (Login, Logout, AuthMiddleware).
THEOREM Invariance == SessionsSpec => []SessionsInv
BY InvInitially, InvStep, PTL DEF SessionsSpec

(***************************************************************************)
(* What a browser can rely on.                                             *)
(***************************************************************************)
\* Every cookie is that of a stored login (CreateSessionToken, Login).
THEOREM SessionsTypeCorrect == SessionsSpec => []SessionsTypeOK
<1>1. SessionsInv => SessionsTypeOK
  <2> SUFFICES ASSUME SessionsInv PROVE SessionsTypeOK
    OBVIOUS
  <2>1. DOMAIN owner = 1 .. Len(owner) /\ Len(owner) \in Nat
    BY DEF SessionsInv
  <2>2. \A r \in Requests : Range(request[r].sent) \subseteq DOMAIN owner
    BY <2>1 DEF SessionsInv, Good
  <2>3. \A s \in Scopes : jar[s] \in DOMAIN owner \cup {NoToken}
    BY <2>1 DEF SessionsInv, NoToken
  <2> QED BY <2>1, <2>2, <2>3 DEF SessionsInv, SessionsTypeOK
<1> QED BY <1>1, Invariance, PTL

\* An answered logout has ended the sessions of all cookies it was sent with
\* (Logout deletes every token of the request).
THEOREM LogoutIsFinal == SessionsSpec => []LogoutEnds
<1>1. SessionsInv => LogoutEnds
  BY DEF SessionsInv, LogoutEnds
<1> QED BY <1>1, Invariance, PTL

\* A request is refused for an invalid cookie only when none of its cookies is
\* valid (resolveValidSessionFromRequest looks at all of them).
THEOREM DeadCookies == SessionsSpec => []DeadCookieHarmless
<1>1. SessionsInv => DeadCookieHarmless
  BY DEF SessionsInv, DeadCookieHarmless, Good
<1> QED BY <1>1, Invariance, PTL

\* A browser loses the cookie of a valid session only to a login, a logout or a
\* refusal of a request that did not have it (clearSessionCookie).
THEOREM CookiesKept == SessionsSpec => KeptUnlessStale
<1> DEFINE CookieKept(s) ==
      jar[s] \in alive /\ jar'[s] # jar[s] =>
        \E r \in Requests :
          /\ request[r].at = "answered" /\ request'[r] # request[r]
          /\ \/ request[r].result \in {"in", "out"}
             \/ request[r].result = "invalid" /\ jar[s] \notin Range(request[r].sent)
<1>1. SessionsInv /\ [SessionsNext]_sessionVars => [\A s \in Scopes : CookieKept(s)]_sessionVars
  <2> SUFFICES ASSUME SessionsInv, SessionsNext, NEW s \in Scopes,
                      jar[s] \in alive, jar'[s] # jar[s]
               PROVE  CookieKept(s)
    OBVIOUS
  <2>1. PICK r \in Requests : Receive(r)
    BY DEF SessionsNext, SendRequest, Logout, ResolveStep, Login, Expire
  <2>2. request[r].at = "answered" /\ jar' = JarAfter(request[r])
    BY <2>1, ReceiveSteps
  <2>3. request'[r] # request[r]
    <3>1. PICK p \in RequestType :
            /\ p.at # "answered"
            /\ \/ request' = [request EXCEPT ![r] = p]
               \/ request' = Moved([request EXCEPT ![r] = p])
      BY <2>1, ReceiveSteps
    <3>2. request'[r].at # "answered"
      <4> DEFINE f == [request EXCEPT ![r] = p]
      <4>1. f[r] = p
        BY DEF SessionsInv
      <4>2. Moved(f)[r].at = p.at
        BY <4>1 DEF Moved, RequestType
      <4> QED BY <3>1, <4>1, <4>2
    <3> QED BY <2>2, <3>2
  <2>4. request[r].result \in {"in", "out", "invalid"}
    BY <2>2 DEF JarAfter, Cleared, SessionsInv
  <2>5. request[r].result = "invalid" => jar[s] \notin Range(request[r].sent)
    BY DEF SessionsInv, Good
  <2> QED BY <2>2, <2>3, <2>4, <2>5
<1>2. SessionsSpec => [][\A s \in Scopes : CookieKept(s)]_sessionVars
  BY <1>1, Invariance, PTL DEF SessionsSpec
<1> QED BY <1>2 DEF KeptUnlessStale

\* The three together: sessions end for good, and a dead one harms no other
\* (Logout, resolveValidSessionFromRequest).
THEOREM SessionsKept == SessionsSpec => []SessionsHold
BY SessionsTypeCorrect, LogoutIsFinal, DeadCookies, PTL DEF SessionsHold

(***************************************************************************)
(* Redirects end.  A request that a redirect brought about is sent with    *)
(* the cookies as they are; so its answer is that for a browser whose      *)
(* session is valid, or that for one whose session is not, and neither     *)
(* kind of answers makes a round.                                          *)
(***************************************************************************)
\* What the browser sends.
Given == {jar[s] : s \in Scopes} \ {NoToken}

\* Where a second redirect leads.
Onward(valid) == IF valid THEN {"/chat", "/email-verification"} ELSE {"/login"}

\* Of a request, when the tokens of given are sent and those of live are alive.
Short(q, given, live) ==
  /\ q.hops > 0 => q.at # "idle"
  /\ q.hops > 0 /\ q.at = "sent" =>
       /\ q.hops <= 3
       /\ Range(q.sent) = given
       /\ q.hops = 2 => q.path \in Onward(given \cap live # {})
       /\ q.hops = 3 => q.path = "/email-verification"
  /\ q.hops > 0 /\ q.at = "answered" =>
       /\ q.hops <= 2
       /\ q.hops = 1 => q.result \in Onward(given \cap live # {})
       /\ q.hops = 2 => q.result = "/email-verification"

HopsInv ==
  /\ SessionsInv
  /\ \A r \in Requests : Short(request[r], Given, alive)

LEMMA ShortFresh ==
  ASSUME NEW q, NEW given, NEW live, q.hops = 0
  PROVE  Short(q, given, live)
BY DEF Short

LEMMA IdleShort == \A given, live : Short(Idle, given, live)
<1>1. Idle.hops = 0
  BY DEF Idle
<1> QED  BY <1>1, ShortFresh

\* What counts is which of the cookies are valid.
LEMMA ShortSame ==
  ASSUME NEW q, NEW given, NEW live, NEW later, Short(q, given, live),
         (given \cap live = {}) <=> (given \cap later = {})
  PROVE  Short(q, given, later)
BY DEF Short, Onward

LEMMA MovedShort ==
  ASSUME NEW all \in [Requests -> RequestType], NEW r \in Requests,
         NEW given, NEW live
  PROVE  Short(Moved(all)[r], given, live)
<1>1. Moved(all)[r].hops = 0
  BY DEF Moved, RequestType
<1> QED  BY <1>1, ShortFresh

LEMMA SentShort ==
  ASSUME NEW kind, NEW path, NEW tokens, NEW given, NEW live
  PROVE  Short(Sent(kind, path, tokens), given, live)
<1>1. Sent(kind, path, tokens).hops = 0
  BY DEF Sent, Idle
<1> QED  BY <1>1, ShortFresh

\* A request is sent with what is given.
LEMMA TokensGiven ==
  ASSUME SessionsInv, NEW tokens \in Tokens
  PROVE  Range(tokens) = Given
<1>1. PICK o \in Orders : /\ Range(o) = {s \in Scopes : jar[s] # NoToken}
                          /\ tokens = [i \in DOMAIN o |-> jar[o[i]]]
  BY DEF Tokens
<1>2. Range(tokens) = {jar[s] : s \in Range(o)}
  BY <1>1 DEF Range
<1> QED  BY <1>1, <1>2 DEF Given

\* One request is replaced, and the cookies are those that they were; or their
\* number is counted anew.
LEMMA ShortReplaced ==
  ASSUME HopsInv, NEW r \in Requests, NEW p \in RequestType,
         \/ /\ request' = [request EXCEPT ![r] = p]
            /\ jar' = jar /\ alive' = alive
            /\ Short(p, Given, alive)
         \/ request' = Moved([request EXCEPT ![r] = p])
  PROVE  \A x \in Requests : Short(request'[x], Given', alive')
<1>1. request \in [Requests -> RequestType]
  BY DEF HopsInv, SessionsInv
<1>2. CASE /\ request' = [request EXCEPT ![r] = p]
           /\ jar' = jar /\ alive' = alive /\ Short(p, Given, alive)
  <2>1. Given' = Given
    BY <1>2 DEF Given
  <2>2. ASSUME NEW x \in Requests  PROVE  Short(request'[x], Given, alive)
    <3>1. request'[x] = IF x = r THEN p ELSE request[x]
      BY <1>1, <1>2
    <3> QED  BY <1>2, <3>1 DEF HopsInv
  <2> QED  BY <1>2, <2>1, <2>2
<1>3. CASE request' = Moved([request EXCEPT ![r] = p])
  <2>1. [request EXCEPT ![r] = p] \in [Requests -> RequestType]
    BY <1>1
  <2> QED  BY <1>3, <2>1, MovedShort
<1> QED  BY <1>2, <1>3

LEMMA ShortSend ==
  ASSUME HopsInv, NEW r \in Requests, SendRequest(r)
  PROVE  \A x \in Requests : Short(request'[x], Given', alive')
<1> SUFFICES ASSUME NEW x \in Requests
             PROVE  Short(request'[x], Given', alive')
  OBVIOUS
<1>1. Given' = Given /\ alive' = alive
  BY DEF SendRequest, Given
<1>2. CASE x # r
  <2>1. request'[x] = request[x]
    BY <1>2 DEF SendRequest, HopsInv, SessionsInv
  <2> QED  BY <1>1, <2>1 DEF HopsInv
<1>3. CASE x = r
  <2>1. \E kind, path, tokens : request'[x] = Sent(kind, path, tokens)
    BY <1>3 DEF SendRequest, HopsInv, SessionsInv
  <2> QED  BY <2>1, SentShort
<1> QED  BY <1>2, <1>3

\* The token of a login is not given yet.
LEMMA ShortLogin ==
  ASSUME HopsInv, NEW r \in Requests, NEW u \in Users, NEW s \in Scopes,
         Login(r, u, s)
  PROVE  \A x \in Requests : Short(request'[x], Given', alive')
<1> SUFFICES ASSUME NEW x \in Requests
             PROVE  Short(request'[x], Given', alive')
  OBVIOUS
<1>0. SessionsInv
  BY DEF HopsInv
<1>1. Given' = Given /\ alive' = alive \cup {Len(owner) + 1}
  BY DEF Login, Given
<1>2. Len(owner) + 1 \notin Given
  <2>1. jar \in [Scopes -> 0 .. Len(owner)] /\ Len(owner) \in Nat
    BY <1>0, LenType DEF SessionsInv
  <2>2. \A c \in Scopes : jar[c] # Len(owner) + 1
    BY <2>1
  <2> QED  BY <2>2 DEF Given
<1>3. (Given \cap alive = {}) <=> (Given \cap alive' = {})
  BY <1>1, <1>2
<1>4. \/ request'[x] = request[x]
      \/ request'[x].hops = 0
  <2>1. CASE request' = request
    BY <2>1
  <2>2. ASSUME NEW p, p = [Idle EXCEPT !.kind = "login", !.at = "answered",
                             !.scope = s, !.token = Len(owner) + 1, !.result = "in"],
               request' = [request EXCEPT ![r] = p]
        PROVE  request'[x] = request[x] \/ request'[x].hops = 0
    <3>1. p.hops = 0
      BY <2>2 DEF Idle
    <3>2. request'[x] = IF x = r THEN p ELSE request[x]
      BY <1>0, <2>2 DEF SessionsInv
    <3> QED  BY <3>1, <3>2
  <2> QED  BY <2>1, <2>2 DEF Login
<1>5. Short(request[x], Given, alive)
  BY DEF HopsInv
<1>6. Short(request[x], Given, alive')
  BY <1>3, <1>5, ShortSame
<1> QED  BY <1>1, <1>4, <1>6, ShortFresh

LEMMA ShortLogout ==
  ASSUME HopsInv, NEW r \in Requests, Logout(r)
  PROVE  \A x \in Requests : Short(request'[x], Given', alive')
<1> DEFINE q == request[r]
<1>0. SessionsInv
  BY DEF HopsInv
<1>1. q \in RequestType /\ Good(q, Len(owner), alive) /\ Len(owner) \in Nat
  BY <1>0 DEF SessionsInv
<1>2. jar' = jar
  BY DEF Logout
<1>3. \E result \in {"refused", "out"} :
        \/ /\ request' = [request EXCEPT ![r] = Answered(q, result)]
           /\ alive' = alive
        \/ request' = Moved([request EXCEPT ![r] = Answered(q, result)])
  <2>1. CASE q.sent = <<>>
    BY <2>1 DEF Logout, Answer
  <2>2. CASE q.sent # <<>> /\ alive' = alive
    BY <2>2 DEF Logout
  <2>3. CASE q.sent # <<>> /\ alive' # alive
    BY <2>3 DEF Logout
  <2> QED BY <2>1, <2>2, <2>3
<1>4. PICK result \in {"refused", "out"} :
        \/ /\ request' = [request EXCEPT ![r] = Answered(q, result)]
           /\ alive' = alive
        \/ request' = Moved([request EXCEPT ![r] = Answered(q, result)])
  BY <1>3
<1>5. Answered(q, result) \in RequestType /\ Answered(q, result).hops = 0
  <2>1. result \notin Paths
    BY DEF Paths
  <2>2. /\ Idle \in RequestType /\ Idle.hops = 0
        /\ [Idle EXCEPT !.kind = q.kind, !.at = "answered", !.result = result,
                        !.sent = q.sent].hops = 0
    BY <1>1, IdleGood DEF Idle
  <2>3. [Idle EXCEPT !.kind = q.kind, !.at = "answered", !.result = result,
                     !.sent = q.sent] \in RequestType
    BY <1>1, <2>2 DEF RequestType, Results
  <2> HIDE DEF q
  <2> QED  BY <2>1, <2>2, <2>3 DEF Answered
<1>6. Short(Answered(q, result), Given, alive)
  BY <1>5, ShortFresh
<1> HIDE DEF q
<1> QED  BY <1>2, <1>4, <1>5, <1>6, ShortReplaced

LEMMA ShortExpire ==
  ASSUME HopsInv, NEW t \in alive, Expire(t)
  PROVE  \A x \in Requests : Short(request'[x], Given', alive')
<1>1. request \in [Requests -> RequestType] /\ request' = Moved(request)
  BY DEF HopsInv, SessionsInv, Expire
<1> QED  BY <1>1, MovedShort

\* An answer other than a redirect ends the count.
LEMMA AnsweredShort ==
  ASSUME NEW q \in RequestType, NEW result, NEW given, NEW live,
         q.at = "sent", Short(q, given, live), result \in Paths => q.kind = "page",
         q.hops > 0 /\ q.kind = "page" =>
           \/ result \notin Paths
           \/ result \in Onward(given \cap live # {})
              /\ (result = "/chat" => q.path \notin {"/chat", "/email-verification"})
              /\ (result = "/login" => q.path \notin {"/login", "/email-verification"})
              /\ (result = "/email-verification" => q.path = "/chat")
  PROVE  Short(Answered(q, result), given, live)
<1> DEFINE p == Answered(q, result)
<1> SUFFICES Short(p, given, live)
  OBVIOUS
<1>1. CASE result \in Paths
  <2>1. p.at = "answered" /\ p.result = result /\ p.hops = q.hops
    BY <1>1 DEF Answered, Idle
  <2>2. q.hops \in Nat
    BY DEF RequestType
  <2> HIDE DEF p
  <2>3. CASE q.hops = 0
    BY <2>1, <2>3, ShortFresh
  <2>4. CASE q.hops = 1
    BY <1>1, <2>1, <2>4 DEF Short
  <2>5. CASE q.hops = 2
    BY <1>1, <2>1, <2>5 DEF Short, Onward
  <2>6. CASE q.hops = 3
    BY <1>1, <2>1, <2>6 DEF Short, Onward
  <2> QED  BY <2>2, <2>3, <2>4, <2>5, <2>6 DEF Short
<1>2. CASE result \notin Paths
  <2>1. p.hops = 0
    BY <1>2 DEF Answered, Idle
  <2> QED  BY <2>1, ShortFresh
<1> QED  BY <1>1, <1>2

\* A redirect that is decided for the cookies as they are.
LEMMA ShortResolve ==
  ASSUME HopsInv, NEW r \in Requests, ResolveStep(r)
  PROVE  \A x \in Requests : Short(request'[x], Given', alive')
<1> DEFINE q == request[r]
<1>0. SessionsInv
  BY DEF HopsInv
<1>1. q \in RequestType /\ Good(q, Len(owner), alive)
      /\ Short(q, Given, alive)
  BY DEF HopsInv, SessionsInv
<1>2. jar' = jar /\ alive' = alive
  BY DEF ResolveStep
<1>3. q.at = "sent" /\ q.kind \notin {"login", "logout"}
  BY DEF ResolveStep, Resolve, Resolving
<1>4. \/ q.kind \in {"api", "exempt", "optional"}
      \/ q.kind = "page" /\ q.path \in Paths
  <2>1. Asks(q.kind, q.path)
    BY <1>1, <1>3 DEF Good
  <2> HIDE DEF q
  <2> QED BY <1>3, <2>1 DEF Asks
<1>5. DOMAIN q.sent = 1 .. Len(q.sent) /\ Len(q.sent) \in Nat /\ q.next \in Nat \ {0}
      /\ q.hops \in Nat
  BY <1>1, RequestFields DEF RequestType
<1>6. q.hops > 0 => Range(q.sent) = Given
  BY <1>1, <1>3 DEF Short
<1>7. \/ /\ q.next > Len(q.sent)
         /\ request' = [request EXCEPT ![r] = Answered(q, Unresolved(q))]
      \/ /\ \E i \in DOMAIN q.sent : q.sent[i] \in alive
         /\ \E user : request' = [request EXCEPT ![r] = Answered(q, Served(q, user))]
      \/ request' = [request EXCEPT ![r] = [q EXCEPT !.next = q.next + 1]]
  <2>1. CASE q.next > Len(q.sent)
    BY <2>1 DEF ResolveStep, Resolve, Answer
  <2>2. CASE q.next <= Len(q.sent) /\ q.sent[q.next] \in alive
    <3>1. Answer(r, Served(q, owner[q.sent[q.next]]))
      BY <1>5, <2>2 DEF ResolveStep, Resolve
    <3>2. q.next \in DOMAIN q.sent
      BY <1>5, <2>2 DEF ResolveStep, Resolve
    <3> QED  BY <2>2, <3>1, <3>2 DEF Answer
  <2>3. CASE q.next <= Len(q.sent) /\ q.sent[q.next] \notin alive
    BY <1>5, <2>3 DEF ResolveStep, Resolve
  <2> QED  BY <1>5, <2>1, <2>2, <2>3
<1>8. CASE /\ q.next > Len(q.sent)
           /\ request' = [request EXCEPT ![r] = Answered(q, Unresolved(q))]
  <2>1. Range(q.sent) \cap alive = {}
    BY <1>1, <1>5, <1>8 DEF Good, Range
  <2>2. Unresolved(q) \in Results /\ Unresolved(q) \notin {"in", "out"}
    <3> HIDE DEF q
    <3> QED  BY <1>4 DEF Unresolved, RefusedByAPI, PublicPage, Results, Paths
  <2> DEFINE result == Unresolved(q)
  <2>3. Answered(q, result) \in RequestType
    <3> HIDE DEF q
    <3> QED  BY <1>0, <1>1, <2>1, <2>2, LenType, AnsweredGood
  <2>4. Short(Answered(q, result), Given, alive)
    <3> HIDE DEF q
    <3>1. CASE q.kind # "page"
      <4>1. result \notin Paths
        BY <1>4, <3>1 DEF Unresolved, RefusedByAPI, Paths
      <4> HIDE DEF result
      <4> QED  BY <1>1, <1>3, <4>1, AnsweredShort
    <3>2. CASE q.kind = "page"
      <4>1. result = IF q.path \in {"/login", "/email-verification"}
                     THEN "page" ELSE "/login"
        BY <3>2 DEF Unresolved, PublicPage
      <4>2. q.hops > 0 => Onward(Given \cap alive # {}) = {"/login"}
        BY <1>6, <2>1 DEF Onward
      <4> HIDE DEF result
      <4> QED  BY <1>1, <1>3, <3>2, <4>1, <4>2, AnsweredShort DEF Paths
    <3> QED  BY <3>1, <3>2
  <2> HIDE DEF result, q
  <2> QED  BY <1>2, <1>8, <2>3, <2>4, ShortReplaced DEF result, q
<1>9. ASSUME NEW user, \E i \in DOMAIN q.sent : q.sent[i] \in alive,
             request' = [request EXCEPT ![r] = Answered(q, Served(q, user))]
      PROVE  \A x \in Requests : Short(request'[x], Given', alive')
  <2> DEFINE result == Served(q, user)
  <2>1. result \in Results /\ result \notin {"in", "out", "invalid"}
    <3> HIDE DEF q
    <3> QED  BY <1>4 DEF Served, Page, Results, Paths
  <2>2. Answered(q, result) \in RequestType
    <3> HIDE DEF q, result
    <3> QED  BY <1>0, <1>1, <2>1, LenType, AnsweredGood
  <2>3. Short(Answered(q, result), Given, alive)
    <3> HIDE DEF q
    <3>1. CASE q.kind # "page"
      <4>1. result \notin Paths
        BY <3>1 DEF Served, Paths
      <4> HIDE DEF result
      <4> QED  BY <1>1, <1>3, <4>1, AnsweredShort
    <3>2. CASE q.kind = "page"
      <4>1. \/ result \notin Paths
            \/ result = "/chat" /\ q.path \in {"/login", "/integrations/hidden"}
            \/ result = "/email-verification" /\ q.path = "/chat"
        BY <1>4, <3>2 DEF Served, Page, Paths
      <4>2. q.hops > 0 =>
              Onward(Given \cap alive # {}) = {"/chat", "/email-verification"}
        BY <1>6, <1>9 DEF Onward, Range
      <4> HIDE DEF result
      <4> QED  BY <1>1, <1>3, <3>2, <4>1, <4>2, AnsweredShort
    <3> QED  BY <3>1, <3>2
  <2> HIDE DEF result, q
  <2> QED  BY <1>2, <1>9, <2>2, <2>3, ShortReplaced DEF result, q
<1>10. CASE request' = [request EXCEPT ![r] = [q EXCEPT !.next = q.next + 1]]
  <2> DEFINE p == [q EXCEPT !.next = q.next + 1]
  <2>1. /\ p \in RequestType /\ p.at = q.at /\ p.path = q.path /\ p.sent = q.sent
        /\ p.hops = q.hops /\ p.result = q.result
    <3> HIDE DEF q
    <3>1. q.next + 1 \in Nat \ {0}
      BY <1>5
    <3> QED BY <1>1, <3>1 DEF RequestType
  <2>2. Short(p, Given, alive)
    <3> HIDE DEF p, q
    <3> QED  BY <1>1, <2>1 DEF Short
  <2> HIDE DEF p, q
  <2> QED  BY <1>2, <1>10, <2>1, <2>2, ShortReplaced DEF p, q
<1> QED  BY <1>7, <1>8, <1>9, <1>10

\* A redirect is followed with the cookies as they are.
LEMMA ShortReceive ==
  ASSUME HopsInv, NEW r \in Requests, Receive(r)
  PROVE  \A x \in Requests : Short(request'[x], Given', alive')
<1> DEFINE q == request[r]
<1>0. SessionsInv /\ Len(owner) \in Nat
  BY LenType DEF HopsInv
<1>1. q \in RequestType /\ Short(q, Given, alive) /\ q.at = "answered"
      /\ alive' = alive
  BY DEF HopsInv, SessionsInv, Receive
<1>2. PICK tokens \in Tokens :
        LET follow == [Sent("page", q.result, tokens) EXCEPT !.hops = q.hops + 1]
            rest == [request EXCEPT ![r] = IF q.result \in Paths THEN follow ELSE Idle]
        IN request' = IF jar' = jar THEN rest ELSE Moved(rest)
  BY DEF Receive
<1> DEFINE sent == Sent("page", q.result, tokens)
           follow == [sent EXCEPT !.hops = q.hops + 1]
           p == IF q.result \in Paths THEN follow ELSE Idle
<1>3. p \in RequestType /\ Short(p, Given, alive)
  <2>1. CASE q.result \in Paths
    <3>1. tokens \in Seq(Nat) /\ Range(tokens) \subseteq 1 .. Len(owner)
          /\ Range(tokens) = Given
      BY <1>0, TokensType, TokensGiven
    <3>2. "page" \in Kinds /\ Asks("page", q.result) /\ q.hops \in Nat
          /\ q.hops + 1 \in Nat
      BY <1>1, <2>1, RequestFields DEF Kinds, Asks, RequestType
    <3>3. sent \in RequestType
      BY <1>0, <2>1, <3>1, <3>2, SentGood
    <3>4. sent.at = "sent" /\ sent.path = q.result /\ sent.sent = tokens
      BY DEF Sent, Idle
    <3> HIDE DEF sent
    <3>5. /\ follow \in RequestType /\ follow.hops = q.hops + 1
          /\ follow.at = "sent" /\ follow.path = q.result /\ follow.sent = tokens
      BY <3>2, <3>3, <3>4 DEF RequestType
    <3> HIDE DEF follow, q
    <3>6. Short(follow, Given, alive)
      <4>1. q.hops > 0 =>
              /\ q.hops <= 2
              /\ q.hops = 1 => q.result \in Onward(Given \cap alive # {})
              /\ q.hops = 2 => q.result = "/email-verification"
        BY <1>1 DEF Short
      <4> QED  BY <3>1, <3>2, <3>5, <4>1 DEF Short
    <3> QED  BY <2>1, <3>5, <3>6
  <2>2. CASE q.result \notin Paths
    BY <1>0, <2>2, IdleGood, IdleShort
  <2> QED  BY <2>1, <2>2
<1>4. \/ /\ request' = [request EXCEPT ![r] = p] /\ jar' = jar
      \/ request' = Moved([request EXCEPT ![r] = p])
  BY <1>2
<1> HIDE DEF p
<1> QED  BY <1>1, <1>3, <1>4, ShortReplaced

LEMMA HopsStep == HopsInv /\ [SessionsNext]_sessionVars => HopsInv'
<1> SUFFICES ASSUME HopsInv, [SessionsNext]_sessionVars  PROVE  HopsInv'
  OBVIOUS
<1>1. SessionsInv'
  BY InvStep DEF HopsInv
<1>2. \A x \in Requests : Short(request'[x], Given', alive')
  <2>1. CASE UNCHANGED sessionVars
    BY <2>1 DEF sessionVars, HopsInv, Given
  <2>2. CASE SessionsNext
    BY <2>2, ShortSend, ShortLogin, ShortLogout, ShortExpire, ShortResolve,
       ShortReceive DEF SessionsNext
  <2> QED  BY <2>1, <2>2
<1> QED  BY <1>1, <1>2 DEF HopsInv

\* However logins, logouts, expiries and requests interleave: between two changes
\* of its cookies or of sessions a browser reaches a page after at most three
\* redirects, two of them decided for the cookies it has
\* (FrontendAuthMiddleware and the pages' own redirects make no loop).
THEOREM NoRedirectLoop == SessionsSpec => []RedirectsEnd
<1>1. SessionsInit => HopsInv
  BY InvInitially, IdleShort DEF SessionsInit, HopsInv
<1>2. HopsInv => RedirectsEnd
  <2> SUFFICES ASSUME HopsInv, NEW r \in Requests  PROVE  request[r].hops <= 3
    BY DEF RedirectsEnd
  <2>1. /\ request[r].hops \in Nat
        /\ request[r].at \in {"idle", "sent", "answered"}
        /\ Short(request[r], Given, alive)
    BY DEF HopsInv, SessionsInv, RequestType
  <2> QED  BY <2>1 DEF Short
<1> QED  BY <1>1, <1>2, HopsStep, PTL DEF SessionsSpec
=============================================================================
