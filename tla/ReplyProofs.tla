---------------------------- MODULE ReplyProofs -----------------------------
(***************************************************************************)
(* A generated reply and what it is made with, part by part: the rounds    *)
(* that are streamed to its consumer, the calls of MCP tools, the tools it *)
(* is given and the history it is asked with.                              *)
(***************************************************************************)
EXTENDS ToolStream, ChatHistory, ToolSetup, McpCalls, DataLemmas, FiniteSetTheorems

(***************************************************************************)
(* What the consumer of a reply relies on, for every set of calls, every   *)
(* limit and every number of rounds and pieces of text: an error of the    *)
(* producer is not lost between the closing channels, and a finished       *)
(* message has all the text of its last part.                              *)
(***************************************************************************)
\* A round is open only below the limits.
CountInv ==
  prod \notin {"request", "closing", "done"} =>
    total < MaxTotal /\ failed < MaxFailed

\* The channels: closing comes last, and a channel the consumer has given up
\* is closed and empty.
ChannelInv ==
  /\ err => prod \in {"closing", "done"}
  /\ closed # {} => prod \in {"closing", "done"}
  /\ "chunks" \in closed <=> prod = "done"
  /\ Channels \ chans \subseteq closed
  /\ "errs" \notin chans => ~err
  /\ cons = "finished" => chans = {}

LastPart == IF had THEN mark + 1 ELSE 1

\* The text: the consumer has every piece of the last part that was handed
\* over, and the first call is on its way with the mark it will clear to.
TextInv ==
  /\ had <=> \E i \in Ids : calls[i] # NoRecord
  /\ prod \in {"announce", "run", "report"} =>
       /\ cur \in Calls
       /\ outcome # "none"
       /\ ~had => mark = sent
  /\ prod = "chunk" => mark < sent
  /\ cons = "looping" =>
       shown = LastPart .. (IF prod = "chunk" THEN sent - 1 ELSE sent)
  /\ cons = "finished" => shown = LastPart .. sent

IInv == TypeOK /\ CountInv /\ ChannelInv /\ TextInv

-----------------------------------------------------------------------------
Records == [call: Calls \cup {NoCall},
            status: {"none", "ongoing", "pending", "succeeded", "failed"}]

LEMMA InitInv == Init => IInv
<1> SUFFICES ASSUME Init PROVE IInv
  OBVIOUS
<1>1. TypeOK
  <2>1. cache \in [Signatures -> {"none", "pending", "succeeded", "failed"}]
    BY DEF Init
  <2>2. calls \in [Ids -> Records] /\ latest \in [Ids -> Calls \cup {NoCall}]
    BY DEF Init, NoRecord, Records
  <2>3. round \in [used: BOOLEAN, call: Calls \cup {NoCall},
                  status: {"none", "ongoing", "pending", "succeeded", "failed"},
                  stop: BOOLEAN]
    BY DEF Init, NoRound
  <2>4. /\ total \in 0..MaxTotal /\ failed \in 0..MaxFailed
        /\ sent \in 0..MaxChunks /\ mark \in 0..sent
        /\ shown \subseteq 1..MaxChunks
    BY ConstantsAssumption DEF Init
  <2>5. /\ processed \subseteq Ids /\ issued \subseteq Ids
        /\ executed \subseteq Calls
        /\ closed \subseteq Channels /\ chans \subseteq Channels
    BY DEF Init
  <2>6. /\ err \in BOOLEAN /\ completed \in BOOLEAN /\ had \in BOOLEAN
        /\ cur \in Calls \cup {NoCall}
    BY DEF Init
  <2> QED
    BY <2>1, <2>2, <2>3, <2>4, <2>5, <2>6 DEF Init, TypeOK, Records
<1>2. CountInv
  BY ConstantsAssumption DEF Init, CountInv
<1>3. ChannelInv
  BY DEF Init, ChannelInv, Channels
<1>4. TextInv
  BY DEF Init, TextInv, LastPart
<1> QED
  BY <1>1, <1>2, <1>3, <1>4 DEF IInv

\* A step of the producer that keeps to itself.
LEMMA ProducerStep ==
  ASSUME IInv,
         \/ StartTools \/ Request \/ LimitExceeded \/ StreamBreaks
         \/ ReadText \/ ReadUsage \/ EndRound \/ Close
  PROVE  IInv'
<1> USE ConstantsAssumption DEF IInv, consumerVars
<1>1. CASE StartTools
  BY <1>1 DEF StartTools, TypeOK, CountInv, ChannelInv, TextInv, LastPart
<1>2. CASE Request
  BY <1>2 DEF Request, WithinLimits, NoRound, TypeOK, CountInv, ChannelInv,
              TextInv, LastPart
<1>3. CASE LimitExceeded
  BY <1>3 DEF LimitExceeded, Fail, TypeOK, CountInv, ChannelInv, TextInv,
              LastPart, Channels
<1>4. CASE StreamBreaks
  BY <1>4 DEF StreamBreaks, Fail, TypeOK, CountInv, ChannelInv, TextInv,
              LastPart, Channels
<1>5. CASE ReadText
  <2>0. sent' \in 0..MaxChunks /\ mark' \in 0..sent'
    BY <1>5 DEF ReadText, TypeOK
  <2>1. TypeOK'
    BY <1>5, <2>0 DEF ReadText, TypeOK
  <2>2. CountInv' /\ ChannelInv'
    BY <1>5 DEF ReadText, CountInv, ChannelInv
  <2>3. /\ sent' - 1 = sent /\ mark < sent'
        /\ prod = "reading" /\ prod' = "chunk"
    BY <1>5 DEF ReadText, TypeOK
  <2>4. TextInv'
    <3>1. LastPart' = LastPart
      BY <1>5 DEF ReadText, LastPart
    <3>2. cons' = "looping" => shown' = LastPart' .. (sent' - 1)
      BY <1>5, <2>3, <3>1 DEF ReadText, TextInv
    <3>3. cons = "finished" => FALSE
      BY <2>3 DEF ChannelInv, Channels
    <3> QED
      BY <1>5, <2>3, <3>2, <3>3 DEF ReadText, TextInv
  <2> QED
    BY <2>1, <2>2, <2>4
<1>6. CASE ReadUsage
  BY <1>6 DEF ReadUsage, TypeOK, CountInv, ChannelInv, TextInv, LastPart
<1>7. CASE EndRound
  BY <1>7 DEF EndRound, TypeOK, CountInv, ChannelInv, TextInv, LastPart
<1>8. CASE Close
  BY <1>8 DEF Close, TypeOK, CountInv, ChannelInv, TextInv, LastPart, Channels
<1> QED
  BY <1>1, <1>2, <1>3, <1>4, <1>5, <1>6, <1>7, <1>8

\* A call is read from the stream, usable or not.
LEMMA ReadStep ==
  ASSUME IInv, NEW c \in Calls, ReadUnusableCall(c) \/ ReadCall(c)
  PROVE  IInv'
<1> USE ConstantsAssumption DEF IInv, consumerVars, Issue, Begins
<1>1. CASE ReadUnusableCall(c)
  <2>1. TypeOK'
    <3>1. round' \in [used: BOOLEAN, call: Calls \cup {NoCall},
                     status: {"none", "ongoing", "pending", "succeeded", "failed"},
                     stop: BOOLEAN]
      BY <1>1 DEF ReadUnusableCall, TypeOK
    <3>2. issued' \subseteq Ids
      BY <1>1 DEF ReadUnusableCall, TypeOK, Ids
    <3> QED
      BY <1>1, <3>1, <3>2 DEF ReadUnusableCall, TypeOK
  <2>2. CountInv' /\ ChannelInv'
    BY <1>1 DEF ReadUnusableCall, CountInv, ChannelInv
  <2>3. TextInv'
    BY <1>1 DEF ReadUnusableCall, TextInv, LastPart
  <2> QED
    BY <2>1, <2>2, <2>3
<1>2. CASE ReadCall(c)
  <2>1. cur' = c /\ outcome' \in {"ongoing", "succeeded", "failed"}
    BY <1>2 DEF ReadCall
  <2>2. ~had => mark' = sent
    BY <1>2 DEF ReadCall, Mark, TextInv
  <2>3. had => mark' = mark
    BY <1>2 DEF ReadCall, Mark, TextInv
  <2>4. TypeOK'
    <3>1. round' \in [used: BOOLEAN, call: Calls \cup {NoCall},
                     status: {"none", "ongoing", "pending", "succeeded", "failed"},
                     stop: BOOLEAN]
      BY <1>2, <2>1 DEF ReadCall, TypeOK
    <3>2. mark' \in 0..sent
      BY <2>2, <2>3 DEF TypeOK
    <3>3. prod' \in {"report", "announce"}
      BY <1>2 DEF ReadCall
    <3>4. issued' \subseteq Ids /\ latest' \in [Ids -> Calls \cup {NoCall}]
      BY <1>2 DEF ReadCall, TypeOK, Ids
    <3> QED
      BY <1>2, <2>1, <3>1, <3>2, <3>3, <3>4 DEF ReadCall, TypeOK
  <2>5. CountInv' /\ ChannelInv'
    BY <1>2 DEF ReadCall, CountInv, ChannelInv
  <2>6. TextInv'
    BY <1>2, <2>1, <2>2, <2>3 DEF ReadCall, TextInv, LastPart
  <2> QED
    BY <2>4, <2>5, <2>6
<1> QED
  BY <1>1, <1>2

\* A tool is run, or a round with a tool call ends.
LEMMA ToolStep ==
  ASSUME IInv, RunTool \/ EndToolRound
  PROVE  IInv'
<1> USE ConstantsAssumption DEF IInv, consumerVars
<1>1. CASE RunTool
  <2>1. outcome' \in {"pending", "succeeded", "failed"}
    BY <1>1 DEF RunTool
  <2>2. executed' \subseteq Calls
    BY <1>1 DEF RunTool, TypeOK, TextInv
  <2>3. TypeOK'
    <3>1. round' \in [used: BOOLEAN, call: Calls \cup {NoCall},
                     status: {"none", "ongoing", "pending", "succeeded", "failed"},
                     stop: BOOLEAN]
      BY <1>1, <2>1 DEF RunTool, TypeOK
    <3>2. cache' \in [Signatures -> {"none", "pending", "succeeded", "failed"}]
      BY <1>1, <2>1 DEF RunTool, TypeOK
    <3>3. outcome' \in {"none", "ongoing", "pending", "succeeded", "failed"}
      BY <2>1
    <3>4. /\ prod' = "report"
          /\ UNCHANGED <<cur, total, failed, processed, issued, latest, sent, mark,
                         err, closed, completed, consumerVars, ctx>>
      BY <1>1 DEF RunTool
    <3> QED
      BY <2>2, <3>1, <3>2, <3>3, <3>4 DEF TypeOK
  <2>4. CountInv' /\ ChannelInv' /\ TextInv'
    BY <1>1, <2>1 DEF RunTool, CountInv, ChannelInv, TextInv, LastPart
  <2> QED
    BY <2>3, <2>4
<1>2. CASE EndToolRound
  <2>1. total' \in 0..MaxTotal /\ failed' \in 0..MaxFailed
    BY <1>2 DEF EndToolRound, TypeOK, CountInv
  <2>2. TypeOK'
    <3>1. processed' \subseteq Ids
      BY <1>2 DEF EndToolRound, RoundIds, TypeOK, Ids
    <3> QED
      BY <1>2, <2>1, <3>1 DEF EndToolRound, TypeOK
  <2>3. CountInv' /\ ChannelInv' /\ TextInv'
    BY <1>2 DEF EndToolRound, CountInv, ChannelInv, TextInv, LastPart
  <2> QED
    BY <2>2, <2>3
<1> QED
  BY <1>1, <1>2

\* The consumer receives from a channel.
LEMMA ReceiveStep ==
  ASSUME IInv, ReceiveChunk \/ ReceiveUsage \/ ReceiveCall \/ ReceiveError
  PROVE  IInv'
<1> USE ConstantsAssumption DEF IInv, consumerVars
<1>1. CASE ReceiveChunk
  <2>1. shown' = LastPart .. sent
    BY <1>1 DEF ReceiveChunk, TextInv, TypeOK, LastPart
  <2>2. TypeOK'
    BY <1>1 DEF ReceiveChunk, TypeOK, TextInv
  <2>3. CountInv' /\ ChannelInv' /\ TextInv'
    BY <1>1, <2>1 DEF ReceiveChunk, CountInv, ChannelInv, TextInv, LastPart
  <2> QED
    BY <2>2, <2>3
<1>2. CASE ReceiveUsage
  BY <1>2 DEF ReceiveUsage, TypeOK, CountInv, ChannelInv, TextInv, LastPart
<1>3. CASE ReceiveCall
  <2>1. /\ calls' = [calls EXCEPT ![IdOf[cur]] = [call |-> cur, status |-> outcome]]
        /\ cur \in Calls /\ IdOf[cur] \in Ids /\ outcome # "none" /\ had' = TRUE
    BY <1>3 DEF ReceiveCall, TextInv, Ids
  <2>2. calls'[IdOf[cur]] # NoRecord
    BY <2>1 DEF TypeOK, NoRecord
  <2>3. TypeOK'
    <3>1. calls' \in [Ids -> Records]
      BY <2>1 DEF TypeOK, Records
    <3>2. shown' \subseteq 1..MaxChunks
      BY <1>3 DEF ReceiveCall, TypeOK
    <3> QED
      BY <1>3, <3>1, <3>2 DEF ReceiveCall, TypeOK, Records
  <2>4. shown' = LastPart' .. sent
    BY <1>3, <2>1 DEF ReceiveCall, TextInv, LastPart, TypeOK
  <2>5. CountInv' /\ ChannelInv'
    BY <1>3 DEF ReceiveCall, CountInv, ChannelInv
  <2>6. TextInv'
    BY <1>3, <2>1, <2>2, <2>4 DEF ReceiveCall, TextInv, LastPart
  <2> QED
    BY <2>3, <2>5, <2>6
<1>4. CASE ReceiveError
  <2>1. TypeOK'
    <3>1. err' \in BOOLEAN /\ cons' = "failed"
      BY <1>4 DEF ReceiveError
    <3> QED
      BY <1>4, <3>1 DEF ReceiveError, TypeOK
  <2>2. CountInv' /\ ChannelInv'
    BY <1>4 DEF ReceiveError, CountInv, ChannelInv
  <2>3. TextInv'
    BY <1>4 DEF ReceiveError, TextInv, LastPart
  <2> QED
    BY <2>1, <2>2, <2>3
<1> QED
  BY <1>1, <1>2, <1>3, <1>4

\* The consumer drops a closed channel, finishes or pauses; the context ends.
LEMMA LeaveStep ==
  ASSUME IInv,
         \/ \E ch \in Channels : SeeClosed(ch)
         \/ Finish \/ Pause \/ ContextEnds
  PROVE  IInv'
<1> USE DEF IInv, producerVars, consumerVars
<1>1. CASE \E ch \in Channels : SeeClosed(ch)
  BY <1>1 DEF SeeClosed, TypeOK, CountInv, ChannelInv, TextInv, LastPart
<1>2. CASE Finish
  <2>1. prod = "done"
    BY <1>2 DEF Finish, ChannelInv, Channels
  <2> QED
    BY <1>2, <2>1 DEF Finish, TypeOK, CountInv, ChannelInv, TextInv, LastPart
<1>3. CASE Pause
  BY <1>3 DEF Pause, TypeOK, CountInv, ChannelInv, TextInv, LastPart
<1>4. CASE ContextEnds
  BY <1>4 DEF ContextEnds, TypeOK, CountInv, ChannelInv, TextInv, LastPart
<1> QED
  BY <1>1, <1>2, <1>3, <1>4

LEMMA NextInv == IInv /\ [Next]_vars => IInv'
<1> SUFFICES ASSUME IInv, [Next]_vars PROVE IInv'
  OBVIOUS
<1>1. CASE UNCHANGED vars
  BY <1>1 DEF IInv, TypeOK, CountInv, ChannelInv, TextInv, LastPart, vars,
              producerVars, consumerVars
<1>2. CASE Next
  BY <1>2, ProducerStep, ReadStep, ToolStep, ReceiveStep, LeaveStep
     DEF Next, Produce, Consume
<1> QED
  BY <1>1, <1>2

-----------------------------------------------------------------------------
\* Every reachable state of a reply satisfies the inductive invariant.
THEOREM Inductive == Spec => []IInv
  BY InitInv, NextInv, PTL DEF Spec

\* Every variable keeps its type and the counters stay within their limits.
THEOREM TypeCorrect == Spec => []TypeOK
  BY Inductive, PTL DEF IInv

\* The consumer never finishes a reply whose producer reported an error.
THEOREM ErrorsReported == Spec => []NoSwallowedError
<1>1. IInv => NoSwallowedError
  BY DEF IInv, ChannelInv, NoSwallowedError
<1> QED
  BY <1>1, Inductive, PTL

\* A finished reply shows all the text of its last part.
THEOREM TextComplete == Spec => []FinalTextComplete
<1>1. IInv => FinalTextComplete
  BY DEF IInv, TextInv, LastPart, FinalTextComplete
<1> QED
  BY <1>1, Inductive, PTL
-----------------------------------------------------------------------------
(***************************************************************************)
(* The calls of a reply.                                                   *)
(***************************************************************************)

\* A call is announced before its tool runs, and one that is announced and not
\* reported is the one the producer is at, unless nobody listens any more.
AccountInv ==
  /\ \A c \in executed : calls[IdOf[c]] # NoRecord
  /\ prod = "run" => calls[IdOf[cur]] # NoRecord
  /\ prod = "announce" => outcome = "ongoing"
  /\ prod = "report" => outcome \in {"pending", "succeeded", "failed"}
  /\ cons = "failed" => prod \in {"closing", "done"}
  /\ \A i \in Ids : calls[i].status = "ongoing" =>
       cons = "paused" \/ (prod \in {"run", "report"} /\ i = IdOf[cur])

\* What is recorded under an id is the last call that had it, or that one is
\* on its way.
LatestInv ==
  /\ prod \in {"announce", "run", "report"} => latest[IdOf[cur]] = cur
  /\ \A i \in Ids :
       \/ latest[i] \in {NoCall, calls[i].call}
       \/ prod \in {"announce", "report"} /\ i = IdOf[cur]

\* Inside a round, and inside the part of it that works on a call.
InCall  == {"announce", "run", "report"}
InRound == {"reading", "chunk", "usage"} \cup InCall

\* A round has one call, under an id that was not used before.
RoundInv ==
  /\ processed \subseteq issued /\ NoId \notin issued
  /\ prod \in InRound /\ ~round.used => round.status = "none" /\ ~round.stop
  /\ prod \in InRound /\ round.used =>
       round.call # NoCall /\ IdOf[round.call] \in (issued \ processed) \cup {NoId}
  /\ prod \in InCall => round.used
  /\ prod \in {"announce", "run"} =>
       round.status = "none" /\ ~round.stop /\ cache[SignatureOf[cur]] = "none"
  /\ \A c \in executed : cache[SignatureOf[c]] # "none"

FailedCalls == {c \in executed : cache[SignatureOf[c]] = "failed"}

\* The tools that were run, against the counters: a round is counted when it
\* ends, so inside it the counters may be one behind.
LimitInv ==
  /\ ToolCallsWithinLimit
  /\ prod \in {"starting", "request", "announce", "run"} =>
       Cardinality(executed) <= total
  /\ prod \in InRound =>
       Cardinality(executed) <= IF round.used THEN total + 1 ELSE total
  /\ prod \in {"starting", "request"} => Cardinality(FailedCalls) <= failed
  /\ prod \in InRound =>
       Cardinality(FailedCalls) <= IF round.status = "failed" THEN failed + 1 ELSE failed

Stopped == executed \cap Stopping # {}

\* A reply that stops to be confirmed is in the round of that call or closing,
\* and a reply that closes was completed, failed or was stopped, one of the three.
StopInv ==
  /\ Stopped => prod \in {"closing", "done"} \/ (prod \in InRound /\ round.stop)
  /\ prod \in InRound /\ round.stop => Stopped
  /\ completed => prod \in {"closing", "done"} /\ ~err /\ cons # "failed" /\ ~Stopped
  /\ prod \in {"closing", "done"} => completed \/ err \/ cons = "failed" \/ Stopped

\* What holds on top of IInv when rounds have one call and ids are fresh.
SInv == IInv /\ AccountInv /\ RoundInv /\ LimitInv /\ StopInv
-----------------------------------------------------------------------------
\* Which round the steps leave behind.
LEMMA RoundFields ==
  ASSUME TypeOK
  PROVE  /\ round.used \in BOOLEAN /\ round.stop \in BOOLEAN
         /\ round.call \in Calls \cup {NoCall}
         /\ NoRound.used = FALSE /\ NoRound.stop = FALSE /\ NoRound.status = "none"
  BY DEF TypeOK, NoRound

LEMMA UnusableFields ==
  ASSUME TypeOK, NEW c \in Calls, ReadUnusableCall(c)
  PROVE  /\ round'.used = TRUE /\ round'.call = c
         /\ round'.status = round.status /\ round'.stop = round.stop
  BY DEF TypeOK, ReadUnusableCall

LEMMA CallFields ==
  ASSUME TypeOK, NEW c \in Calls, ReadCall(c)
  PROVE  /\ round'.used = TRUE /\ round'.call = c /\ round'.stop = round.stop
         /\ \/ /\ cache[SignatureOf[c]] # "none" /\ prod' = "report"
               /\ outcome' \in {"succeeded", "failed"} /\ round'.status = outcome'
            \/ /\ cache[SignatureOf[c]] = "none" /\ prod' = "announce"
               /\ outcome' = "ongoing" /\ round'.status = round.status
<1>1. CASE cache[SignatureOf[c]] # "none"
  BY <1>1 DEF TypeOK, ReadCall
<1>2. CASE cache[SignatureOf[c]] = "none"
  BY <1>2 DEF TypeOK, ReadCall
<1> QED
  BY <1>1, <1>2

LEMMA ToolFields ==
  ASSUME TypeOK, RunTool
  PROVE  /\ outcome' \in {"pending", "succeeded", "failed"}
         /\ round'.used = round.used /\ round'.call = round.call
         /\ round'.status = outcome' /\ round'.stop = (round.stop \/ cur \in Stopping)
  BY DEF TypeOK, RunTool

-----------------------------------------------------------------------------
LEMMA AccountStep ==
  ASSUME IInv, AccountInv, [Next]_vars
  PROVE  AccountInv'
<1> USE DEF AccountInv, consumerVars, producerVars
<1>0. TypeOK /\ TextInv /\ ChannelInv
  BY DEF IInv
<1>1. CASE \/ StartTools \/ Request \/ LimitExceeded \/ StreamBreaks \/ ReadText
           \/ ReadUsage \/ EndRound \/ EndToolRound \/ Close
  BY <1>1 DEF StartTools, Request, LimitExceeded, StreamBreaks, Fail, ReadText,
              ReadUsage, EndRound, EndToolRound, Close
<1>2. ASSUME NEW c \in Calls, ReadUnusableCall(c) PROVE AccountInv'
  BY <1>2 DEF ReadUnusableCall, Issue, Begins
<1>3. ASSUME NEW c \in Calls, ReadCall(c) PROVE AccountInv'
  <2>1. /\ prod = "reading" /\ prod' \in {"announce", "report"}
        /\ prod' = "announce" => outcome' = "ongoing"
        /\ prod' = "report" => outcome' \in {"succeeded", "failed"}
        /\ UNCHANGED <<executed, cons, calls>>
    <3>1. prod = "reading" /\ UNCHANGED <<executed, cons, calls>>
      BY <1>3 DEF ReadCall, Issue, Begins
    <3> QED
      BY <1>0, <1>3, <3>1, CallFields
  <2>2. executed \subseteq Calls
    BY <1>0 DEF TypeOK
  <2> QED
    BY <2>1, <2>2
<1>4. CASE RunTool
  <2>1. /\ prod = "run" /\ prod' = "report" /\ executed' = executed \cup {cur}
        /\ outcome' \in {"pending", "succeeded", "failed"}
        /\ UNCHANGED <<cur, consumerVars>>
    BY <1>0, <1>4, ToolFields DEF RunTool
  <2> QED
    BY <2>1
<1>5. CASE ReceiveChunk \/ ReceiveUsage
  BY <1>5 DEF ReceiveChunk, ReceiveUsage
<1>6. CASE ReceiveCall
  <2>1. /\ cons = "looping" /\ prod \in {"announce", "report"}
        /\ calls' = [calls EXCEPT ![IdOf[cur]] = [call |-> cur, status |-> outcome]]
        /\ prod' = IF prod = "announce" THEN "run" ELSE "reading"
        /\ UNCHANGED <<executed, cur, outcome, cons>>
    BY <1>6 DEF ReceiveCall
  <2>2. /\ IdOf[cur] \in Ids /\ outcome # "none"
        /\ calls'[IdOf[cur]] = [call |-> cur, status |-> outcome]
        /\ \A i \in Ids \ {IdOf[cur]} : calls'[i] = calls[i]
    BY <1>0, <2>1 DEF TypeOK, TextInv, Ids
  <2>3. executed \subseteq Calls /\ \A c \in executed : IdOf[c] \in Ids
    BY <1>0 DEF TypeOK, Ids
  <2>4. calls'[IdOf[cur]] # NoRecord /\ calls'[IdOf[cur]].status = outcome
    BY <2>2 DEF NoRecord
  <2> QED
    BY <2>1, <2>2, <2>3, <2>4
<1>7. CASE ReceiveError
  BY <1>0, <1>7 DEF ReceiveError, ChannelInv
<1>8. CASE (\E ch \in Channels : SeeClosed(ch)) \/ ContextEnds
  BY <1>8 DEF SeeClosed, ContextEnds
<1>9. CASE Finish \/ Pause
  <2>1. Finish => prod = "done"
    BY <1>0 DEF Finish, ChannelInv, Channels
  <2> QED
    BY <1>9, <2>1 DEF Finish, Pause
<1>10. CASE UNCHANGED vars
  BY <1>10 DEF vars
<1> QED
  BY <1>1, <1>2, <1>3, <1>4, <1>5, <1>6, <1>7, <1>8, <1>9, <1>10
  DEF Next, Produce, Consume

LEMMA LatestStep ==
  ASSUME IInv, LatestInv, [Next]_vars
  PROVE  LatestInv'
<1> USE DEF LatestInv, consumerVars, producerVars
<1>0. TypeOK /\ TextInv
  BY DEF IInv
<1>1. CASE \/ StartTools \/ Request \/ LimitExceeded \/ StreamBreaks \/ ReadText
           \/ ReadUsage \/ EndRound \/ EndToolRound \/ Close \/ RunTool
  BY <1>1 DEF StartTools, Request, LimitExceeded, StreamBreaks, Fail, ReadText,
              ReadUsage, EndRound, EndToolRound, Close, RunTool
<1>2. ASSUME NEW c \in Calls, ReadUnusableCall(c) PROVE LatestInv'
  BY <1>2 DEF ReadUnusableCall, Issue, Begins
<1>3. ASSUME NEW c \in Calls, ReadCall(c) PROVE LatestInv'
  <2>1. /\ prod = "reading" /\ prod' \in {"announce", "report"} /\ cur' = c
        /\ latest' = [latest EXCEPT ![IdOf[c]] = c]
        /\ UNCHANGED calls
    BY <1>3 DEF ReadCall, Issue, Begins
  <2>2. latest'[IdOf[c]] = c /\ \A i \in Ids \ {IdOf[c]} : latest'[i] = latest[i]
    BY <1>0, <2>1 DEF TypeOK, Ids
  <2> QED
    BY <2>1, <2>2
<1>4. CASE ReceiveChunk \/ ReceiveUsage \/ ReceiveError
  BY <1>4 DEF ReceiveChunk, ReceiveUsage, ReceiveError
<1>5. CASE ReceiveCall
  <2>1. /\ calls' = [calls EXCEPT ![IdOf[cur]] = [call |-> cur, status |-> outcome]]
        /\ prod' \in {"run", "reading"} /\ UNCHANGED latest
        /\ IdOf[cur] \in Ids
    BY <1>0, <1>5 DEF ReceiveCall, TextInv, Ids
  <2>2. /\ calls'[IdOf[cur]].call = cur
        /\ \A i \in Ids \ {IdOf[cur]} : calls'[i] = calls[i]
    BY <1>0, <2>1 DEF TypeOK
  <2>3. latest[IdOf[cur]] = cur /\ UNCHANGED cur
    BY <1>5 DEF ReceiveCall
  <2> QED
    BY <2>1, <2>2, <2>3
<1>6. CASE (\E ch \in Channels : SeeClosed(ch)) \/ ContextEnds \/ Finish \/ Pause
  BY <1>6 DEF SeeClosed, ContextEnds, Finish, Pause
<1>7. CASE UNCHANGED vars
  BY <1>7 DEF vars
<1> QED
  BY <1>1, <1>2, <1>3, <1>4, <1>5, <1>6, <1>7 DEF Next, Produce, Consume

\* However many calls a round brings and whatever ids they come under, repeated
\* and empty ones too: the final message has every tool that was run, but for
\* those whose id a later call had as well.
THEOREM Accounted == Spec => []CallsAccountedFor
<1>1. Init => AccountInv /\ LatestInv
  BY DEF Init, AccountInv, LatestInv, NoRecord
<1>2. AccountInv /\ LatestInv /\ IInv => CallsAccountedFor
  <2> SUFFICES ASSUME AccountInv, LatestInv, IInv PROVE CallsAccountedFor
    OBVIOUS
  <2>1. cons = "finished" => prod = "done"
    BY DEF IInv, ChannelInv, Channels
  <2>2. /\ \A c \in executed : c \in Calls /\ IdOf[c] \in Ids
        /\ NoCall \notin Calls
    BY ConstantsAssumption DEF IInv, TypeOK, Ids, ConstantsAssumption
  <2> QED
    BY <2>1, <2>2 DEF AccountInv, LatestInv, CallsAccountedFor
<1> QED
  BY <1>1, <1>2, AccountStep, LatestStep, Inductive, PTL DEF Spec

-----------------------------------------------------------------------------
(***************************************************************************)
(* One call in a round, every id once: the provider as the completion API  *)
(* of a single-call model behaves.                                         *)
(***************************************************************************)
Serial == ~ParallelCalls /\ ~RepeatedIds

LEMMA RoundStep ==
  ASSUME Serial, IInv, RoundInv, [Next]_vars
  PROVE  RoundInv'
<1> USE ConstantsAssumption DEF RoundInv, InRound, InCall, consumerVars, producerVars
<1>0. TypeOK /\ TextInv
  BY DEF IInv
<1>1. CASE StartTools \/ LimitExceeded \/ StreamBreaks \/ EndRound \/ Close
  BY <1>1 DEF StartTools, LimitExceeded, StreamBreaks, Fail, EndRound, Close
<1>2. CASE Request
  <2>1. round' = NoRound /\ prod' = "reading"
        /\ UNCHANGED <<issued, processed, cache, executed>>
    BY <1>2 DEF Request
  <2> QED
    BY <1>0, <2>1, RoundFields
<1>3. CASE ReadText \/ ReadUsage \/ ReceiveChunk \/ ReceiveUsage
  BY <1>3 DEF ReadText, ReadUsage, ReceiveChunk, ReceiveUsage
<1>4. ASSUME NEW c \in Calls, Issue(c)
      PROVE  /\ ~round.used /\ round.status = "none" /\ ~round.stop
             /\ IdOf[c] \notin issued
             /\ issued' = issued \cup ({IdOf[c]} \ {NoId})
  BY <1>4 DEF Issue, Begins, Serial
<1>5. ASSUME NEW c \in Calls, ReadUnusableCall(c) PROVE RoundInv'
  <2>1. prod' = "reading" /\ UNCHANGED <<processed, cache, executed>>
    BY <1>5 DEF ReadUnusableCall, Issue, Begins
  <2>2. /\ ~round.used /\ round.status = "none" /\ ~round.stop
        /\ IdOf[c] \notin issued /\ issued' = issued \cup ({IdOf[c]} \ {NoId})
    BY <1>4, <1>5 DEF ReadUnusableCall
  <2>3. c # NoCall
    BY DEF ConstantsAssumption
  <2> QED
    BY <1>0, <1>5, <2>1, <2>2, <2>3, UnusableFields
<1>6. ASSUME NEW c \in Calls, ReadCall(c) PROVE RoundInv'
  <2>1. cur' = c /\ UNCHANGED <<processed, cache, executed>>
    BY <1>6 DEF ReadCall, Issue, Begins
  <2>2. /\ ~round.used /\ round.status = "none" /\ ~round.stop
        /\ IdOf[c] \notin issued /\ issued' = issued \cup ({IdOf[c]} \ {NoId})
    BY <1>4, <1>6 DEF ReadCall
  <2>4. c # NoCall
    BY DEF ConstantsAssumption
  <2>3. /\ round'.used = TRUE /\ round'.call = c /\ round'.stop = round.stop
        /\ \/ prod' = "report"
           \/ /\ cache[SignatureOf[c]] = "none" /\ prod' = "announce"
              /\ round'.status = round.status
    BY <1>0, <1>6, CallFields
  <2> QED
    BY <2>1, <2>2, <2>3, <2>4
<1>7. CASE RunTool
  <2>1. /\ prod = "run" /\ prod' = "report" /\ executed' = executed \cup {cur}
        /\ cache' = [cache EXCEPT ![SignatureOf[cur]] = outcome']
        /\ UNCHANGED <<processed, issued, cur>>
    BY <1>7 DEF RunTool
  <2>2. \A c \in executed' : cache'[SignatureOf[c]] # "none"
    <3>1. outcome' # "none" /\ executed' \subseteq Calls
      BY <1>0, <1>7, <2>1, ToolFields DEF TypeOK, TextInv
    <3>2. \A c \in Calls : SignatureOf[c] \in Signatures
      BY DEF Signatures
    <3> QED
      BY <1>0, <2>1, <3>1, <3>2 DEF TypeOK
  <2> QED
    BY <1>0, <1>7, <2>1, <2>2, ToolFields
<1>8. CASE EndToolRound
  <2>1. /\ processed' = processed \cup ({IdOf[round.call]} \ {NoId})
        /\ prod = "reading" /\ round.used /\ prod' \in {"closing", "request"}
        /\ UNCHANGED <<issued, cache, executed>>
    BY <1>8 DEF EndToolRound, RoundIds
  <2> QED
    BY <2>1
<1>9. CASE ReceiveCall
  <2>1. /\ prod \in {"announce", "report"}
        /\ prod' = IF prod = "announce" THEN "run" ELSE "reading"
        /\ UNCHANGED <<issued, processed, cache, executed, round, cur>>
    BY <1>9 DEF ReceiveCall
  <2> QED
    BY <2>1
<1>10. CASE UNCHANGED producerVars \/ ReceiveError
  BY <1>10 DEF ReceiveError
<1> QED
  BY <1>1, <1>2, <1>3, <1>5, <1>6, <1>7, <1>8, <1>9, <1>10
  DEF Next, Produce, Consume, SeeClosed, Finish, Pause, ContextEnds, vars

\* One more call, one more element at most.
LEMMA ExecutedFinite ==
  ASSUME TypeOK
  PROVE  /\ IsFiniteSet(executed) /\ IsFiniteSet(FailedCalls)
         /\ Cardinality(executed) \in Nat /\ Cardinality(FailedCalls) \in Nat
<1>1. IsFiniteSet(executed)
  BY ConstantsAssumption, FS_Subset DEF TypeOK
<1>2. IsFiniteSet(FailedCalls)
  BY <1>1, FS_Subset DEF FailedCalls
<1> QED
  BY <1>1, <1>2, FS_CardinalityType

LEMMA ExecutedGrows ==
  ASSUME TypeOK, RoundInv, TextInv, RunTool
  PROVE  /\ Cardinality(executed') \in Nat /\ Cardinality(FailedCalls') \in Nat
         /\ Cardinality(executed') <= Cardinality(executed) + 1
         /\ Cardinality(FailedCalls') <=
              IF outcome' = "failed" THEN Cardinality(FailedCalls) + 1
              ELSE Cardinality(FailedCalls)
<1>1. /\ cur \in Calls /\ executed' = executed \cup {cur}
      /\ cache' = [cache EXCEPT ![SignatureOf[cur]] = outcome']
      /\ cache[SignatureOf[cur]] = "none"
      /\ \A c \in executed : cache[SignatureOf[c]] # "none"
  BY DEF RunTool, TextInv, RoundInv
<1>2. \A c \in Calls : SignatureOf[c] \in Signatures
  BY DEF Signatures
<1>3. \A c \in executed : cache'[SignatureOf[c]] = cache[SignatureOf[c]]
  BY <1>1, <1>2 DEF TypeOK
<1>4. cache'[SignatureOf[cur]] = outcome'
  BY <1>1, <1>2 DEF TypeOK
<1>5. FailedCalls' = IF outcome' = "failed" THEN FailedCalls \cup {cur} ELSE FailedCalls
  BY <1>1, <1>3, <1>4 DEF FailedCalls
<1>6. /\ Cardinality(executed \cup {cur}) \in Nat
      /\ Cardinality(FailedCalls \cup {cur}) \in Nat
      /\ Cardinality(executed \cup {cur}) <= Cardinality(executed) + 1
      /\ Cardinality(FailedCalls \cup {cur}) <= Cardinality(FailedCalls) + 1
  <2>1. ASSUME NEW S, IsFiniteSet(S)
        PROVE  /\ Cardinality(S \cup {cur}) \in Nat
               /\ Cardinality(S \cup {cur}) <= Cardinality(S) + 1
    <3>1. Cardinality(S) \in Nat
      BY <2>1, FS_CardinalityType
    <3>2. Cardinality(S \cup {cur}) =
            IF cur \in S THEN Cardinality(S) ELSE Cardinality(S) + 1
      BY <2>1, FS_AddElement
    <3> QED
      BY <3>1, <3>2
  <2> QED
    BY <2>1, ExecutedFinite
<1> QED
  BY <1>1, <1>5, <1>6, ExecutedFinite
LEMMA LimitStep ==
  ASSUME Serial, IInv, RoundInv, LimitInv, [Next]_vars
  PROVE  LimitInv'
<1> DEFINE E == Cardinality(executed)
<1> DEFINE F == Cardinality(FailedCalls)
<1>0. /\ TypeOK /\ TextInv /\ CountInv
      /\ total \in Nat /\ failed \in Nat /\ E \in Nat /\ F \in Nat
      /\ MaxTotal \in Nat /\ MaxFailed \in Nat
  BY ConstantsAssumption, ExecutedFinite DEF IInv, TypeOK
<1>f. F <= MaxFailed /\ E <= MaxTotal
  BY DEF LimitInv, ToolCallsWithinLimit, FailedCalls
<1>s. ASSUME UNCHANGED <<executed, cache>> PROVE E' = E /\ F' = F
  BY <1>s DEF FailedCalls
<1>l. ASSUME E' <= MaxTotal, F' <= MaxFailed,
             prod' \in {"starting", "request", "announce", "run"} => E' <= total',
             prod' \in InRound => E' <= IF round'.used THEN total' + 1 ELSE total',
             prod' \in {"starting", "request"} => F' <= failed',
             prod' \in InRound =>
               F' <= IF round'.status = "failed" THEN failed' + 1 ELSE failed'
      PROVE  LimitInv'
  BY <1>l DEF LimitInv, ToolCallsWithinLimit, FailedCalls
<1>r. /\ prod \in {"starting", "request", "announce", "run"} => E <= total
      /\ prod \in InRound => E <= IF round.used THEN total + 1 ELSE total
      /\ prod \in {"starting", "request"} => F <= failed
      /\ prod \in InRound => F <= IF round.status = "failed" THEN failed + 1 ELSE failed
  BY DEF LimitInv
<1> HIDE DEF E, F
<1> USE DEF InRound, InCall, consumerVars, producerVars
<1>1. CASE StartTools \/ LimitExceeded \/ StreamBreaks \/ EndRound \/ Close
  <2>1. /\ UNCHANGED <<executed, cache, total, failed>>
        /\ (prod = "starting" /\ prod' = "request") \/ prod' \in {"closing", "done"}
    BY <1>1 DEF StartTools, LimitExceeded, StreamBreaks, Fail, EndRound, Close
  <2> QED
    BY <1>f, <1>s, <1>l, <1>r, <2>1
<1>2. CASE Request
  <2>1. /\ UNCHANGED <<executed, cache, total, failed>>
        /\ prod = "request" /\ prod' = "reading" /\ ~round'.used /\ round'.status = "none"
    BY <1>0, <1>2, RoundFields DEF Request
  <2> QED
    BY <1>f, <1>s, <1>l, <1>r, <2>1
<1>3. CASE ReadText \/ ReadUsage \/ ReceiveChunk \/ ReceiveUsage
  <2>1. /\ UNCHANGED <<executed, cache, total, failed, round>>
        /\ prod \in {"reading", "chunk", "usage"} /\ prod' \in {"reading", "chunk", "usage"}
    BY <1>3 DEF ReadText, ReadUsage, ReceiveChunk, ReceiveUsage
  <2> QED
    BY <1>f, <1>s, <1>l, <1>r, <2>1
<1>4. ASSUME NEW c \in Calls, ReadUnusableCall(c) PROVE LimitInv'
  <2>1. /\ UNCHANGED <<executed, cache, total, failed>>
        /\ prod = "reading" /\ prod' = "reading" /\ ~round.used
        /\ round'.used /\ round'.status = round.status
    <3>1. /\ UNCHANGED <<executed, cache, total, failed>>
          /\ prod = "reading" /\ prod' = "reading" /\ ~round.used
      BY <1>4 DEF ReadUnusableCall, Issue, Begins, Serial
    <3> QED
      BY <1>0, <1>4, <3>1, UnusableFields
  <2> QED
    BY <1>0, <1>f, <1>s, <1>l, <1>r, <2>1
<1>5. ASSUME NEW c \in Calls, ReadCall(c) PROVE LimitInv'
  <2>1. /\ UNCHANGED <<executed, cache, total, failed>>
        /\ prod = "reading" /\ prod' \in {"announce", "report"} /\ ~round.used
    BY <1>5 DEF ReadCall, Issue, Begins, Serial
  <2>2. /\ round.status = "none" /\ round'.used
        /\ round'.status = "failed" \/ round'.status \in {"none", "succeeded"}
    BY <1>0, <1>5, <2>1, CallFields DEF RoundInv
  <2> QED
    BY <1>0, <1>f, <1>s, <1>l, <1>r, <2>1, <2>2
<1>6. CASE RunTool
  <2>1. prod = "run" /\ prod' = "report" /\ UNCHANGED <<total, failed>>
    BY <1>6 DEF RunTool
  <2>2. /\ total < MaxTotal /\ failed < MaxFailed
        /\ round.used /\ round.status = "none"
    BY <1>0, <2>1 DEF CountInv, RoundInv
  <2>3. round'.used /\ round'.status = outcome'
    BY <1>0, <1>6, <2>2, ToolFields
  <2>4. /\ E' \in Nat /\ F' \in Nat /\ E' <= E + 1
        /\ F' <= IF outcome' = "failed" THEN F + 1 ELSE F
    BY <1>0, <1>6, ExecutedGrows DEF E, F
  <2>5. E <= total /\ F <= failed
    BY <1>r, <2>1, <2>2
  <2>6. /\ E' <= total + 1 /\ E' <= MaxTotal /\ F' <= MaxFailed
        /\ F' <= IF outcome' = "failed" THEN failed + 1 ELSE failed
    BY <1>0, <2>2, <2>4, <2>5
  <2> QED
    BY <1>l, <2>1, <2>3, <2>6
<1>7. CASE EndToolRound
  <2>1. /\ UNCHANGED <<executed, cache>> /\ prod = "reading" /\ round.used
        /\ ~Seen
        /\ prod' = IF round.stop THEN "closing" ELSE "request"
        /\ ~round.stop => /\ total' = total + 1
                          /\ failed' = IF round.status = "failed" THEN failed + 1 ELSE failed
    BY <1>7 DEF EndToolRound, RoundInv, Seen, RoundIds
  <2> QED
    BY <1>f, <1>s, <1>l, <1>r, <2>1
<1>8. CASE ReceiveCall
  <2>1. /\ UNCHANGED <<executed, cache, total, failed, round>>
        /\ prod \in {"announce", "report"}
        /\ prod' = IF prod = "announce" THEN "run" ELSE "reading"
    BY <1>8 DEF ReceiveCall
  <2> QED
    BY <1>f, <1>s, <1>l, <1>r, <2>1
<1>9. CASE UNCHANGED producerVars \/ ReceiveError
  <2>1. UNCHANGED <<executed, cache, total, failed, round, prod>>
    BY <1>9 DEF ReceiveError
  <2> QED
    BY <1>f, <1>s, <1>l, <1>r, <2>1
<1> QED
  BY <1>1, <1>2, <1>3, <1>4, <1>5, <1>6, <1>7, <1>8, <1>9
  DEF Next, Produce, Consume, SeeClosed, Finish, Pause, ContextEnds, vars

LEMMA StopStep ==
  ASSUME Serial, IInv, AccountInv, RoundInv, StopInv, [Next]_vars
  PROVE  StopInv'
<1> USE DEF StopInv, Stopped, InRound, InCall, consumerVars, producerVars
<1>0. TypeOK /\ TextInv /\ ChannelInv
  BY DEF IInv
<1>1. CASE StartTools \/ ReadText \/ ReadUsage \/ ReceiveChunk \/ ReceiveUsage
  BY <1>1 DEF StartTools, ReadText, ReadUsage, ReceiveChunk, ReceiveUsage
<1>2. CASE Request
  <2>1. /\ prod = "request" /\ prod' = "reading" /\ ~round'.stop
        /\ UNCHANGED <<executed, completed>>
    BY <1>0, <1>2, RoundFields DEF Request
  <2> QED
    BY <2>1
<1>3. CASE LimitExceeded \/ StreamBreaks
  BY <1>0, <1>3 DEF LimitExceeded, StreamBreaks, Fail
<1>4. CASE EndRound
  <2>1. /\ prod = "reading" /\ ~round.used /\ ~round.stop
        /\ prod' = "closing" /\ completed' = TRUE /\ UNCHANGED <<executed, err, cons>>
    BY <1>4 DEF EndRound, RoundInv
  <2>2. ~err
    BY <1>0, <2>1 DEF ChannelInv
  <2>3. cons # "failed"
    BY <2>1 DEF AccountInv
  <2> QED
    BY <2>1, <2>2, <2>3
<1>5. ASSUME NEW c \in Calls, ReadUnusableCall(c) PROVE StopInv'
  <2>1. prod = "reading" /\ prod' = "reading" /\ UNCHANGED <<executed, completed, err, cons>>
    BY <1>5 DEF ReadUnusableCall, Issue, Begins
  <2>2. round'.stop = round.stop
    BY <1>0, <1>5, UnusableFields
  <2>3. Stopped' = Stopped
    BY <2>1
  <2> HIDE DEF Stopped
  <2> QED
    BY <2>1, <2>2, <2>3
<1>6. ASSUME NEW c \in Calls, ReadCall(c) PROVE StopInv'
  <2>1. /\ prod = "reading" /\ prod' \in {"announce", "report"}
        /\ UNCHANGED <<executed, completed>>
    BY <1>6 DEF ReadCall, Issue, Begins
  <2>2. round'.stop = round.stop
    BY <1>0, <1>6, CallFields
  <2>3. Stopped' = Stopped
    BY <2>1
  <2> HIDE DEF Stopped
  <2> QED
    BY <2>1, <2>2, <2>3
<1>7. CASE RunTool
  <2>1. /\ prod = "run" /\ prod' = "report" /\ executed' = executed \cup {cur}
        /\ round'.stop = (round.stop \/ cur \in Stopping)
        /\ UNCHANGED completed
    BY <1>0, <1>7, ToolFields DEF RunTool
  <2>2. ~round.stop /\ ~Stopped /\ ~completed
    BY <2>1 DEF RoundInv
  <2>3. Stopped' <=> cur \in Stopping
    BY <2>1, <2>2
  <2>4. round'.stop <=> cur \in Stopping
    BY <2>1, <2>2
  <2> HIDE DEF Stopped
  <2> QED
    BY <2>1, <2>2, <2>3, <2>4
<1>8. CASE EndToolRound
  <2>1. /\ prod = "reading" /\ ~Seen
        /\ prod' = IF round.stop THEN "closing" ELSE "request"
        /\ UNCHANGED <<executed, completed, round, err, cons>>
    BY <1>8 DEF EndToolRound, RoundInv, Seen, RoundIds
  <2> QED
    BY <2>1
<1>9. CASE Close
  BY <1>9 DEF Close
<1>10. CASE ReceiveCall
  <2>1. /\ prod \in {"announce", "report"} /\ prod' \in {"run", "reading"}
        /\ UNCHANGED <<executed, completed, round>>
    BY <1>10 DEF ReceiveCall
  <2> QED
    BY <2>1
<1>11. CASE ReceiveError
  BY <1>0, <1>11 DEF ReceiveError, ChannelInv
<1>12. CASE /\ UNCHANGED producerVars
            /\ cons' = cons \/ (cons = "looping" /\ cons' # "failed")
  BY <1>12
<1> QED
  BY <1>1, <1>2, <1>3, <1>4, <1>5, <1>6, <1>7, <1>8, <1>9, <1>10, <1>11, <1>12
  DEF Next, Produce, Consume, SeeClosed, Finish, Pause, ContextEnds, vars

\* With one call in a round and fresh ids the counters of streamChatCompletion
\* keep to what is announced and run, in every state: SInv is inductive.
THEOREM SerialInductive == ASSUME Serial PROVE Spec => []SInv
<1>1. Init => SInv
  <2> SUFFICES ASSUME Init PROVE SInv
    OBVIOUS
  <2>1. IInv
    BY InitInv
  <2>2. AccountInv /\ RoundInv /\ StopInv
    BY DEF Init, NoRecord, AccountInv, RoundInv, StopInv, Stopped, InRound, InCall
  <2>3. LimitInv
    <3>1. executed = {} /\ FailedCalls = {}
      BY DEF Init, FailedCalls
    <3>2. {c \in executed : cache[SignatureOf[c]] = "failed"} = {}
      BY <3>1
    <3> QED
      BY <3>1, <3>2, FS_EmptySet, ConstantsAssumption
      DEF Init, LimitInv, ToolCallsWithinLimit, InRound, InCall
  <2> QED
    BY <2>1, <2>2, <2>3 DEF SInv
<1>2. SInv /\ [Next]_vars => SInv'
  BY NextInv, AccountStep, RoundStep, LimitStep, StopStep DEF SInv
<1> QED
  BY <1>1, <1>2, PTL DEF Spec

\* The rounds of a reply keep to the limits the reply was started with, and its
\* completion tools run exactly when it ends by itself.
THEOREM Rounds == ASSUME Serial PROVE Spec => []RoundsKept
<1>1. SInv => RoundsKept
  <2> SUFFICES ASSUME SInv PROVE RoundsKept
    OBVIOUS
  <2>1. TypeOK /\ ToolCallsWithinLimit
    BY DEF SInv, IInv, LimitInv
  <2>2. cons = "finished" => prod = "done" /\ ~err
    BY DEF SInv, IInv, ChannelInv, Channels
  <2>3. completed \in BOOLEAN
    BY <2>1 DEF TypeOK
  <2>4. CompletesWhenAnswered
    BY <2>2, <2>3 DEF SInv, StopInv, Stopped, CompletesWhenAnswered
  <2> QED
    BY <2>1, <2>4 DEF RoundsKept
<1> QED
  BY <1>1, SerialInductive, PTL

\* Once a call that has to be confirmed was run, the reply runs no other tool.
THEOREM StopStops == ASSUME Serial PROVE Spec => NothingAfterStop
<1>1. SInv /\ [Next]_vars => [executed \cap Stopping # {} => executed' = executed]_vars
  <2> SUFFICES ASSUME SInv, [Next]_vars, executed \cap Stopping # {}
               PROVE  executed' = executed
    OBVIOUS
  <2>1. ~RunTool
    BY DEF SInv, RoundInv, StopInv, Stopped, RunTool
  <2> QED
    BY <2>1 DEF Next, Produce, Consume, StartTools, Request, LimitExceeded,
         StreamBreaks, ReadText, ReadUsage, ReadUnusableCall, ReadCall, EndRound,
         EndToolRound, Close, ReceiveChunk, ReceiveUsage, ReceiveCall,
         ReceiveError, SeeClosed, Finish, Pause, ContextEnds, vars, producerVars
<1>2. []SInv /\ [][Next]_vars => NothingAfterStop
  BY <1>1, PTL DEF NothingAfterStop
<1> QED
  BY <1>2, SerialInductive, PTL DEF Spec

-----------------------------------------------------------------------------
(***************************************************************************)
(* For any number of calls and restarts, a tool is run at most once for a  *)
(* call, and a call fails for a reason of its own.                         *)
(*                                                                         *)
(* The inductive invariant adds two facts: until a call has ended in its   *)
(* first or second try its tool has not run, and from its initialization   *)
(* on the server knows its session, unless it was restarted.               *)
(***************************************************************************)
Stages == {"first", "initialize", "notify", "second", "ok", "error"}

Shape ==
  /\ server \in {"open", "named", "unnamed"}
  /\ sessions \subseteq Callers
  /\ restarts \in Nat
  /\ at \in [Callers -> Stages]
  /\ session \in [Callers -> Callers \cup {NoSession}]
  /\ \A c \in Callers : session[c] \in {c, NoSession}
  /\ runs \in [Callers -> Nat]
  /\ broken \subseteq Callers

Runs(c) ==
  /\ at[c] \in {"first", "initialize", "notify", "second"} => runs[c] = 0
  /\ at[c] = "ok" => runs[c] = 1
  /\ runs[c] <= 1

Known(c) ==
  at[c] \in {"notify", "second"} /\ restarts = 0 =>
    /\ c \in sessions
    /\ server = "named" => session[c] = c

Reason(c) == at[c] = "error" => c \in broken \/ restarts > 0

McpInv ==
  /\ Shape
  /\ \A c \in Callers : Runs(c) /\ Known(c) /\ Reason(c)

LEMMA InvInitially == McpInit => McpInv
BY DEF McpInit, McpInv, Shape, Stages, Runs, Known, Reason

\* A request for a tool.
LEMMA InvCallTool ==
  ASSUME McpInv, NEW c \in Callers, CallTool(c)
  PROVE  McpInv'
<1>1. Shape /\ Runs(c) /\ Known(c) /\ Reason(c)
  BY DEF McpInv
<1>2. /\ UNCHANGED <<server, sessions, restarts, session>>
      /\ at[c] \in {"first", "second"}
  BY DEF CallTool
<1>3. CASE Run(c)
  <2>1. \/ at' = [at EXCEPT ![c] = "ok"]
        \/ at' = [at EXCEPT ![c] = "error"] /\ broken' = broken \cup {c}
    BY <1>3 DEF Run, Goes, Lose
  <2>2. broken' \in {broken, broken \cup {c}} /\ runs' = [runs EXCEPT ![c] = @ + 1]
    BY <1>3 DEF Run, Lose
  <2>3. Shape'
    BY <1>1, <1>2, <2>1, <2>2 DEF Shape, Stages
  <2>4. ASSUME NEW d \in Callers PROVE (Runs(d) /\ Known(d) /\ Reason(d))'
    BY <1>1, <1>2, <2>1, <2>2 DEF McpInv, Shape, Stages, Runs, Known, Reason
  <2> QED BY <2>3, <2>4 DEF McpInv
<1>4. CASE Refused(c)
  <2>1. UNCHANGED <<runs, broken>>
    BY <1>4 DEF Refused
  <2>2. \/ at' = [at EXCEPT ![c] = "initialize"] /\ at[c] = "first"
        \/ at' = [at EXCEPT ![c] = "error"] /\ at[c] = "second"
    BY <1>2, <1>4 DEF Refused, Goes
  <2>3. at[c] = "second" => restarts > 0
    <3> SUFFICES ASSUME at[c] = "second", restarts = 0 PROVE FALSE
      BY <1>1 DEF Shape
    <3>1. c \in sessions /\ (server = "named" => session[c] = c)
      BY <1>1 DEF Known
    <3>2. ~Accepts(c)
      BY <1>4 DEF Refused
    <3>3. CASE server = "open"
      BY <3>2, <3>3 DEF Accepts
    <3>4. CASE server = "named"
      BY <3>1, <3>2, <3>4 DEF Accepts
    <3>5. CASE server = "unnamed"
      BY <3>1, <3>2, <3>5 DEF Accepts
    <3> QED BY <1>1, <3>3, <3>4, <3>5 DEF Shape
  <2>4. Shape'
    BY <1>1, <1>2, <2>1, <2>2 DEF Shape, Stages
  <2>5. ASSUME NEW d \in Callers PROVE (Runs(d) /\ Known(d) /\ Reason(d))'
    BY <1>1, <1>2, <2>1, <2>2, <2>3 DEF McpInv, Shape, Stages, Runs, Known, Reason
  <2> QED BY <2>4, <2>5 DEF McpInv
<1>5. CASE Lose(c) /\ UNCHANGED runs
  <2>1. at' = [at EXCEPT ![c] = "error"] /\ broken' = broken \cup {c}
    BY <1>5 DEF Lose, Goes
  <2>2. Shape'
    BY <1>1, <1>2, <1>5, <2>1 DEF Shape, Stages
  <2>3. ASSUME NEW d \in Callers PROVE (Runs(d) /\ Known(d) /\ Reason(d))'
    BY <1>1, <1>2, <1>5, <2>1 DEF McpInv, Shape, Stages, Runs, Known, Reason
  <2> QED BY <2>2, <2>3 DEF McpInv
<1> QED BY <1>3, <1>4, <1>5 DEF CallTool

\* The session of a call: only its own entry of session changes.
LEMMA InvInitialize ==
  ASSUME McpAssumption, McpInv, NEW c \in Callers, Initialize(c)
  PROVE  McpInv'
<1>1. Shape /\ Runs(c)
  BY DEF McpInv
<1>2. at[c] = "initialize" /\ UNCHANGED <<server, restarts, runs>>
  BY DEF Initialize
<1>3. CASE /\ sessions' = sessions \cup {c}
           /\ session' = [session EXCEPT ![c] = IF server = "named" THEN c ELSE @]
           /\ Goes(c, "notify") /\ UNCHANGED broken
  <2>1. Shape'
    BY <1>1, <1>2, <1>3 DEF Shape, Stages, Goes
  <2>2. ASSUME NEW d \in Callers PROVE (Runs(d) /\ Known(d) /\ Reason(d))'
    BY <1>1, <1>2, <1>3 DEF McpInv, Shape, Stages, Runs, Known, Reason, Goes
  <2> QED BY <2>1, <2>2 DEF McpInv
<1>4. CASE /\ sessions' \in {sessions, sessions \cup {c}} /\ Lose(c)
           /\ UNCHANGED session
  <2>1. Shape'
    BY <1>1, <1>2, <1>4 DEF Shape, Stages, Lose, Goes
  <2>2. ASSUME NEW d \in Callers PROVE (Runs(d) /\ Known(d) /\ Reason(d))'
    BY <1>1, <1>2, <1>4 DEF McpInv, Shape, Stages, Runs, Known, Reason, Lose, Goes
  <2> QED BY <2>1, <2>2 DEF McpInv
<1> QED BY <1>3, <1>4 DEF Initialize

LEMMA InvNotify ==
  ASSUME McpInv, NEW c \in Callers, Notify(c)
  PROVE  McpInv'
<1>1. Shape /\ Runs(c) /\ Known(c)
  BY DEF McpInv
<1>2. at[c] = "notify" /\ UNCHANGED <<server, sessions, restarts, session, runs>>
  BY DEF Notify
<1>3. \/ at' = [at EXCEPT ![c] = "second"] /\ broken' = broken
      \/ at' = [at EXCEPT ![c] = "error"] /\ broken' = broken \cup {c}
  BY DEF Notify, Lose, Goes
<1>4. Shape'
  BY <1>1, <1>2, <1>3 DEF Shape, Stages
<1>5. ASSUME NEW d \in Callers PROVE (Runs(d) /\ Known(d) /\ Reason(d))'
  BY <1>1, <1>2, <1>3 DEF McpInv, Shape, Stages, Runs, Known, Reason
<1> QED BY <1>4, <1>5 DEF McpInv

LEMMA InvRestart ==
  ASSUME McpInv, RestartServer
  PROVE  McpInv'
BY DEF RestartServer, McpInv, Shape, Stages, Runs, Known, Reason

LEMMA InvStep == McpAssumption /\ McpInv /\ [McpNext]_mcpVars => McpInv'
<1> SUFFICES ASSUME McpAssumption, McpInv, [McpNext]_mcpVars PROVE McpInv'
  OBVIOUS
<1>1. CASE \E c \in Callers : CallTool(c) \/ Initialize(c) \/ Notify(c)
  BY <1>1, InvCallTool, InvInitialize, InvNotify
<1>2. CASE RestartServer
  BY <1>2, InvRestart
<1>3. CASE UNCHANGED mcpVars
  BY <1>3 DEF mcpVars, McpInv, Shape, Runs, Known, Reason
<1> QED BY <1>1, <1>2, <1>3 DEF McpNext

LEMMA InvHolds == McpSpec => []McpInv
<1>1. McpInit => McpInv
  BY InvInitially
<1>2. McpInv /\ [McpNext]_mcpVars => McpInv'
  BY InvStep, McpAssumption
<1> QED BY <1>1, <1>2, PTL DEF McpSpec

\* No call runs its tool twice, and one that is answered has run it
\* (mcpCall: only what the server refused is tried again).
THEOREM RunOnce == McpSpec => []RunAtMostOnce
<1>1. McpInv => RunAtMostOnce
  BY DEF McpInv, Runs, RunAtMostOnce
<1> QED BY <1>1, InvHolds, PTL

\* A call fails only if something of its own was lost or the server restarted
\* (mcpInitializeSession: every call has a session of its own).
THEOREM FailureHasReason == McpSpec => []FailsForAReason
<1>1. McpInv => FailsForAReason
  BY DEF McpInv, Reason, FailsForAReason
<1> QED BY <1>1, InvHolds, PTL

\* Every variable keeps its type.
THEOREM McpTypeCorrect == McpSpec => []McpTypeOK
<1>1. McpInv => McpTypeOK
  BY DEF McpInv, Shape, Stages, McpTypeOK
<1> QED BY <1>1, InvHolds, PTL

\* The three together: calls of one server do not disturb each other (mcpCall).
THEOREM CallsApart == McpSpec => []CallsKeptApart
BY McpTypeCorrect, RunOnce, FailureHasReason, PTL DEF CallsKeptApart

-----------------------------------------------------------------------------
(***************************************************************************)
(* For any configuration and any tools: a tool runs with the data that are *)
(* its own, and the marked ones run once, in the order of the              *)
(* configuration.                                                          *)
(*                                                                         *)
(* What ran in the order of the configuration is a chain of two            *)
(* one-to-one maps that keep order: from the entries to the list of marked *)
(* ones, as they are registered, and from that list to what ran, as its    *)
(* turn comes.                                                             *)
(***************************************************************************)
\* An order-preserving map from the places D of s onto the places E of t,
\* which have the same elements.
Matches(D, s, E, t) ==
  \E f \in [D -> E] :
    /\ \A i, j \in D : i < j => f[i] < f[j]
    /\ \A i \in D : t[f[i]] = s[i]
    /\ \A n \in E : \E i \in D : f[i] = n

LEMMA MatchesNone ==
  ASSUME NEW s, NEW t
  PROVE  Matches({}, s, {}, t)
<1>1. [i \in {} |-> 0] \in [{} -> {}]
  OBVIOUS
<1> QED
  BY <1>1 DEF Matches

LEMMA MatchesSame ==
  ASSUME NEW D, NEW s, NEW E, NEW t, Matches(D, s, E, t),
         NEW s2, \A i \in D : s2[i] = s[i], NEW t2, \A n \in E : t2[n] = t[n]
  PROVE  Matches(D, s2, E, t2)
<1>1. PICK f \in [D -> E] :
        /\ \A i, j \in D : i < j => f[i] < f[j]
        /\ \A i \in D : t[f[i]] = s[i]
        /\ \A n \in E : \E i \in D : f[i] = n
  BY DEF Matches
<1>2. \A i \in D : t2[f[i]] = s2[i]
  BY <1>1
<1> QED
  BY <1>1, <1>2 DEF Matches

LEMMA MatchesOneMore ==
  ASSUME NEW D, NEW s, NEW E, NEW t, Matches(D, s, E, t), D \subseteq Nat, E \subseteq Nat,
         NEW x \in Nat, \A i \in D : i < x,
         NEW y \in Nat, \A n \in E : n < y,
         NEW t2, \A n \in E : t2[n] = t[n], t2[y] = s[x]
  PROVE  Matches(D \cup {x}, s, E \cup {y}, t2)
<1>1. PICK f \in [D -> E] :
        /\ \A i, j \in D : i < j => f[i] < f[j]
        /\ \A i \in D : t[f[i]] = s[i]
        /\ \A n \in E : \E i \in D : f[i] = n
  BY DEF Matches
<1> DEFINE g == [i \in D \cup {x} |-> IF i = x THEN y ELSE f[i]]
<1>2. x \notin D /\ y \notin E
  OBVIOUS
<1>3. g \in [D \cup {x} -> E \cup {y}]
  BY <1>1
<1>4. \A i \in D : g[i] = f[i] /\ f[i] \in E
  BY <1>1, <1>2
<1>5. g[x] = y
  OBVIOUS
<1> HIDE DEF g
<1>6. \A i, j \in D \cup {x} : i < j => g[i] < g[j]
  <2> SUFFICES ASSUME NEW i \in D \cup {x}, NEW j \in D \cup {x}, i < j PROVE g[i] < g[j]
    OBVIOUS
  <2>1. CASE i \in D /\ j \in D
    BY <1>1, <1>4, <2>1
  <2>2. CASE i \in D /\ j = x
    BY <1>4, <1>5, <2>2
  <2>3. CASE i = x
    <3>1. j \in Nat /\ j <= x
      BY <2>3
    <3> QED
      BY <2>3, <3>1
  <2> QED
    BY <2>1, <2>2, <2>3
<1>7. \A i \in D \cup {x} : t2[g[i]] = s[i]
  BY <1>1, <1>4, <1>5
<1>8. \A n \in E \cup {y} : \E i \in D \cup {x} : g[i] = n
  BY <1>1, <1>4, <1>5
<1> QED
  BY <1>3, <1>6, <1>7, <1>8 DEF Matches

\* One map after another, of which the second leaves some elements out.
LEMMA MatchesThrough ==
  ASSUME NEW D, NEW s, NEW E, NEW t, Matches(D, s, E, t),
         NEW F, NEW G, NEW u, Matches(F, t, G, u), F \subseteq E,
         NEW C, C \subseteq D,
         \A i \in D : \A k \in E : s[i] = t[k] => (i \in C <=> k \in F)
  PROVE  Matches(C, s, G, u)
<1>1. PICK f \in [D -> E] :
        /\ \A i, j \in D : i < j => f[i] < f[j]
        /\ \A i \in D : t[f[i]] = s[i]
        /\ \A n \in E : \E i \in D : f[i] = n
  BY DEF Matches
<1>2. PICK g \in [F -> G] :
        /\ \A i, j \in F : i < j => g[i] < g[j]
        /\ \A i \in F : u[g[i]] = t[i]
        /\ \A n \in G : \E i \in F : g[i] = n
  BY DEF Matches
<1> DEFINE h == [i \in C |-> g[f[i]]]
<1>3. \A i \in D : i \in C <=> f[i] \in F
  BY <1>1
<1>4. h \in [C -> G] /\ \A i \in C : h[i] = g[f[i]]
  BY <1>1, <1>2, <1>3
<1> HIDE DEF h
<1>5. \A i, j \in C : i < j => h[i] < h[j]
  BY <1>1, <1>2, <1>3, <1>4
<1>6. \A i \in C : u[h[i]] = s[i]
  BY <1>1, <1>2, <1>3, <1>4
<1>7. \A n \in G : \E i \in C : h[i] = n
  <2> TAKE n \in G
  <2>1. PICK k \in F : g[k] = n
    BY <1>2
  <2>2. PICK i \in D : f[i] = k
    BY <1>1, <2>1
  <2> QED
    BY <1>3, <1>4, <2>1, <2>2
<1> QED
  BY <1>4, <1>5, <1>6, <1>7 DEF Matches

-----------------------------------------------------------------------------
Marks == {"start", "complete"}

\* The entries that have been registered, with a mark.
Passed == {i \in DOMAIN config : phase = "setup" => i < next}

MarkedAt(how) == {i \in Passed : config[i][1] = how}

\* The marked ones whose turn has been, if they exist.
TurnWas(how, k) ==
  IF how = "start"
  THEN phase # "setup" /\ (phase = "start" => k < next)
  ELSE phase \in {"complete", "ended"} /\ (phase = "complete" => k < next)

RunAt(how) == {k \in DOMAIN marked[how] : TurnWas(how, k) /\ Found(marked[how][k][2])}

RanAs(how) == {n \in DOMAIN ran : ran[n].key[1] = how}

KeyOf == [n \in DOMAIN ran |-> ran[n].key]

SetupShape ==
  /\ config \in Configs
  /\ next \in Nat \ {0}
  /\ phase \in {"setup", "start", "model", "complete", "ended", "broken"}
  /\ DOMAIN marked = Marks
  /\ \A how \in Marks : IsSeq(marked[how])
  /\ IsSeq(ran)

ToolsInv ==
  /\ DOMAIN tools \subseteq Keys
  /\ \A k \in DOMAIN tools :
       IF k[1] = "plain"
       THEN \E i \in DOMAIN config : /\ Found(config[i][2])
                                     /\ k \in {config[i], FunctionKey(config[i][2])}
                                     /\ tools[k] = Tool(config[i])
       ELSE k \in Entries /\ Found(k[2]) /\ tools[k] = Tool(k)
  /\ \A i \in Passed : Found(config[i][2]) =>
       {config[i], FunctionKey(config[i][2])} \subseteq DOMAIN tools

RanInv ==
  /\ phase = "setup" => ran = <<>>
  /\ \A n \in DOMAIN ran : ran[n].key \in DOMAIN tools /\ ran[n].tool = tools[ran[n].key]

\* How many have run, at most.
RanCount ==
  LET starts == Len(marked["start"])
      ends   == Len(marked["complete"])
  IN /\ starts + ends <= Len(config)
     /\ phase = "setup" => starts + ends < next /\ next <= Len(config) + 1
     /\ phase = "start" => Len(ran) < next /\ next <= starts + 1
     /\ phase = "model" => Len(ran) < starts + next /\ next <= MaxModelCalls + 1
     /\ phase = "complete" => Len(ran) < starts + MaxModelCalls + next /\ next <= ends + 1
     /\ Len(ran) <= starts + MaxModelCalls + ends

MarkedInv ==
  \A how \in Marks : Matches(MarkedAt(how), config, DOMAIN marked[how], marked[how])

TurnsInv ==
  \A how \in Marks : Matches(RunAt(how), marked[how], RanAs(how), KeyOf)

PhasesInv ==
  /\ phase = "start" => \A n \in DOMAIN ran : ran[n].key[1] = "start"
  /\ phase \in {"model", "broken"} => \A n \in DOMAIN ran : ran[n].key[1] # "complete"
  /\ \A n, o \in DOMAIN ran :
       n < o => /\ ran[o].key[1] = "start" => ran[n].key[1] = "start"
                /\ ran[n].key[1] = "complete" => ran[o].key[1] = "complete"

SetupInv ==
  SetupShape /\ ToolsInv /\ RanInv /\ RanCount /\ MarkedInv /\ TurnsInv /\ PhasesInv

-----------------------------------------------------------------------------
LEMMA ConfigFacts ==
  ASSUME config \in Configs
  PROVE  /\ Len(config) \in Nat /\ DOMAIN config = 1 .. Len(config)
         /\ \A i \in DOMAIN config :
              /\ config[i] \in Entries /\ config[i][2] \in Names
              /\ config[i][1] \in {"plain"} \cup Marks
<1>1. config \in Seq(Entries)
  BY SetupAssumption
<1>2. \A i \in DOMAIN config : config[i] \in Entries
  BY <1>1
<1> QED
  BY <1>1, <1>2, SetupAssumption DEF Names, Marks

\* What is marked is an entry with the mark.
LEMMA MarkedAre ==
  ASSUME SetupShape, MarkedInv, NEW how \in Marks, NEW k \in DOMAIN marked[how]
  PROVE  \E i \in MarkedAt(how) : marked[how][k] = config[i]
BY DEF MarkedInv, Matches

\* It is run if it exists.
LEMMA MarkedKnown ==
  ASSUME SetupShape, ToolsInv, MarkedInv, phase # "setup",
         NEW how \in Marks, NEW k \in DOMAIN marked[how]
  PROVE  /\ marked[how][k] \in DOMAIN tools <=> Found(marked[how][k][2])
         /\ marked[how][k][1] = how
<1>1. PICK i \in MarkedAt(how) : marked[how][k] = config[i]
  BY MarkedAre
<1>2. i \in DOMAIN config /\ i \in Passed /\ config[i][1] = how
  BY <1>1 DEF MarkedAt, Passed
<1>3. how # "plain"
  BY DEF Marks
<1> QED
  BY <1>1, <1>2, <1>3 DEF ToolsInv

LEMMA SetupInvInit == SetupInit => SetupInv
<1> SUFFICES ASSUME SetupInit PROVE SetupInv
  OBVIOUS
<1>0. IsSeq(<<>>) /\ Len(<<>>) = 0 /\ DOMAIN <<>> = {}
  BY EmptyIsSeq
<1>1. SetupShape
  BY <1>0 DEF SetupInit, SetupShape, Marks
<1>2. Passed = {} /\ DOMAIN tools = {} /\ DOMAIN ran = {} /\ Len(ran) = 0
  BY <1>0, <1>1, ConfigFacts DEF SetupInit, Passed, SetupShape
<1>3. \A how \in Marks : /\ marked[how] = <<>> /\ MarkedAt(how) = {} /\ RunAt(how) = {}
                          /\ RanAs(how) = {} /\ DOMAIN marked[how] = {}
  BY <1>0, <1>2 DEF SetupInit, Marks, MarkedAt, RunAt, RanAs
<1>4. ToolsInv /\ RanInv /\ PhasesInv
  BY <1>2 DEF SetupInit, ToolsInv, RanInv, PhasesInv
<1>5. RanCount
  BY <1>0, <1>1, <1>2, <1>3, ConfigFacts, SetupAssumption DEF SetupInit, RanCount, Marks, SetupShape
<1>6. MarkedInv /\ TurnsInv
  BY <1>3, MatchesNone DEF MarkedInv, TurnsInv
<1> QED
  BY <1>1, <1>4, <1>5, <1>6 DEF SetupInv

LEMMA RegisterStep ==
  ASSUME SetupInv, RegisterTool
  PROVE  SetupInv'
<1> DEFINE e == config[next]
<1>s. SetupShape /\ ToolsInv /\ RanInv /\ RanCount /\ MarkedInv /\ TurnsInv /\ PhasesInv
  BY DEF SetupInv
<1>0. /\ phase = "setup" /\ phase' = "setup" /\ next' = next + 1 /\ config' = config /\ ran' = ran
      /\ ran = <<>> /\ given' = given /\ next \in Nat \ {0}
      /\ Len(config) \in Nat /\ DOMAIN config = 1 .. Len(config) /\ next \in DOMAIN config
      /\ DOMAIN marked = Marks
  BY <1>s, ConfigFacts DEF RegisterTool, RanInv, SetupShape
<1>1. e \in Entries /\ e[2] \in Names /\ e[1] \in {"plain"} \cup Marks
  BY <1>0, <1>s, ConfigFacts DEF SetupShape
<1>2. Passed' = Passed \cup {next} /\ next \notin Passed /\ \A i \in Passed : i \in Nat /\ i < next
  BY <1>0 DEF Passed
<1>3. \A how \in Marks :
        /\ IsSeq(marked[how]) /\ Len(marked[how]) \in Nat
        /\ DOMAIN marked[how] = 1 .. Len(marked[how])
  BY <1>s, SeqDomain DEF SetupShape
<1>4. \A how \in Marks : marked'[how] = IF e[1] = how THEN Append(marked[how], e) ELSE marked[how]
  <2>1. "plain" \notin Marks
    BY DEF Marks
  <2>2. marked' = IF e[1] = "plain" THEN marked ELSE [marked EXCEPT ![e[1]] = Append(@, e)]
    BY DEF RegisterTool
  <2> QED
    BY <1>0, <1>1, <2>1, <2>2
<1>5. DOMAIN marked' = Marks
  BY <1>0 DEF RegisterTool
<1> HIDE DEF e
<1>6. \A how \in Marks :
        /\ IsSeq(marked'[how])
        /\ Len(marked'[how]) = IF e[1] = how THEN Len(marked[how]) + 1 ELSE Len(marked[how])
        /\ DOMAIN marked'[how] = 1 .. Len(marked'[how])
        /\ \A k \in DOMAIN marked[how] : marked'[how][k] = marked[how][k]
        /\ e[1] = how => marked'[how][Len(marked[how]) + 1] = e
  <2> TAKE how \in Marks
  <2>1. CASE e[1] = how
    <3>1. marked'[how] = Append(marked[how], e)
      BY <1>4, <2>1
    <3>2. /\ IsSeq(marked'[how]) /\ Len(marked'[how]) = Len(marked[how]) + 1
          /\ \A k \in 1 .. Len(marked[how]) : marked'[how][k] = marked[how][k]
          /\ marked'[how][Len(marked[how]) + 1] = e
      BY <1>3, <3>1, AppendIsSeq
    <3> QED
      BY <1>3, <2>1, <3>2, SeqDomain
  <2>2. CASE e[1] # how
    BY <1>3, <1>4, <2>2
  <2> QED
    BY <2>1, <2>2
<1>7. SetupShape'
  BY <1>0, <1>5, <1>6, <1>s DEF SetupShape
<1>8. MarkedInv'
  <2> SUFFICES ASSUME NEW how \in Marks
               PROVE  Matches(MarkedAt(how)', config, DOMAIN marked'[how], marked'[how])
    BY <1>0 DEF MarkedInv
  <2>0. Matches(MarkedAt(how), config, DOMAIN marked[how], marked[how])
    BY <1>s DEF MarkedInv
  <2>1. CASE e[1] = how
    <3> DEFINE y == Len(marked[how]) + 1
    <3>1. MarkedAt(how)' = MarkedAt(how) \cup {next}
      BY <1>0, <1>2, <2>1 DEF MarkedAt, e
    <3>2. DOMAIN marked'[how] = DOMAIN marked[how] \cup {y}
      BY <1>3, <1>6, <2>1
    <3>3. /\ DOMAIN marked[how] \subseteq Nat /\ y \in Nat
          /\ \A n \in DOMAIN marked[how] : n < y
      BY <1>3
    <3>4. marked'[how][y] = config[next]
      BY <1>6, <2>1 DEF e
    <3>5. MarkedAt(how) \subseteq Nat /\ \A i \in MarkedAt(how) : i < next
      BY <1>2 DEF MarkedAt
    <3>7. next \in Nat /\ \A n \in DOMAIN marked[how] : marked'[how][n] = marked[how][n]
      BY <1>0, <1>6
    <3> HIDE DEF y
    <3>6. Matches(MarkedAt(how) \cup {next}, config, DOMAIN marked[how] \cup {y}, marked'[how])
      BY <2>0, <3>3, <3>4, <3>5, <3>7, MatchesOneMore
    <3> QED
      BY <3>1, <3>2, <3>6
  <2>2. CASE e[1] # how
    <3>1. MarkedAt(how)' = MarkedAt(how)
      BY <1>0, <1>2, <2>2 DEF MarkedAt, e
    <3>2. marked'[how] = marked[how]
      BY <1>4, <2>2
    <3> QED
      BY <2>0, <3>1, <3>2
  <2> QED
    BY <2>1, <2>2
<1>9. TurnsInv'
  <2>1. DOMAIN ran = {}
    BY <1>0, EmptyIsSeq
  <2>2. \A how \in Marks : RunAt(how)' = {} /\ RanAs(how)' = {}
    BY <1>0, <2>1 DEF RunAt, RanAs, TurnWas
  <2> QED
    BY <2>2, MatchesNone DEF TurnsInv
<1>10. RanCount'
  <2>1. "start" \in Marks /\ "complete" \in Marks
    BY DEF Marks
  <2>2. Len(ran) = 0
    BY <1>0, EmptyIsSeq
  <2> DEFINE starts == Len(marked["start"])
             ends   == Len(marked["complete"])
             more   == Len(marked'["start"])
             after  == Len(marked'["complete"])
  <2>3. starts \in Nat /\ ends \in Nat /\ MaxModelCalls \in Nat
    BY <1>3, <2>1, SetupAssumption
  <2>4. starts + ends < next
    BY <1>0, <1>s DEF RanCount
  <2>5. \/ e[1] # "start" /\ more = starts
        \/ e[1] = "start" /\ more = starts + 1
    BY <1>6, <2>1
  <2>6. \/ e[1] # "complete" /\ after = ends
        \/ e[1] = "complete" /\ after = ends + 1
    BY <1>6, <2>1
  <2> HIDE DEF starts, ends, more, after
  <2>7. more + after < next + 1 /\ more \in Nat /\ after \in Nat
    BY <1>0, <2>3, <2>4, <2>5, <2>6
  <2>8. more + after <= Len(config) /\ 0 <= more + MaxModelCalls + after /\ next + 1 <= Len(config) + 1
    BY <1>0, <2>3, <2>7
  <2>9. more + after <= Len(config) /\ more + after < next' /\ next' <= Len(config') + 1
        /\ Len(ran') <= more + MaxModelCalls + after
    BY <1>0, <2>2, <2>7, <2>8
  <2> QED
    BY <1>0, <2>9 DEF RanCount, more, after
<1>11. RanInv' /\ PhasesInv'
  <2>1. DOMAIN ran = {}
    BY <1>0, EmptyIsSeq
  <2> QED
    BY <1>0, <2>1 DEF RanInv, PhasesInv
<1>12. ToolsInv'
  <2>1. \A x : Tool(x)' = Tool(x)
    BY <1>0 DEF Tool, DataFor
  <2>2. CASE ~Found(e[2])
    <3>1. tools' = tools
      BY <2>2 DEF RegisterTool, e
    <3> QED
      BY <1>0, <1>2, <1>s, <2>1, <2>2, <3>1 DEF ToolsInv, e
  <2>3. CASE Found(e[2])
    <3> DEFINE fk == FunctionKey(e[2])
    <3>1. tools' = Registered(e)
      BY <2>3 DEF RegisterTool, e
    <3>2. /\ DOMAIN tools' = {e, fk} \cup DOMAIN tools
          /\ \A k \in DOMAIN tools' : tools'[k] = IF k \in {e, fk} THEN Tool(e) ELSE tools[k]
      BY <3>1 DEF Registered, With
    <3>3. fk \in Keys /\ e \in Keys
      BY <1>1 DEF Keys, FunctionKey
    <3>4. fk[1] = "plain"
      BY DEF FunctionKey, Bare
    <3>5. DOMAIN tools' \subseteq Keys
      BY <1>s, <3>2, <3>3 DEF ToolsInv
    <3> HIDE DEF fk
    <3>6. ASSUME NEW k \in DOMAIN tools', k[1] = "plain"
          PROVE  \E i \in DOMAIN config : /\ Found(config[i][2])
                                          /\ k \in {config[i], FunctionKey(config[i][2])}
                                          /\ tools'[k] = Tool(config[i])
      <4>1. CASE k \in {e, fk}
        BY <1>0, <2>3, <3>2, <4>1 DEF e, fk
      <4>2. CASE k \notin {e, fk}
        BY <1>s, <3>2, <3>6, <4>2 DEF ToolsInv
      <4> QED
        BY <4>1, <4>2
    <3>7. ASSUME NEW k \in DOMAIN tools', k[1] # "plain"
          PROVE  k \in Entries /\ Found(k[2]) /\ tools'[k] = Tool(k)
      BY <1>1, <1>s, <2>3, <3>2, <3>4, <3>7 DEF ToolsInv
    <3>8. \A i \in Passed' : Found(config[i][2]) =>
            {config[i], FunctionKey(config[i][2])} \subseteq DOMAIN tools'
      BY <1>2, <1>s, <3>2 DEF ToolsInv, e, fk
    <3> QED
      BY <1>0, <2>1, <3>5, <3>6, <3>7, <3>8 DEF ToolsInv
  <2> QED
    BY <2>2, <2>3
<1> QED
  BY <1>7, <1>8, <1>9, <1>10, <1>11, <1>12 DEF SetupInv

LEMMA RunKeyIs ==
  ASSUME IsSeq(ran), NEW k, RunKey(k)
  PROVE  /\ IsSeq(ran') /\ Len(ran) \in Nat /\ DOMAIN ran = 1 .. Len(ran)
         /\ \/ k \notin DOMAIN tools /\ ran' = ran
            \/ /\ k \in DOMAIN tools
               /\ Len(ran') = Len(ran) + 1 /\ DOMAIN ran' = DOMAIN ran \cup {Len(ran) + 1}
               /\ \A n \in DOMAIN ran : ran'[n] = ran[n]
               /\ ran'[Len(ran) + 1].key = k /\ ran'[Len(ran) + 1].tool = tools[k]
<1>1. Len(ran) \in Nat /\ DOMAIN ran = 1 .. Len(ran)
  BY SeqDomain
<1>2. CASE k \notin DOMAIN tools
  BY <1>1, <1>2 DEF RunKey
<1>3. CASE k \in DOMAIN tools
  <2> DEFINE r == [key |-> k, tool |-> tools[k]]
  <2>1. ran' = Append(ran, r)
    BY <1>3 DEF RunKey
  <2>2. r.key = k /\ r.tool = tools[k]
    OBVIOUS
  <2> HIDE DEF r
  <2>3. /\ IsSeq(ran') /\ Len(ran') = Len(ran) + 1
        /\ \A i \in 1 .. Len(ran) : ran'[i] = ran[i]
        /\ ran'[Len(ran) + 1] = r
    BY <2>1, AppendIsSeq
  <2>4. DOMAIN ran' = 1 .. Len(ran) + 1
    BY <2>3, SeqDomain
  <2>5. DOMAIN ran' = DOMAIN ran \cup {Len(ran) + 1}
    BY <1>1, <2>4
  <2> QED
    BY <1>1, <1>3, <2>2, <2>3, <2>5
<1> QED
  BY <1>2, <1>3

\* What the configuration was made into does not change any more.
Settled ==
  /\ phase # "setup" /\ phase' \in {"start", "model", "complete", "ended", "broken"}
  /\ UNCHANGED <<config, given, tools, marked>>
  /\ next' \in Nat \ {0}

LEMMA SettledKept ==
  ASSUME SetupInv, Settled, IsSeq(ran')
  PROVE  SetupShape' /\ ToolsInv' /\ MarkedInv'
<1>s. SetupShape /\ ToolsInv /\ MarkedInv
  BY DEF SetupInv
<1>1. Passed = DOMAIN config /\ Passed' = DOMAIN config
  BY DEF Settled, Passed
<1>2. \A x : Tool(x)' = Tool(x)
  BY DEF Tool, DataFor, Settled
<1>3. SetupShape'
  BY <1>s DEF SetupShape, Settled
<1>4. ToolsInv'
  BY <1>1, <1>2, <1>s DEF ToolsInv, Settled
<1>5. MarkedInv'
  BY <1>1, <1>s DEF MarkedInv, MarkedAt, Settled
<1> QED
  BY <1>3, <1>4, <1>5

LEMMA RunKeyRan ==
  ASSUME SetupInv, Settled, NEW k, RunKey(k)
  PROVE  RanInv'
<1>s. SetupShape /\ RanInv
  BY DEF SetupInv
<1>1. IsSeq(ran)
  BY <1>s DEF SetupShape
<1> QED
  BY <1>1, <1>s, RunKeyIs DEF RanInv, Settled

\* The next marked tool is run, if there is one.
LEMMA RunOne ==
  ASSUME SetupInv, NEW how \in Marks, phase = how, phase' = how,
         next <= Len(marked[how]), RunKey(marked[how][next]), next' = next + 1,
         UNCHANGED <<config, given, tools, marked>>
  PROVE  SetupInv'
<1> DEFINE k == marked[how][next]
           y == Len(ran) + 1
<1>s. SetupShape /\ ToolsInv /\ RanInv /\ RanCount /\ MarkedInv /\ TurnsInv /\ PhasesInv
  BY DEF SetupInv
<1>0. /\ Settled /\ how \in {"start", "complete"}
  BY <1>s DEF Settled, SetupShape, Marks
<1>1. /\ IsSeq(marked[how]) /\ Len(marked[how]) \in Nat
      /\ DOMAIN marked[how] = 1 .. Len(marked[how]) /\ next \in DOMAIN marked[how]
  BY <1>s, SeqDomain DEF SetupShape
<1>2. (k \in DOMAIN tools <=> Found(k[2])) /\ k[1] = how
  BY <1>0, <1>1, <1>s, MarkedKnown DEF Settled
<1>3. /\ IsSeq(ran') /\ Len(ran) \in Nat /\ DOMAIN ran = 1 .. Len(ran)
      /\ \/ k \notin DOMAIN tools /\ ran' = ran
         \/ /\ k \in DOMAIN tools
            /\ Len(ran') = Len(ran) + 1 /\ DOMAIN ran' = DOMAIN ran \cup {y}
            /\ \A n \in DOMAIN ran : ran'[n] = ran[n]
            /\ ran'[y].key = k /\ ran'[y].tool = tools[k]
  BY <1>s, RunKeyIs DEF SetupShape
<1>4. y \in Nat /\ \A n \in DOMAIN ran : n \in Nat /\ n < y
  BY <1>3
<1>5. SetupShape' /\ ToolsInv' /\ MarkedInv' /\ RanInv'
  BY <1>0, <1>3, SettledKept, RunKeyRan
<1> HIDE DEF k, y
<1>6. RanCount'
  <2> DEFINE starts == Len(marked["start"])
             ends   == Len(marked["complete"])
  <2>1. starts \in Nat /\ ends \in Nat /\ MaxModelCalls \in Nat
    BY <1>s, SeqDomain, SetupAssumption DEF SetupShape, Marks
  <2>2. Len(ran') \in Nat /\ Len(ran) \in Nat /\ Len(ran') <= Len(ran) + 1
    BY <1>3
  <2>3. next \in Nat
    BY <1>s DEF SetupShape
  <2>4. CASE how = "start"
    <3>1. Len(ran) < next /\ starts + ends <= Len(config) /\ next <= starts
      BY <1>s, <2>4 DEF RanCount
    <3> HIDE DEF starts, ends
    <3>2. Len(ran') < next + 1 /\ Len(ran') <= starts + MaxModelCalls + ends /\ next + 1 <= starts + 1
      BY <1>3, <2>1, <2>2, <2>3, <3>1
    <3> QED
      BY <2>4, <3>1, <3>2 DEF RanCount, starts, ends
  <2>5. CASE how = "complete"
    <3>1. Len(ran) < starts + MaxModelCalls + next /\ starts + ends <= Len(config) /\ next <= ends
      BY <1>s, <2>5 DEF RanCount
    <3> HIDE DEF starts, ends
    <3> DEFINE a == Len(ran)
               b == Len(ran')
    <3>a. a \in Nat /\ b \in Nat /\ b <= a + 1 /\ a < starts + MaxModelCalls + next
      BY <2>2, <3>1
    <3> HIDE DEF a, b
    <3>b. b < starts + MaxModelCalls + (next + 1)
      BY <2>1, <2>3, <3>a
    <3>c. b <= starts + MaxModelCalls + ends /\ next + 1 <= ends + 1
      BY <2>1, <2>3, <3>1, <3>a
    <3>2. /\ Len(ran') < starts + MaxModelCalls + (next + 1)
          /\ Len(ran') <= starts + MaxModelCalls + ends /\ next + 1 <= ends + 1
      BY <3>b, <3>c DEF b
    <3> QED
      BY <2>5, <3>1, <3>2 DEF RanCount, starts, ends
  <2> QED
    BY <1>0, <2>4, <2>5
<1>7. PhasesInv'
  <2>1. how = "start" => \A n \in DOMAIN ran : ran[n].key[1] = "start"
    BY <1>s DEF PhasesInv
  <2>2. \A n \in DOMAIN ran' :
          \/ n \in DOMAIN ran /\ ran'[n].key = ran[n].key
          \/ n = y /\ ran'[n].key[1] = how
    BY <1>2, <1>3
  <2> QED
    BY <1>0, <1>4, <1>s, <2>1, <2>2 DEF PhasesInv
<1>8. TurnsInv'
  <2> SUFFICES ASSUME NEW m \in Marks
               PROVE  Matches(RunAt(m)', marked[m], RanAs(m)', KeyOf')
    BY DEF TurnsInv
  <2>0. Matches(RunAt(m), marked[m], RanAs(m), KeyOf)
    BY <1>s DEF TurnsInv
  <2>1. \A n \in DOMAIN ran : n \in DOMAIN ran' /\ KeyOf'[n] = KeyOf[n] /\ ran'[n].key = ran[n].key
    BY <1>3 DEF KeyOf
  <2>2. \A n \in RanAs(m) : KeyOf'[n] = KeyOf[n]
    BY <2>1 DEF RanAs
  <2>3. CASE m = how
    <3>1. /\ DOMAIN marked[m] \subseteq Nat /\ next \in Nat
          /\ \A j \in DOMAIN marked[m] : j < next + 1 <=> j < next \/ j = next
      BY <1>1, <1>s, <2>3 DEF SetupShape
    <3>2. RunAt(m) \subseteq Nat /\ \A j \in RunAt(m) : j < next
      BY <1>0, <2>3, <3>1 DEF RunAt, TurnWas
    <3>3. RunAt(m)' = RunAt(m) \cup {j \in {next} : Found(k[2])}
      BY <1>0, <1>1, <2>3, <3>1 DEF RunAt, TurnWas, k
    <3>4. CASE Found(k[2])
      <4>1. k \in DOMAIN tools
        BY <1>2, <3>4
      <4>2. RanAs(m)' = RanAs(m) \cup {y}
        BY <1>2, <1>3, <2>1, <2>3, <4>1 DEF RanAs
      <4>3. KeyOf'[y] = marked[m][next]
        BY <1>3, <2>3, <4>1 DEF KeyOf, k
      <4>4. RanAs(m) \subseteq Nat /\ \A n \in RanAs(m) : n < y
        BY <1>4 DEF RanAs
      <4>5. Matches(RunAt(m) \cup {next}, marked[m], RanAs(m) \cup {y}, KeyOf')
        BY <1>4, <2>0, <2>2, <3>1, <3>2, <4>3, <4>4, MatchesOneMore
      <4>6. RunAt(m)' = RunAt(m) \cup {next}
        BY <3>3, <3>4
      <4> QED
        BY <4>2, <4>5, <4>6
    <3>5. CASE ~Found(k[2])
      <4>1. ran' = ran
        BY <1>2, <1>3, <3>5
      <4>2. RunAt(m)' = RunAt(m) /\ RanAs(m)' = RanAs(m) /\ KeyOf' = KeyOf
        BY <3>3, <3>5, <4>1 DEF RanAs, KeyOf
      <4> QED
        BY <2>0, <4>2
    <3> QED
      BY <3>4, <3>5
  <2>4. CASE m # how
    <3>1. RunAt(m)' = RunAt(m)
      BY <1>0, <2>4 DEF RunAt, TurnWas, Marks
    <3>2. RanAs(m)' = RanAs(m)
      BY <1>2, <1>3, <2>1, <2>4 DEF RanAs
    <3> QED
      BY <2>0, <2>2, <3>1, <3>2, MatchesSame
  <2> QED
    BY <2>3, <2>4
<1> QED
  BY <1>5, <1>6, <1>7, <1>8 DEF SetupInv

\* A phase is over when there is no further turn in it.
LEMMA PhaseOver ==
  ASSUME SetupInv, UNCHANGED <<config, given, tools, marked, ran>>, next' = 1,
         \/ phase = "setup" /\ phase' = "start" /\ next > Len(config)
         \/ phase = "start" /\ phase' \in {"model", "complete"} /\ next > Len(marked["start"])
         \/ phase = "model" /\ phase' \in {"complete", "broken"}
         \/ phase = "complete" /\ phase' = "ended" /\ next > Len(marked["complete"])
  PROVE  SetupInv'
<1>s. SetupShape /\ ToolsInv /\ RanInv /\ RanCount /\ MarkedInv /\ TurnsInv /\ PhasesInv
  BY DEF SetupInv
<1>1. Passed' = Passed
  <2>1. Len(config) \in Nat /\ DOMAIN config = 1 .. Len(config) /\ next \in Nat
    BY <1>s, ConfigFacts DEF SetupShape
  <2>2. Passed' = DOMAIN config
    BY DEF Passed
  <2>3. Passed = DOMAIN config
    BY <2>1 DEF Passed
  <2> QED
    BY <2>2, <2>3
<1>2. \A x : Tool(x)' = Tool(x)
  BY DEF Tool, DataFor
<1>3. SetupShape' /\ ToolsInv' /\ MarkedInv'
  BY <1>1, <1>2, <1>s DEF SetupShape, ToolsInv, MarkedInv, MarkedAt
<1>4. RanInv' /\ PhasesInv'
  <2>1. ran = <<>> => DOMAIN ran = {}
    BY EmptyIsSeq
  <2> QED
    BY <1>s, <2>1 DEF RanInv, PhasesInv
<1>5. \A how \in Marks :
        /\ IsSeq(marked[how]) /\ Len(marked[how]) \in Nat
        /\ DOMAIN marked[how] = 1 .. Len(marked[how])
  BY <1>s, SeqDomain DEF SetupShape
<1>6. RanCount'
  <2> DEFINE starts == Len(marked["start"])
             ends   == Len(marked["complete"])
  <2>1. starts \in Nat /\ ends \in Nat /\ MaxModelCalls \in Nat /\ next \in Nat
    BY <1>5, <1>s, SetupAssumption DEF SetupShape, Marks
  <2>2. Len(ran) \in Nat /\ (ran = <<>> => Len(ran) = 0)
    BY <1>s, SeqDomain, EmptyIsSeq DEF SetupShape
  <2>3. starts + ends <= Len(config) /\ Len(ran) <= starts + MaxModelCalls + ends
    BY <1>s DEF RanCount
  <2>4. CASE phase' = "start"
    <3>1. Len(ran) = 0
      BY <1>s, <2>2, <2>4 DEF RanInv
    <3>2. Len(ran') < 1 /\ next' = 1
      BY <3>1
    <3> HIDE DEF starts, ends
    <3>3. 1 <= starts + 1
      BY <2>1
    <3> QED
      BY <2>3, <2>4, <3>2, <3>3 DEF RanCount, starts, ends
  <2>5. CASE phase' = "model"
    <3>1. Len(ran) < next /\ next <= starts + 1
      BY <1>s, <2>5 DEF RanCount
    <3> HIDE DEF starts, ends
    <3>2. Len(ran) < starts + 1 /\ 1 <= MaxModelCalls + 1
      BY <2>1, <2>2, <3>1
    <3> QED
      BY <2>3, <2>5, <3>2 DEF RanCount, starts, ends
  <2>6. CASE phase' = "complete"
    <3>1. \/ Len(ran) < next /\ next <= starts + 1
          \/ Len(ran) < starts + next /\ next <= MaxModelCalls + 1
      BY <1>s, <2>6 DEF RanCount
    <3> HIDE DEF starts, ends
    <3>2. Len(ran) < starts + MaxModelCalls + 1 /\ 1 <= ends + 1
      BY <2>1, <2>2, <3>1
    <3> QED
      BY <2>3, <2>6, <3>2 DEF RanCount, starts, ends
  <2>7. CASE phase' \in {"ended", "broken"}
    BY <2>3, <2>7 DEF RanCount
  <2> QED
    BY <2>4, <2>5, <2>6, <2>7
<1>7. TurnsInv'
  <2> SUFFICES ASSUME NEW m \in Marks
               PROVE  Matches(RunAt(m)', marked[m], RanAs(m)', KeyOf')
    BY DEF TurnsInv
  <2>1. KeyOf' = KeyOf /\ RanAs(m)' = RanAs(m)
    BY DEF KeyOf, RanAs
  <2>2. \A k \in DOMAIN marked[m] : k < next' <=> FALSE
    BY <1>5
  <2>3. \A k \in DOMAIN marked[m] : TurnWas(m, k)' <=> TurnWas(m, k)
    <3>1. next \in Nat
      BY <1>s DEF SetupShape
    <3>2. CASE m = "start"
      <4>1. next > Len(marked["start"]) => \A k \in DOMAIN marked[m] : k < next
        BY <1>5, <3>1, <3>2
      <4> QED
        BY <2>2, <3>2, <4>1 DEF TurnWas
    <3>3. CASE m = "complete"
      <4>1. next > Len(marked["complete"]) => \A k \in DOMAIN marked[m] : k < next
        BY <1>5, <3>1, <3>3
      <4> QED
        BY <2>2, <3>3, <4>1 DEF TurnWas
    <3> QED
      BY <3>2, <3>3 DEF Marks
  <2>4. RunAt(m)' = RunAt(m)
    BY <2>3 DEF RunAt
  <2> QED
    BY <1>s, <2>1, <2>4 DEF TurnsInv
<1> QED
  BY <1>3, <1>4, <1>6, <1>7 DEF SetupInv

LEMMA ModelCallsStep ==
  ASSUME SetupInv, NEW f, ModelCalls(f)
  PROVE  SetupInv'
<1> DEFINE k == Bare(f)
           y == Len(ran) + 1
<1>s. SetupShape /\ ToolsInv /\ RanInv /\ RanCount /\ MarkedInv /\ TurnsInv /\ PhasesInv
  BY DEF SetupInv
<1>0. Settled /\ phase = "model" /\ phase' = "model" /\ next' = next + 1 /\ RunKey(k)
  BY <1>s DEF ModelCalls, Settled, SetupShape
<1>1. k[1] = "plain"
  BY DEF Bare
<1> HIDE DEF k
<1>2. /\ IsSeq(ran') /\ Len(ran) \in Nat /\ DOMAIN ran = 1 .. Len(ran)
      /\ \/ ran' = ran
         \/ /\ Len(ran') = Len(ran) + 1 /\ DOMAIN ran' = DOMAIN ran \cup {y}
            /\ \A n \in DOMAIN ran : ran'[n] = ran[n]
            /\ ran'[y].key = k
  BY <1>0, <1>s, RunKeyIs DEF SetupShape
<1>3. y \in Nat /\ \A n \in DOMAIN ran : n \in Nat /\ n < y
  BY <1>2
<1> HIDE DEF y
<1>4. SetupShape' /\ ToolsInv' /\ MarkedInv' /\ RanInv'
  BY <1>0, <1>2, SettledKept, RunKeyRan
<1>5. \A n \in DOMAIN ran' :
        \/ n \in DOMAIN ran /\ ran'[n].key = ran[n].key
        \/ n = y /\ ran'[n].key[1] = "plain"
  BY <1>1, <1>2
<1>6. \A n \in DOMAIN ran : n \in DOMAIN ran' /\ ran'[n].key = ran[n].key
  BY <1>2
<1>7. PhasesInv'
  BY <1>0, <1>3, <1>5, <1>s DEF PhasesInv
<1>8. TurnsInv'
  <2> SUFFICES ASSUME NEW m \in Marks
               PROVE  Matches(RunAt(m)', marked[m], RanAs(m)', KeyOf')
    BY <1>0 DEF TurnsInv, Settled
  <2>1. RunAt(m)' = RunAt(m)
    BY <1>0 DEF RunAt, TurnWas, Marks, Settled
  <2>2. RanAs(m)' = RanAs(m)
    BY <1>5, <1>6 DEF RanAs, Marks
  <2>3. \A n \in RanAs(m) : KeyOf'[n] = KeyOf[n]
    BY <1>6 DEF RanAs, KeyOf
  <2>4. Matches(RunAt(m), marked[m], RanAs(m), KeyOf)
    BY <1>s DEF TurnsInv
  <2> QED
    BY <2>1, <2>2, <2>3, <2>4, MatchesSame
<1>9. RanCount'
  <2> DEFINE starts == Len(marked["start"])
             ends   == Len(marked["complete"])
  <2>1. starts \in Nat /\ ends \in Nat /\ MaxModelCalls \in Nat /\ next \in Nat
    BY <1>s, SeqDomain, SetupAssumption DEF SetupShape, Marks
  <2>2. Len(ran') \in Nat /\ Len(ran') <= Len(ran) + 1
    BY <1>2
  <2>3. starts + ends <= Len(config) /\ Len(ran) < starts + next /\ next <= MaxModelCalls
    BY <1>0, <1>s DEF RanCount, ModelCalls
  <2> HIDE DEF starts, ends
  <2>4. /\ Len(ran') < starts + (next + 1) /\ next + 1 <= MaxModelCalls + 1
        /\ Len(ran') <= starts + MaxModelCalls + ends
    BY <1>2, <2>1, <2>2, <2>3
  <2> QED
    BY <1>0, <2>3, <2>4 DEF RanCount, Settled, starts, ends
<1> QED
  BY <1>4, <1>7, <1>8, <1>9 DEF SetupInv

LEMMA SetupInvStep == SetupInv /\ [SetupNext]_setupVars => SetupInv'
<1> SUFFICES ASSUME SetupInv, [SetupNext]_setupVars PROVE SetupInv'
  OBVIOUS
<1>1. CASE RegisterTool
  BY <1>1, RegisterStep
<1>2. CASE Start
  BY <1>2, PhaseOver DEF Start
<1>3. ASSUME NEW when \in Marks, NEW then, RunMarked(when, then),
             \/ when = "start" /\ then \in {"model", "complete"}
             \/ when = "complete" /\ then = "ended"
      PROVE  SetupInv'
  <2>1. CASE next <= Len(marked[when])
    BY <1>3, <2>1, RunOne DEF RunMarked
  <2>2. CASE ~(next <= Len(marked[when]))
    <3>1. next > Len(marked[when])
      BY <1>3, <2>2, SeqDomain DEF SetupInv, SetupShape
    <3> QED
      BY <1>3, <2>2, <3>1, PhaseOver DEF RunMarked
  <2> QED
    BY <2>1, <2>2
<1>4. ASSUME NEW f, ModelCalls(f) PROVE SetupInv'
  BY <1>4, ModelCallsStep
<1>5. CASE ModelEnds
  BY <1>5, PhaseOver DEF ModelEnds
<1>6. CASE UNCHANGED setupVars
  <2> USE <1>6 DEF setupVars
  <2>1. SetupShape' = SetupShape /\ RanInv' = RanInv /\ RanCount' = RanCount /\ PhasesInv' = PhasesInv
    BY DEF SetupShape, RanInv, RanCount, PhasesInv
  <2>2. ToolsInv' = ToolsInv
    BY DEF ToolsInv, Tool, DataFor, Passed
  <2>3. MarkedInv' = MarkedInv
    BY DEF MarkedInv, MarkedAt, Passed
  <2>4. TurnsInv' = TurnsInv
    BY DEF TurnsInv, RunAt, TurnWas, RanAs, KeyOf
  <2> QED
    BY <2>1, <2>2, <2>3, <2>4 DEF SetupInv
<1> QED
  BY <1>1, <1>2, <1>3, <1>4, <1>5, <1>6 DEF SetupNext, Marks

\* Every step of a set-up and of the runs after it (setupTools,
\* executeToolsOnly) keeps the invariant.
THEOREM SetupInvariant == SetupSpec => []SetupInv
<1> QED
  BY SetupInvInit, SetupInvStep, PTL DEF SetupSpec

\* What a tool is made of comes from the entry it is registered for.
LEMMA ToolIs ==
  ASSUME NEW e
  PROVE  /\ Tool(e).name = e[2]
         /\ Tool(e).data \in given \cup {NoData}
         /\ e[2] \in NeedsData =>
              /\ e \in given => Tool(e).data = e
              /\ e \notin given /\ Bare(e[2]) \in given => Tool(e).data = Bare(e[2])
<1>1. DataFor(e) \in given \cup {NoData}
  BY DEF DataFor
<1>2. /\ e \in given => DataFor(e) = e
      /\ e \notin given /\ Bare(e[2]) \in given => DataFor(e) = Bare(e[2])
  BY DEF DataFor
<1> QED
  BY <1>1, <1>2 DEF Tool

\* The entries with a mark are run, those that exist, in their order.
LEMMA EachRan ==
  ASSUME SetupInv, NEW how \in Marks, phase # "setup",
         \A k \in DOMAIN marked[how] : TurnWas(how, k)
  PROVE  EachOnceIn(how)
<1> DEFINE which == {i \in DOMAIN config : config[i][1] = how /\ Found(config[i][2])}
<1>1. Matches(MarkedAt(how), config, DOMAIN marked[how], marked[how])
  BY DEF SetupInv, MarkedInv
<1>2. Matches(RunAt(how), marked[how], RanAs(how), KeyOf)
  BY DEF SetupInv, TurnsInv
<1>3. RunAt(how) \subseteq DOMAIN marked[how] /\ which \subseteq MarkedAt(how)
  BY DEF RunAt, MarkedAt, Passed
<1>4. \A i \in MarkedAt(how) : \A k \in DOMAIN marked[how] :
        config[i] = marked[how][k] => (i \in which <=> k \in RunAt(how))
  BY DEF RunAt, MarkedAt, Passed
<1> HIDE DEF which
<1>5. Matches(which, config, RanAs(how), KeyOf)
  BY <1>1, <1>2, <1>3, <1>4, MatchesThrough
<1>6. PICK f \in [which -> RanAs(how)] :
        /\ \A i, j \in which : i < j => f[i] < f[j]
        /\ \A i \in which : KeyOf[f[i]] = config[i]
        /\ \A n \in RanAs(how) : \E i \in which : f[i] = n
  BY <1>5 DEF Matches
<1>7. f \in [which -> DOMAIN ran]
  BY <1>6 DEF RanAs
<1>8. /\ \A i \in which : ran[f[i]].key = config[i]
      /\ \A n \in DOMAIN ran : ran[n].key[1] = how => \E i \in which : f[i] = n
  BY <1>6 DEF RanAs, KeyOf
<1> QED
  BY <1>6, <1>7, <1>8 DEF EachOnceIn, which

LEMMA InvSetsUpRight == SetupInv => ToolsSetUpRight
<1> SUFFICES ASSUME SetupInv PROVE ToolsSetUpRight
  OBVIOUS
<1>s. SetupShape /\ ToolsInv /\ RanInv /\ RanCount /\ PhasesInv
  BY DEF SetupInv
<1>1. SetupTypeOK
  <2>1. DOMAIN tools \subseteq Keys
    BY <1>s DEF ToolsInv
  <2>2. ASSUME NEW k \in DOMAIN tools
        PROVE  /\ tools[k].name \in BuiltIn \cup ((Described \cup Remote) \ Unreadable)
               /\ tools[k].data \in given \cup {NoData}
    <3>1. \E e : Found(e[2]) /\ tools[k] = Tool(e)
      BY <1>s, <2>2 DEF ToolsInv
    <3>2. PICK e : Found(e[2]) /\ tools[k] = Tool(e)
      BY <3>1
    <3> QED
      BY <3>2, ToolIs DEF Found, DescribedFound, RemoteFound
  <2>3. Len(ran) <= Len(config) + MaxModelCalls
    <3> DEFINE starts == Len(marked["start"])
               ends   == Len(marked["complete"])
               most   == Len(config)
    <3>1. starts \in Nat /\ ends \in Nat /\ most \in Nat /\ Len(ran) \in Nat /\ MaxModelCalls \in Nat
      BY <1>s, SeqDomain, ConfigFacts, SetupAssumption DEF SetupShape, Marks
    <3>2. starts + ends <= most /\ Len(ran) <= starts + MaxModelCalls + ends
      BY <1>s DEF RanCount
    <3> HIDE DEF starts, ends, most
    <3>3. Len(ran) <= most + MaxModelCalls
      BY <3>1, <3>2
    <3> QED
      BY <3>3 DEF most
  <2> QED
    BY <2>1, <2>2, <2>3 DEF SetupTypeOK
<1>2. OwnData
  <2> SUFFICES ASSUME NEW n \in DOMAIN ran, ran[n].key[1] # "plain"
               PROVE  LET e == ran[n].key IN
                      /\ ran[n].tool.name = e[2]
                      /\ e[2] \in NeedsData =>
                           /\ e \in given => ran[n].tool.data = e
                           /\ e \notin given /\ Bare(e[2]) \in given => ran[n].tool.data = Bare(e[2])
    BY DEF OwnData
  <2>1. ran[n].tool = Tool(ran[n].key)
    BY <1>s DEF RanInv, ToolsInv
  <2> QED
    BY <2>1, ToolIs
<1>3. OfferedOnce
  <2> SUFFICES ASSUME phase # "setup", NEW i \in DOMAIN config, Found(config[i][2]),
                      {j \in DOMAIN config : /\ Found(config[j][2])
                                             /\ FunctionKey(config[i][2]) \in
                                                  {config[j], FunctionKey(config[j][2])}} = {i}
               PROVE  LET k == FunctionKey(config[i][2]) IN k \in DOMAIN tools /\ tools[k] = Tool(config[i])
    BY DEF OfferedOnce
  <2> DEFINE k == FunctionKey(config[i][2])
  <2>1. i \in Passed
    BY DEF Passed
  <2>2. k \in DOMAIN tools /\ k[1] = "plain"
    BY <1>s, <2>1 DEF ToolsInv, FunctionKey, Bare
  <2>3. PICK j \in DOMAIN config : /\ Found(config[j][2])
                                   /\ k \in {config[j], FunctionKey(config[j][2])}
                                   /\ tools[k] = Tool(config[j])
    BY <1>s, <2>2 DEF ToolsInv
  <2>4. j = i
    BY <2>3
  <2> QED
    BY <2>2, <2>3, <2>4
<1>4. EachOnce
  <2>1. phase \in {"ended", "broken"} => EachOnceIn("start")
    BY EachRan DEF TurnWas, Marks
  <2>2. phase = "ended" => EachOnceIn("complete")
    BY EachRan DEF TurnWas, Marks
  <2> QED
    BY <1>s, <2>1, <2>2 DEF EachOnce, PhasesInv
<1> QED
  BY <1>1, <1>2, <1>3, <1>4 DEF ToolsSetUpRight

\* Tools that share a name do not get in each other's way: each runs with data
\* of its own, is offered as itself, and runs once if it is marked
\* (setupTools, executeToolsOnly), for any configuration and any tools.
THEOREM ToolsApart == SetupSpec => []ToolsSetUpRight
<1> QED
  BY SetupInvariant, InvSetsUpRight, PTL

-----------------------------------------------------------------------------
(***************************************************************************)
(* For any messages, any endings of replies and any number of messages     *)
(* shown: what a provider is asked is in order and has what it is about,   *)
(* and a call without a result is refused no more often than a rerun brings *)
(* it back, as every refusal puts at least two messages behind it.          *)
(***************************************************************************)
Said == Texts \cup {NoText, "answered", "paused", "failed"}

Rows == [bot: BOOLEAN, event: BOOLEAN, text: Said, file: BOOLEAN,
         calls: Seq(CallStates), source: Seq(Nat), gone: BOOLEAN]

\* Only a message of the bot has calls, and an event says nothing.
RowOK(r) ==
  /\ r.calls # <<>> => r.bot /\ ~r.event
  /\ r.event => r.text = NoText /\ ~r.file

RowsRight == rows \in Seq(Rows) /\ \A i \in DOMAIN rows : RowOK(rows[i])

AllKinds == {"user", "assistant", "calls", "result"}

RequestEntries == [kind: AllKinds, row: 1 .. Len(rows), call: Nat]

HistoryShape ==
  /\ context \in 1 .. MaxContext
  /\ RowsRight
  /\ queued \in 0 .. Len(rows) /\ current \in 0 .. Len(rows)
  /\ stage \in {"idle", "loaded", "asked"}
  /\ stage = "idle" <=> current = 0
  /\ request \in Seq(RequestEntries)
  /\ stage # "asked" => request = <<>>
  /\ refused \in Nat

\* What is replied to is from a user, or tells of a call that has its result.
MayBeAskedIn(rs, m) ==
  m # 0 =>
    /\ ~rs[m].bot
    /\ rs[m].event =>
         \E i \in DOMAIN rs : \E k \in DOMAIN rs[i].calls :
           /\ rs[m].source = <<i, k>>
           /\ rs[i].bot /\ ~rs[i].event
           /\ rs[i].calls[k] \in {"done", "silent"}

MayBeAsked(m) == MayBeAskedIn(rows, m)

\* A refusal, and the reply under way, are behind the call that has no result.
Behind ==
  2 * refused + (IF queued # 0 THEN 1 ELSE 0) + (IF stage # "idle" THEN 1 ELSE 0)

BehindInv ==
  \A i \in Live : Unanswered(rows[i].calls) => Cardinality(Newer(i)) + 1 >= Behind

\* Since the call was left, or since the last rerun, no more than that are refused.
RefusedFew == 2 * refused <= context + 1

RefusedInv ==
  /\ RefusedFew
  /\ stage = "asked" /\ Refusable => refused = 0 \/ 2 * refused < context

HistoryInv ==
  /\ HistoryShape
  /\ MayBeAsked(queued) /\ MayBeAsked(current)
  /\ RequestInOrder
  /\ BehindInv
  /\ RefusedInv

-----------------------------------------------------------------------------
LEMMA UnansweredOne ==
  ASSUME NEW x
  PROVE  Unanswered(<<x>>) <=> x \in {"open", "silent"}
<1>1. DOMAIN <<x>> = {1} /\ <<x>>[1] = x
  OBVIOUS
<1> DEFINE s == <<x>>
<1>2. DOMAIN s = {1} /\ s[1] = x
  BY <1>1
<1> HIDE DEF s
<1>3. Range(s) = {x}
  BY <1>2 DEF Range
<1> QED
  BY <1>3 DEF Unanswered, s

LEMMA EntryIs ==
  ASSUME NEW kind, NEW i, NEW k
  PROVE  /\ IsSeq(Entry(kind, i, k)) /\ DOMAIN Entry(kind, i, k) = {1}
         /\ Len(Entry(kind, i, k)) = 1
         /\ Entry(kind, i, k)[1] = [kind |-> kind, row |-> i, call |-> k]
<1> DEFINE e == [kind |-> kind, row |-> i, call |-> k]
<1> HIDE DEF e
<1>1. <<e>> \in Seq({e}) /\ DOMAIN <<e>> = {1} /\ Len(<<e>>) = 1 /\ <<e>>[1] = e
  OBVIOUS
<1>2. IsSeq(<<e>>)
  BY <1>1, SeqOfSet
<1> QED
  BY <1>1, <1>2 DEF Entry, e

Result(i, k) == [kind |-> "result", row |-> i, call |-> k]

\* The results of a message are those of its calls, in their order.
LEMMA ResultsAre ==
  ASSUME NEW i, rows[i].calls \in Seq(CallStates)
  PROVE  /\ IsSeq(Results(i))
         /\ \A a \in DOMAIN Results(i) :
              \E k \in DOMAIN rows[i].calls : Results(i)[a] = Result(i, k)
         /\ \A k \in DOMAIN rows[i].calls :
              rows[i].calls[k] \notin {"open", "silent"} =>
                \E a \in DOMAIN Results(i) : Results(i)[a] = Result(i, k)
         /\ \A a, b \in DOMAIN Results(i) : a < b => Results(i)[a].call < Results(i)[b].call
<1> DEFINE c == rows[i].calls
           s == [k \in DOMAIN c |-> IF Unanswered(<<c[k]>>) THEN <<>> ELSE Entry("result", i, k)]
<1>1. Len(c) \in Nat /\ DOMAIN c = 1 .. Len(c)
  OBVIOUS
<1> HIDE DEF c
<1>2. \A k \in DOMAIN c :
        s[k] = IF c[k] \in {"open", "silent"} THEN <<>> ELSE Entry("result", i, k)
  BY UnansweredOne
<1>3. DOMAIN s = 1 .. Len(c) /\ s = [k \in 1 .. Len(c) |-> s[k]]
  BY <1>1
<1>4. Results(i) = FlattenSeq(s)
  BY DEF Results, c
<1> HIDE DEF s
<1>5. IsSeq(s) /\ Len(s) = Len(c) /\ DOMAIN s = DOMAIN c
  BY <1>1, <1>3, IsSeqOfFunction
<1>6. \A k \in DOMAIN s : IsSeq(s[k])
  <2> TAKE k \in DOMAIN s
  <2>1. IsSeq(Entry("result", i, k))
    BY EntryIs
  <2> QED
    BY <1>2, <1>5, <2>1, EmptyIsSeq
<1>7. \A k \in DOMAIN c : \A j \in DOMAIN s[k] : s[k][j] = Result(i, k) /\ j = 1
  <2> TAKE k \in DOMAIN c
  <2>1. CASE c[k] \in {"open", "silent"}
    BY <1>2, <2>1
  <2>2. CASE c[k] \notin {"open", "silent"}
    BY <1>2, <2>2, EntryIs DEF Result
  <2> QED
    BY <2>1, <2>2
<1>8. \A k \in DOMAIN c : c[k] \notin {"open", "silent"} => 1 \in DOMAIN s[k]
  <2> TAKE k \in DOMAIN c
  <2>1. DOMAIN Entry("result", i, k) = {1}
    BY EntryIs
  <2> QED
    BY <1>2, <2>1
<1> DEFINE t == FlattenSeq(s)
<1>9. FlatTo(t, s, Len(c))
  BY <1>5, <1>6, FlattenSeqIs
<1> HIDE DEF t
<1>10. \A a \in DOMAIN t : \E k \in DOMAIN c : t[a] = Result(i, k)
  BY <1>1, <1>7, <1>9 DEF FlatTo
<1>11. \A k \in DOMAIN c : c[k] \notin {"open", "silent"} => \E a \in DOMAIN t : t[a] = Result(i, k)
  BY <1>1, <1>7, <1>8, <1>9 DEF FlatTo
<1>12. ASSUME NEW a \in DOMAIN t, NEW b \in DOMAIN t, a < b
       PROVE  t[a].call < t[b].call
  <2>1. PICK k \in 1 .. Len(c), l \in 1 .. Len(c) :
          \E x \in DOMAIN s[k] : \E y \in DOMAIN s[l] :
            t[a] = s[k][x] /\ t[b] = s[l][y] /\ (k < l \/ (k = l /\ x < y))
    BY <1>9, <1>12 DEF FlatTo
  <2>2. t[a] = Result(i, k) /\ t[b] = Result(i, l) /\ k < l
    BY <1>1, <1>7, <2>1
  <2> QED
    BY <2>2 DEF Result
<1> QED
  BY <1>4, <1>9, <1>10, <1>11, <1>12 DEF FlatTo, t, c

\* An entry may follow one of the same message.
MayFollow(d, e) ==
  e.kind \in {"result", "assistant"} /\ (d.call < e.call \/ e.kind = "assistant")

ShownRight(i, s) ==
  /\ IsSeq(s)
  /\ \A a \in DOMAIN s :
       /\ s[a] \in [kind: AllKinds, row: {i}, call: Nat]
       /\ s[a].kind = "user" => ~rows[i].bot /\ ~rows[i].event /\ a = 1 /\ DOMAIN s = {1}
  /\ \A a, b \in DOMAIN s : a < b => MayFollow(s[a], s[b])
  /\ ~rows[i].bot /\ ~rows[i].event => DOMAIN s = {1} /\ s[1].kind = "user"
  /\ rows[i].bot /\ ~rows[i].event =>
       \A k \in DOMAIN rows[i].calls :
         rows[i].calls[k] \notin {"open", "silent"} =>
           \E a \in DOMAIN s : s[a] = Result(i, k)

LEMMA ShownAre ==
  ASSUME NEW i, rows[i] \in Rows, RowOK(rows[i])
  PROVE  ShownRight(i, Shown(i))
<1> DEFINE r == rows[i]
<1> HIDE DEF r
<1>0. r \in Rows /\ RowOK(r)
  BY DEF r
<1>1. CASE r.event
  <2>1. Shown(i) = <<>>
    BY <1>1 DEF Shown, r
  <2> QED
    BY <1>1, <2>1, EmptyIsSeq DEF ShownRight, r
<1>2. CASE ~r.event /\ ~r.bot
  <2>1. Shown(i) = Entry("user", i, 0)
    BY <1>2 DEF Shown, r
  <2> DEFINE s == Entry("user", i, 0)
  <2>2. IsSeq(s) /\ DOMAIN s = {1} /\ s[1] = [kind |-> "user", row |-> i, call |-> 0]
    BY EntryIs
  <2> HIDE DEF s
  <2>3. \A a \in DOMAIN s : s[a] \in [kind: AllKinds, row: {i}, call: Nat]
    BY <2>2 DEF AllKinds
  <2>4. \A a, b \in DOMAIN s : ~ (a < b)
    BY <2>2
  <2>5. ShownRight(i, s)
    BY <1>2, <2>2, <2>3, <2>4 DEF ShownRight, r
  <2> QED
    BY <2>1, <2>5 DEF s
<1>3. CASE ~r.event /\ r.bot
  <2> DEFINE x == Entry("calls", i, 0)
             y == Results(i)
             u == IF r.calls # <<>> THEN x \o y ELSE <<>>
             v == IF r.text # NoText THEN Entry("assistant", i, 0) ELSE <<>>
             s == u \o v
  <2>1. Shown(i) = s
    BY <1>3 DEF Shown, r
  <2>2. /\ IsSeq(x) /\ Len(x) = 1 /\ DOMAIN x = {1}
        /\ x[1] = [kind |-> "calls", row |-> i, call |-> 0]
    BY EntryIs
  <2>3. r.calls \in Seq(CallStates)
    BY <1>0 DEF Rows
  <2>4. /\ IsSeq(y)
        /\ \A a \in DOMAIN y : \E k \in DOMAIN r.calls : y[a] = Result(i, k)
        /\ \A k \in DOMAIN r.calls :
             r.calls[k] \notin {"open", "silent"} => \E a \in DOMAIN y : y[a] = Result(i, k)
        /\ \A a, b \in DOMAIN y : a < b => y[a].call < y[b].call
    BY <2>3, ResultsAre DEF r
  <2>5. DOMAIN r.calls \subseteq Nat \ {0}
    BY <2>3
  <2> HIDE DEF x, y
  <2> DEFINE w == x \o y
  <2>6. /\ IsSeq(w) /\ Len(w) = 1 + Len(y) /\ DOMAIN w = 1 .. Len(w) /\ Len(y) \in Nat
        /\ DOMAIN y = 1 .. Len(y)
        /\ w[1] = x[1] /\ \A a \in 1 .. Len(y) : w[1 + a] = y[a]
    <3>1. /\ IsSeq(w) /\ Len(w) = Len(x) + Len(y)
          /\ \A a \in 1 .. Len(x) : w[a] = x[a]
          /\ \A a \in 1 .. Len(y) : w[Len(x) + a] = y[a]
      <4>1. IsSeq(x) /\ IsSeq(y)
        BY <2>2, <2>4
      <4> QED
        BY <4>1, ConcatIsSeq
    <3>2. Len(w) \in Nat /\ DOMAIN w = 1 .. Len(w) /\ Len(y) \in Nat /\ DOMAIN y = 1 .. Len(y)
      BY <2>4, <3>1, SeqDomain
    <3> HIDE DEF w
    <3> QED
      BY <2>2, <3>1, <3>2
  <2> HIDE DEF w
  <2>7. \A a \in DOMAIN w : a # 1 => a - 1 \in DOMAIN y /\ w[a] = y[a - 1]
    <3> TAKE a \in DOMAIN w
    <3> SUFFICES ASSUME a # 1 PROVE a - 1 \in DOMAIN y /\ w[a] = y[a - 1]
      OBVIOUS
    <3>1. a - 1 \in 1 .. Len(y) /\ 1 + (a - 1) = a
      BY <2>6
    <3> QED
      BY <2>6, <3>1
  <2>8. \A a \in DOMAIN w : \/ a = 1 /\ w[a] = [kind |-> "calls", row |-> i, call |-> 0]
                           \/ \E k \in Nat \ {0} : w[a] = Result(i, k)
    BY <2>2, <2>4, <2>5, <2>6, <2>7
  <2>9. \A a, b \in DOMAIN w : a < b => w[b].kind = "result" /\ w[a].call < w[b].call
    <3> SUFFICES ASSUME NEW a \in DOMAIN w, NEW b \in DOMAIN w, a < b
                 PROVE  w[b].kind = "result" /\ w[a].call < w[b].call
      OBVIOUS
    <3>1. b # 1 /\ b - 1 \in DOMAIN y /\ w[b] = y[b - 1]
      BY <2>6, <2>7
    <3>2. PICK k \in Nat \ {0} : w[b] = Result(i, k)
      BY <2>4, <2>5, <3>1
    <3>3. CASE a = 1
      BY <2>2, <2>6, <3>2, <3>3 DEF Result
    <3>4. CASE a # 1
      <4>1. a - 1 \in DOMAIN y /\ w[a] = y[a - 1] /\ a - 1 < b - 1
        BY <2>6, <2>7, <3>4
      <4>2. y[a - 1].call < y[b - 1].call
        BY <2>4, <3>1, <4>1
      <4>3. w[b].kind = "result"
        BY <3>2 DEF Result
      <4> QED
        BY <3>1, <4>1, <4>2, <4>3
    <3> QED
      BY <3>3, <3>4
  <2>10. \A k \in DOMAIN r.calls :
           r.calls[k] \notin {"open", "silent"} => \E a \in DOMAIN w : w[a] = Result(i, k)
    <3> SUFFICES ASSUME NEW k \in DOMAIN r.calls, r.calls[k] \notin {"open", "silent"}
                 PROVE  \E a \in DOMAIN w : w[a] = Result(i, k)
      OBVIOUS
    <3>1. PICK a \in DOMAIN y : y[a] = Result(i, k)
      BY <2>4
    <3>2. 1 + a \in DOMAIN w /\ w[1 + a] = y[a]
      BY <2>6
    <3> QED
      BY <3>1, <3>2
  <2>11. /\ IsSeq(u)
         /\ \A a \in DOMAIN u : r.calls # <<>> /\ a \in DOMAIN w /\ u[a] = w[a]
         /\ r.calls # <<>> => u = w
    BY <2>6, EmptyIsSeq DEF w
  <2>12. /\ IsSeq(v)
         /\ \A a \in DOMAIN v : a = 1 /\ v[a] = [kind |-> "assistant", row |-> i, call |-> 0]
    <3>1. CASE r.text # NoText
      <4> DEFINE e == Entry("assistant", i, 0)
      <4>1. v = e
        BY <3>1
      <4>2. IsSeq(e) /\ DOMAIN e = {1} /\ e[1] = [kind |-> "assistant", row |-> i, call |-> 0]
        BY EntryIs
      <4> HIDE DEF e, v
      <4> QED
        BY <4>1, <4>2
    <3>2. CASE r.text = NoText
      BY <3>2, EmptyIsSeq
    <3> QED
      BY <3>1, <3>2
  <2> HIDE DEF u, v
  <2>13. /\ IsSeq(s) /\ Len(s) = Len(u) + Len(v) /\ DOMAIN s = 1 .. Len(s)
         /\ Len(u) \in Nat /\ DOMAIN u = 1 .. Len(u)
         /\ Len(v) \in Nat /\ DOMAIN v = 1 .. Len(v)
         /\ \A a \in 1 .. Len(u) : s[a] = u[a]
         /\ \A a \in 1 .. Len(v) : s[Len(u) + a] = v[a]
    BY <2>11, <2>12, ConcatIsSeq, SeqDomain
  <2> HIDE DEF s
  <2>14. \A a \in DOMAIN s : \/ a \in DOMAIN w /\ a \in DOMAIN u /\ s[a] = w[a]
                            \/ /\ a > Len(u) /\ a = Len(s)
                               /\ s[a] = [kind |-> "assistant", row |-> i, call |-> 0]
    <3> TAKE a \in DOMAIN s
    <3>1. CASE a <= Len(u)
      BY <2>11, <2>13, <3>1
    <3>2. CASE ~ (a <= Len(u))
      <4>1. a - Len(u) \in DOMAIN v /\ Len(u) + (a - Len(u)) = a
        BY <2>13, <3>2
      <4>2. s[a] = v[a - Len(u)] /\ a - Len(u) = 1 /\ Len(v) \in DOMAIN v /\ Len(v) = 1
        BY <2>12, <2>13, <4>1
      <4> QED
        BY <2>12, <2>13, <3>2, <4>1, <4>2
    <3> QED
      BY <3>1, <3>2
  <2>15. \A a \in DOMAIN s : /\ s[a] \in [kind: AllKinds, row: {i}, call: Nat]
                            /\ s[a].kind # "user"
    <3> TAKE a \in DOMAIN s
    <3>1. CASE a \in DOMAIN w /\ s[a] = w[a]
      BY <2>8, <3>1 DEF Result, AllKinds
    <3>2. CASE s[a] = [kind |-> "assistant", row |-> i, call |-> 0]
      BY <3>2 DEF AllKinds
    <3> QED
      BY <2>14, <3>1, <3>2
  <2>16. ASSUME NEW a \in DOMAIN s, NEW b \in DOMAIN s, a < b PROVE MayFollow(s[a], s[b])
    <3>1. CASE b \in DOMAIN w /\ b \in DOMAIN u /\ s[b] = w[b]
      <4>1. a \in DOMAIN w /\ s[a] = w[a]
        BY <2>13, <2>14, <2>16, <3>1
      <4> QED
        BY <2>9, <2>16, <3>1, <4>1 DEF MayFollow
    <3>2. CASE s[b] = [kind |-> "assistant", row |-> i, call |-> 0]
      BY <3>2 DEF MayFollow
    <3> QED
      BY <2>14, <3>1, <3>2
  <2>17. ASSUME NEW k \in DOMAIN r.calls, r.calls[k] \notin {"open", "silent"}
         PROVE  \E a \in DOMAIN s : s[a] = Result(i, k)
    <3>1. PICK a \in DOMAIN w : w[a] = Result(i, k)
      BY <2>10, <2>17
    <3>2. r.calls # <<>>
      OBVIOUS
    <3>3. a \in DOMAIN u /\ u[a] = w[a]
      BY <2>11, <3>2
    <3>4. a \in DOMAIN s /\ s[a] = u[a]
      BY <2>13, <3>3
    <3> QED
      BY <3>1, <3>3, <3>4
  <2>18. ShownRight(i, s)
    BY <1>3, <2>13, <2>15, <2>16, <2>17 DEF ShownRight, r
  <2> QED
    BY <2>1, <2>18
<1> QED
  BY <1>0, <1>1, <1>2, <1>3 DEF Rows

\* The rows of the window, one after the other.
HistoryRight(h) ==
  /\ IsSeq(h)
  /\ \A k \in DOMAIN h : \E i \in Window : \E a \in DOMAIN Shown(i) : h[k] = Shown(i)[a]
  /\ \A i \in Window : \A a \in DOMAIN Shown(i) : \E k \in DOMAIN h : h[k] = Shown(i)[a]
  /\ \A k, l \in DOMAIN h : k < l =>
       \E i, j \in Window : \E a \in DOMAIN Shown(i) : \E b \in DOMAIN Shown(j) :
         h[k] = Shown(i)[a] /\ h[l] = Shown(j)[b] /\ (i < j \/ (i = j /\ a < b))

LEMMA HistoryIs ==
  ASSUME RowsRight
  PROVE  HistoryRight(FlattenSeq(History))
<1> DEFINE s == History
           n == Len(rows)
           h == FlattenSeq(s)
<1>1. n \in Nat /\ DOMAIN rows = 1 .. n /\ \A i \in 1 .. n : rows[i] \in Rows /\ RowOK(rows[i])
  BY DEF RowsRight
<1>2. \A i \in 1 .. n : s[i] = IF i \in Window THEN Shown(i) ELSE <<>>
  BY <1>1 DEF History
<1>3. DOMAIN s = 1 .. n /\ s = [i \in 1 .. n |-> s[i]]
  BY <1>1 DEF History
<1>4. Window \subseteq 1 .. n
  BY <1>1 DEF Window, Live
<1> HIDE DEF s, n
<1>5. IsSeq(s) /\ Len(s) = n
  BY <1>1, <1>3, IsSeqOfFunction
<1>6. \A i \in 1 .. n : IsSeq(s[i])
  <2> TAKE i \in 1 .. n
  <2>1. IsSeq(Shown(i))
    BY <1>1, ShownAre DEF ShownRight
  <2> QED
    BY <1>2, <2>1, EmptyIsSeq
<1>7. \A i \in 1 .. n : \A a \in DOMAIN s[i] : i \in Window /\ s[i] = Shown(i) /\ a \in DOMAIN Shown(i)
  BY <1>2
<1>8. \A i \in Window : i \in 1 .. n /\ s[i] = Shown(i)
  BY <1>2, <1>4
<1>9. FlatTo(h, s, n)
  BY <1>3, <1>5, <1>6, FlattenSeqIs
<1> HIDE DEF h
<1>10. \A k \in DOMAIN h : \E i \in Window : \E a \in DOMAIN Shown(i) : h[k] = Shown(i)[a]
  <2> TAKE k \in DOMAIN h
  <2>1. PICK i \in 1 .. n : \E a \in DOMAIN s[i] : h[k] = s[i][a]
    BY <1>9 DEF FlatTo
  <2>2. PICK a \in DOMAIN s[i] : h[k] = s[i][a]
    BY <2>1
  <2>3. i \in Window /\ a \in DOMAIN Shown(i) /\ h[k] = Shown(i)[a]
    BY <1>7, <2>2
  <2> QED
    BY <2>3
<1>11. \A i \in Window : \A a \in DOMAIN Shown(i) : \E k \in DOMAIN h : h[k] = Shown(i)[a]
  BY <1>8, <1>9 DEF FlatTo
<1>12. ASSUME NEW k \in DOMAIN h, NEW l \in DOMAIN h, k < l
       PROVE  \E i, j \in Window : \E a \in DOMAIN Shown(i) : \E b \in DOMAIN Shown(j) :
                h[k] = Shown(i)[a] /\ h[l] = Shown(j)[b] /\ (i < j \/ (i = j /\ a < b))
  <2>1. PICK i \in 1 .. n, j \in 1 .. n : \E a \in DOMAIN s[i] : \E b \in DOMAIN s[j] :
          h[k] = s[i][a] /\ h[l] = s[j][b] /\ (i < j \/ (i = j /\ a < b))
    BY <1>9, <1>12 DEF FlatTo
  <2>2. PICK a \in DOMAIN s[i], b \in DOMAIN s[j] :
          h[k] = s[i][a] /\ h[l] = s[j][b] /\ (i < j \/ (i = j /\ a < b))
    BY <2>1
  <2>3. i \in Window /\ s[i] = Shown(i) /\ j \in Window /\ s[j] = Shown(j)
    BY <1>7
  <2> QED
    BY <2>2, <2>3
<1> QED
  BY <1>9, <1>10, <1>11, <1>12 DEF HistoryRight, FlatTo, h, s

Asks(m) == [kind |-> "user", row |-> m, call |-> 0]

\* The request has what the messages of the window show, and last the message
\* that is replied to, if that is not among them.
LEMMA RequestIs ==
  ASSUME RowsRight, NEW m \in DOMAIN rows
  PROVE  \E h : /\ HistoryRight(h)
                /\ IsSeq(RequestFor(m))
                /\ \A k \in DOMAIN h : k \in DOMAIN RequestFor(m) /\ RequestFor(m)[k] = h[k]
                /\ \/ /\ Included(m) \/ Empty(m)
                      /\ Len(RequestFor(m)) = Len(h)
                   \/ /\ ~Included(m) /\ ~Empty(m)
                      /\ Len(RequestFor(m)) = Len(h) + 1
                      /\ RequestFor(m)[Len(h) + 1] = Asks(m)
<1> DEFINE h == FlattenSeq(History)
           e == IF Included(m) \/ Empty(m) THEN <<>> ELSE Entry("user", m, 0)
           q == h \o e
<1>1. HistoryRight(h)
  BY HistoryIs
<1>2. q = RequestFor(m)
  BY DEF RequestFor
<1> HIDE DEF h
<1>3. IsSeq(h)
  BY <1>1 DEF HistoryRight
<1>4. IsSeq(e)
  BY EntryIs, EmptyIsSeq
<1>5. IF Included(m) \/ Empty(m) THEN Len(e) = 0 ELSE Len(e) = 1 /\ e[1] = Asks(m)
  <2>1. CASE Included(m) \/ Empty(m)
    BY <2>1, EmptyIsSeq
  <2>2. CASE ~ (Included(m) \/ Empty(m))
    <3>1. e = Entry("user", m, 0)
      BY <2>2
    <3> HIDE DEF e
    <3> QED
      BY <2>2, <3>1, EntryIs DEF Asks
  <2> QED
    BY <2>1, <2>2
<1> HIDE DEF e
<1>6. /\ IsSeq(q) /\ Len(q) = Len(h) + Len(e)
      /\ \A k \in 1 .. Len(h) : q[k] = h[k]
      /\ \A k \in 1 .. Len(e) : q[Len(h) + k] = e[k]
  BY <1>3, <1>4, ConcatIsSeq
<1> HIDE DEF q
<1>7. /\ Len(h) \in Nat /\ DOMAIN h = 1 .. Len(h)
      /\ Len(q) \in Nat /\ DOMAIN q = 1 .. Len(q)
  BY <1>3, <1>6, SeqDomain
<1>8. \A k \in DOMAIN h : k \in DOMAIN q /\ q[k] = h[k]
  BY <1>5, <1>6, <1>7
<1>9. \/ (Included(m) \/ Empty(m)) /\ Len(q) = Len(h)
      \/ ~Included(m) /\ ~Empty(m) /\ Len(q) = Len(h) + 1 /\ q[Len(h) + 1] = Asks(m)
  <2>1. CASE Included(m) \/ Empty(m)
    <3>1. Len(e) = 0
      BY <1>5, <2>1
    <3>2. Len(q) = Len(h)
      BY <1>6, <1>7, <3>1
    <3> QED
      BY <2>1, <3>2
  <2>2. CASE ~ (Included(m) \/ Empty(m))
    <3>1. Len(e) = 1 /\ e[1] = Asks(m)
      BY <1>5, <2>2
    <3>2. q[Len(h) + 1] = e[1]
      BY <1>6, <3>1
    <3> QED
      BY <1>6, <2>2, <3>1, <3>2
  <2> QED
    BY <2>1, <2>2
<1> QED
  BY <1>1, <1>2, <1>6, <1>8, <1>9

\* Where two entries of the messages stand.
LEMMA Between ==
  ASSUME RowsRight, NEW h, HistoryRight(h), NEW k \in DOMAIN h, NEW l \in DOMAIN h, k < l
  PROVE  \/ h[k].row < h[l].row
         \/ h[k].row = h[l].row /\ MayFollow(h[k], h[l])
<1>1. PICK i \in Window, j \in Window : \E a \in DOMAIN Shown(i) : \E b \in DOMAIN Shown(j) :
        h[k] = Shown(i)[a] /\ h[l] = Shown(j)[b] /\ (i < j \/ (i = j /\ a < b))
  BY DEF HistoryRight
<1>2. PICK a \in DOMAIN Shown(i), b \in DOMAIN Shown(j) :
        h[k] = Shown(i)[a] /\ h[l] = Shown(j)[b] /\ (i < j \/ (i = j /\ a < b))
  BY <1>1
<1>3. ShownRight(i, Shown(i)) /\ ShownRight(j, Shown(j))
  <2>1. rows[i] \in Rows /\ RowOK(rows[i]) /\ rows[j] \in Rows /\ RowOK(rows[j])
    BY DEF Window, Live, RowsRight
  <2> QED
    BY <2>1, ShownAre
<1>4. h[k].row = i /\ h[l].row = j
  BY <1>2, <1>3 DEF ShownRight
<1>5. CASE i < j
  BY <1>4, <1>5
<1>6. CASE i = j /\ a < b
  BY <1>2, <1>3, <1>4, <1>6 DEF ShownRight
<1> QED
  BY <1>2, <1>5, <1>6

\* Entries are of rows in the window, and of a kind; a row of a user has one.
LEMMA OneEntry ==
  ASSUME RowsRight, NEW h, HistoryRight(h), NEW k \in DOMAIN h
  PROVE  /\ h[k] \in [kind: AllKinds, row: Window, call: Nat]
         /\ h[k].kind = "user" => ~rows[h[k].row].bot /\ ~rows[h[k].row].event
         /\ h[k].kind = "user" =>
              \A l \in DOMAIN h : h[l].row = h[k].row => l = k
<1>1. PICK i \in Window : \E a \in DOMAIN Shown(i) : h[k] = Shown(i)[a]
  BY DEF HistoryRight
<1>2. PICK a \in DOMAIN Shown(i) : h[k] = Shown(i)[a]
  BY <1>1
<1>3. \A j \in Window : ShownRight(j, Shown(j))
  <2> TAKE j \in Window
  <2>1. rows[j] \in Rows /\ RowOK(rows[j])
    BY DEF Window, Live, RowsRight
  <2> QED
    BY <2>1, ShownAre
<1>4. h[k] \in [kind: AllKinds, row: Window, call: Nat] /\ h[k].row = i
  BY <1>2, <1>3 DEF ShownRight
<1>5. h[k].kind = "user" => ~rows[i].bot /\ ~rows[i].event /\ DOMAIN Shown(i) = {1}
  BY <1>2, <1>3 DEF ShownRight
<1>6. ASSUME NEW l \in DOMAIN h, h[l].row = i, h[k].kind = "user" PROVE l = k
  <2> SUFFICES ASSUME l # k PROVE FALSE
    OBVIOUS
  <2>1. k \in Nat /\ l \in Nat
    BY SeqDomain DEF HistoryRight
  <2>2. PICK x \in DOMAIN h, y \in DOMAIN h : x < y /\ {x, y} = {k, l}
    <3>1. CASE k < l
      BY <3>1
    <3>2. CASE l < k
      BY <3>2
    <3> QED
      BY <2>1, <3>1, <3>2
  <2>3. PICK u \in Window, v \in Window : \E b \in DOMAIN Shown(u) : \E c \in DOMAIN Shown(v) :
          h[x] = Shown(u)[b] /\ h[y] = Shown(v)[c] /\ (u < v \/ (u = v /\ b < c))
    BY <2>2 DEF HistoryRight
  <2>4. PICK b \in DOMAIN Shown(u), c \in DOMAIN Shown(v) :
          h[x] = Shown(u)[b] /\ h[y] = Shown(v)[c] /\ (u < v \/ (u = v /\ b < c))
    BY <2>3
  <2>5. h[x].row = u /\ h[y].row = v
    BY <1>3, <2>4 DEF ShownRight
  <2>6. h[x].row = i /\ h[y].row = i
    BY <1>4, <1>6, <2>2
  <2>7. i \in Nat
    BY DEF Window, Live, RowsRight
  <2>8. b < c /\ b = 1 /\ c = 1
    BY <1>5, <1>6, <2>4, <2>5, <2>6, <2>7
  <2> QED
    BY <2>8
<1> QED
  BY <1>4, <1>5, <1>6

OrderedUpTo(q, m) ==
  \A k \in 2 .. Len(q) :
    \/ q[k - 1].row < q[k].row
    \/ k = Len(q) /\ q[k].row = m /\ q[k - 1].row # m
    \/ q[k - 1].row = q[k].row /\ MayFollow(q[k - 1], q[k])

LEMMA Displaced ==
  ASSUME RowsRight, NEW m \in DOMAIN rows, ~Included(m), ~Empty(m)
  PROVE  m \notin Window /\ ~rows[m].event
<1>1. ~rows[m].event
  BY DEF RowsRight, RowOK, Empty
<1> QED
  BY <1>1 DEF Included

LEMMA RequestRight ==
  ASSUME RowsRight, NEW m \in DOMAIN rows
  PROVE  /\ RequestFor(m) \in Seq(RequestEntries)
         /\ OrderedUpTo(RequestFor(m), m)
         /\ \A k \in DOMAIN RequestFor(m) :
              RequestFor(m)[k].kind # "user" => RequestFor(m)[k].row \in Window
<1>1. PICK h : /\ HistoryRight(h)
               /\ IsSeq(RequestFor(m))
               /\ \A k \in DOMAIN h : k \in DOMAIN RequestFor(m) /\ RequestFor(m)[k] = h[k]
               /\ \/ /\ Included(m) \/ Empty(m)
                     /\ Len(RequestFor(m)) = Len(h)
                  \/ /\ ~Included(m) /\ ~Empty(m)
                     /\ Len(RequestFor(m)) = Len(h) + 1
                     /\ RequestFor(m)[Len(h) + 1] = Asks(m)
  BY RequestIs
<1> DEFINE q == RequestFor(m)
<1> HIDE DEF q
<1>2. IsSeq(q) /\ IsSeq(h)
  BY <1>1 DEF q, HistoryRight
<1>3. /\ Len(q) \in Nat /\ DOMAIN q = 1 .. Len(q)
      /\ Len(h) \in Nat /\ DOMAIN h = 1 .. Len(h)
  BY <1>2, SeqDomain
<1>4. \A k \in DOMAIN q : \/ k \in DOMAIN h /\ q[k] = h[k]
                         \/ /\ k = Len(h) + 1 /\ k = Len(q)
                            /\ q[k] = Asks(m) /\ m \notin Window
  <2>1. CASE Included(m) \/ Empty(m)
    <3>1. Len(q) = Len(h)
      BY <1>1, <2>1 DEF q
    <3> QED
      BY <1>1, <1>3, <3>1 DEF q
  <2>2. CASE ~Included(m) /\ ~Empty(m)
    <3>1. Len(q) = Len(h) + 1 /\ q[Len(h) + 1] = Asks(m)
      BY <1>1, <2>2 DEF q
    <3>2. m \notin Window
      BY <2>2, Displaced
    <3>3. \A k \in DOMAIN h : q[k] = h[k]
      BY <1>1 DEF q
    <3> QED
      BY <1>3, <3>1, <3>2, <3>3
  <2> QED
    BY <2>1, <2>2
<1>5. Window \subseteq 1 .. Len(rows) /\ m \in 1 .. Len(rows)
  BY DEF Window, Live, RowsRight
<1>6. \A k \in DOMAIN h : h[k] \in [kind: AllKinds, row: Window, call: Nat]
  BY <1>1, OneEntry
<1>7. \A k \in DOMAIN q : q[k] \in RequestEntries
  <2> TAKE k \in DOMAIN q
  <2>1. CASE k \in DOMAIN h /\ q[k] = h[k]
    BY <1>5, <1>6, <2>1 DEF RequestEntries
  <2>2. CASE q[k] = Asks(m)
    BY <1>5, <2>2 DEF RequestEntries, Asks, AllKinds
  <2> QED
    BY <1>4, <2>1, <2>2
<1>8. q \in Seq(RequestEntries)
  BY <1>2, <1>3, <1>7 DEF IsSeq
<1>9. \A k \in DOMAIN q : q[k].kind # "user" => q[k].row \in Window
  BY <1>4, <1>6 DEF Asks
<1>10. ASSUME NEW k \in 2 .. Len(q)
       PROVE  \/ q[k - 1].row < q[k].row
              \/ k = Len(q) /\ q[k].row = m /\ q[k - 1].row # m
              \/ q[k - 1].row = q[k].row /\ MayFollow(q[k - 1], q[k])
  <2>1. k \in DOMAIN q /\ k - 1 \in DOMAIN q /\ k - 1 < k
    BY <1>3
  <2>2. CASE k \in DOMAIN h /\ q[k] = h[k]
    <3>1. k - 1 \in DOMAIN h /\ q[k - 1] = h[k - 1]
      BY <1>3, <1>4, <2>1, <2>2
    <3>2. \/ h[k - 1].row < h[k].row
          \/ h[k - 1].row = h[k].row /\ MayFollow(h[k - 1], h[k])
      BY <1>1, <2>1, <2>2, <3>1, Between
    <3> QED
      BY <2>2, <3>1, <3>2
  <2>3. CASE k = Len(h) + 1 /\ k = Len(q) /\ q[k] = Asks(m) /\ m \notin Window
    <3>1. k - 1 \in DOMAIN h /\ q[k - 1] = h[k - 1]
      BY <1>3, <1>4, <2>1, <2>3
    <3> QED
      BY <1>6, <2>3, <3>1 DEF Asks
  <2> QED
    BY <1>4, <2>1, <2>2, <2>3
<1> QED
  BY <1>8, <1>9, <1>10 DEF q, OrderedUpTo

-----------------------------------------------------------------------------
LEMMA SomeBelow ==
  ASSUME NEW n \in Nat, NEW S, S \subseteq 1 .. n
  PROVE  /\ IsFiniteSet(S) /\ Cardinality(S) \in Nat
         /\ S # {} => Cardinality(S) >= 1
<1>1. IsFiniteSet(S)
  <2>1. IsFiniteSet(1 .. n)
    BY FS_Interval
  <2> QED
    BY <2>1, FS_Subset
<1>2. Cardinality(S) \in Nat
  BY <1>1, FS_CardinalityType
<1>3. S # {} => Cardinality(S) # 0
  BY <1>1, FS_EmptySet
<1> QED
  BY <1>1, <1>2, <1>3

LEMMA NewerIs ==
  ASSUME RowsRight, NEW i
  PROVE  /\ IsFiniteSet(Newer(i)) /\ Cardinality(Newer(i)) \in Nat
         /\ Newer(i) # {} => Cardinality(Newer(i)) >= 1
<1>1. Newer(i) \subseteq 1 .. Len(rows) /\ Len(rows) \in Nat
  BY DEF Newer, Live, RowsRight
<1> QED
  BY <1>1, SomeBelow

\* A message is as it was, but for a call that has got its result.
KeptRow(r, s) ==
  /\ s.bot = r.bot /\ s.event = r.event /\ s.source = r.source
  /\ DOMAIN s.calls = DOMAIN r.calls
  /\ \A k \in DOMAIN r.calls : r.calls[k] \in {"done", "silent"} => s.calls[k] = r.calls[k]

KeptRows(rs, rs2) ==
  /\ rs \in Seq(Rows) /\ rs2 \in Seq(Rows)
  /\ Len(rs) <= Len(rs2)
  /\ \A i \in DOMAIN rs : KeptRow(rs[i], rs2[i])

LEMMA StillAsked ==
  ASSUME NEW rs, NEW rs2, KeptRows(rs, rs2), NEW m \in 0 .. Len(rs), MayBeAskedIn(rs, m)
  PROVE  MayBeAskedIn(rs2, m)
<1>1. Len(rs) \in Nat /\ DOMAIN rs = 1 .. Len(rs) /\ Len(rs2) \in Nat /\ DOMAIN rs2 = 1 .. Len(rs2)
  BY DEF KeptRows
<1>2. DOMAIN rs \subseteq DOMAIN rs2 /\ \A i \in DOMAIN rs : KeptRow(rs[i], rs2[i])
  BY <1>1 DEF KeptRows
<1> SUFFICES ASSUME m # 0 PROVE MayBeAskedIn(rs2, m)
  BY DEF MayBeAskedIn
<1>3. m \in DOMAIN rs /\ rs2[m].bot = rs[m].bot /\ rs2[m].event = rs[m].event
                       /\ rs2[m].source = rs[m].source
  BY <1>1, <1>2 DEF KeptRow
<1>4. ASSUME rs2[m].event
      PROVE  \E i \in DOMAIN rs2 : \E k \in DOMAIN rs2[i].calls :
               /\ rs2[m].source = <<i, k>>
               /\ rs2[i].bot /\ ~rs2[i].event
               /\ rs2[i].calls[k] \in {"done", "silent"}
  <2>1. PICK i \in DOMAIN rs : \E k \in DOMAIN rs[i].calls :
          /\ rs[m].source = <<i, k>>
          /\ rs[i].bot /\ ~rs[i].event
          /\ rs[i].calls[k] \in {"done", "silent"}
    BY <1>3, <1>4 DEF MayBeAskedIn
  <2>2. KeptRow(rs[i], rs2[i]) /\ i \in DOMAIN rs2
    BY <1>2
  <2> QED
    BY <1>3, <2>1, <2>2 DEF KeptRow
<1> QED
  BY <1>3, <1>4 DEF MayBeAskedIn

\* The chat gets n messages more.
Grows(n) ==
  /\ RowsRight' /\ KeptRows(rows, rows')
  /\ Len(rows') = Len(rows) + n
  /\ \A i \in DOMAIN rows : rows'[i].gone = rows[i].gone
  /\ \A i \in Len(rows) + 1 .. Len(rows) + n : ~rows'[i].gone

LEMMA NewerMore ==
  ASSUME RowsRight, NEW n \in {1, 2}, Grows(n)
  PROVE  /\ Live' = Live \cup (Len(rows) + 1 .. Len(rows) + n)
         /\ \A i \in Live : Cardinality(Newer(i))' = Cardinality(Newer(i)) + n
<1> DEFINE L == Len(rows)
<1>1. /\ L \in Nat /\ DOMAIN rows = 1 .. L
      /\ DOMAIN rows' = 1 .. L + n
  BY DEF RowsRight, Grows
<1>2. Live' = Live \cup (L + 1 .. L + n)
  <2>1. \A i \in 1 .. L + n : i \in 1 .. L \/ i \in L + 1 .. L + n
    BY <1>1
  <2>2. 1 .. L \subseteq 1 .. L + n /\ L + 1 .. L + n \subseteq 1 .. L + n
    BY <1>1
  <2> QED
    BY <1>1, <2>1, <2>2 DEF Live, Grows
<1>3. Live \subseteq 1 .. L
  BY <1>1 DEF Live
<1> HIDE DEF L
<1>4. ASSUME NEW i \in Live
      PROVE  Cardinality(Newer(i))' = Cardinality(Newer(i)) + n
  <2> DEFINE N == Newer(i)
  <2>1. IsFiniteSet(N) /\ Cardinality(N) \in Nat /\ N \subseteq 1 .. L
    BY <1>3, NewerIs DEF Newer
  <2>2. Newer(i)' = N \cup (L + 1 .. L + n)
    BY <1>1, <1>2, <1>3 DEF Newer
  <2> HIDE DEF N
  <2>3. IsFiniteSet(N \cup {L + 1}) /\ Cardinality(N \cup {L + 1}) = Cardinality(N) + 1
    <3>1. L + 1 \notin N
      BY <1>1, <2>1
    <3> QED
      BY <2>1, <3>1, FS_AddElement
  <2>4. CASE n = 1
    <3>1. L + 1 .. L + n = {L + 1}
      BY <1>1, <2>4
    <3> QED
      BY <2>2, <2>3, <2>4, <3>1 DEF N
  <2>5. CASE n = 2
    <3>1. N \cup (L + 1 .. L + n) = (N \cup {L + 1}) \cup {L + 2}
      <4>1. L + 1 .. L + n = {L + 1, L + 2}
        BY <1>1, <2>5
      <4> QED
        BY <4>1
    <3>2. L + 2 \notin N \cup {L + 1}
      BY <1>1, <2>1
    <3>3. Cardinality((N \cup {L + 1}) \cup {L + 2}) = Cardinality(N \cup {L + 1}) + 1
      BY <2>3, <3>2, FS_AddElement
    <3> QED
      BY <2>1, <2>2, <2>3, <2>5, <3>1, <3>3 DEF N
  <2> QED
    BY <2>4, <2>5
<1> QED
  BY <1>2, <1>4 DEF L

\* What is refused stays behind the call without result, when messages come.
LEMMA BehindKept ==
  ASSUME HistoryInv, NEW n \in {1, 2}, Grows(n),
         refused' \in Nat,
         \A i \in DOMAIN rows :
           Unanswered(rows'[i].calls) => Unanswered(rows[i].calls) \/ refused' = 0,
         \A i \in Len(rows) + 1 .. Len(rows) + n :
           Unanswered(rows'[i].calls) => refused' = 0 /\ stage' = "idle",
         refused' = 0 \/ Behind' <= Behind + n
  PROVE  BehindInv'
<1>1. RowsRight /\ RowsRight' /\ refused \in Nat
  BY DEF HistoryInv, HistoryShape, Grows
<1>2. /\ Live' = Live \cup (Len(rows) + 1 .. Len(rows) + n)
      /\ \A i \in Live : Cardinality(Newer(i))' = Cardinality(Newer(i)) + n
  BY <1>1, NewerMore
<1>3. /\ Behind \in Nat /\ Behind' \in Nat
      /\ refused' = 0 => Behind' <= 2
      /\ refused' = 0 /\ stage' = "idle" => Behind' <= 1
  <2> DEFINE a == IF queued # 0 THEN 1 ELSE 0
             b == IF stage # "idle" THEN 1 ELSE 0
             c == IF queued' # 0 THEN 1 ELSE 0
             d == IF stage' # "idle" THEN 1 ELSE 0
  <2>1. a \in {0, 1} /\ b \in {0, 1} /\ c \in {0, 1} /\ d \in {0, 1} /\ (stage' = "idle" => d = 0)
    OBVIOUS
  <2>2. Behind = 2 * refused + a + b /\ Behind' = 2 * refused' + c + d
    BY DEF Behind
  <2> DEFINE x == Behind
             y == Behind'
  <2> HIDE DEF a, b, c, d, x, y
  <2>3. x = 2 * refused + a + b /\ y = 2 * refused' + c + d
    BY <2>2 DEF x, y
  <2>4. x \in Nat /\ y \in Nat
    <3>1. a \in Nat /\ b \in Nat /\ c \in Nat /\ d \in Nat
      BY <2>1
    <3>2. x \in Nat
      BY <1>1, <2>3, <3>1
    <3>3. y \in Nat
      <4>1. refused' \in Nat
        OBVIOUS
      <4> DEFINE e == refused'
      <4>2. e \in Nat /\ y = 2 * e + c + d
        BY <2>3, <4>1
      <4> HIDE DEF e
      <4> QED
        BY <3>1, <4>2
    <3> QED
      BY <3>2, <3>3
  <2>5. refused' = 0 => y <= 2
    BY <1>1, <2>1, <2>3
  <2>6. refused' = 0 /\ stage' = "idle" => y <= 1
    BY <1>1, <2>1, <2>3
  <2> QED
    BY <2>4, <2>5, <2>6 DEF x, y
<1> SUFFICES ASSUME NEW i \in Live', Unanswered(rows'[i].calls)
             PROVE  Cardinality(Newer(i))' + 1 >= Behind'
  BY DEF BehindInv
<1>4. CASE i \in Live
  <2>1. Cardinality(Newer(i)) \in Nat
    BY <1>1, NewerIs
  <2>2. i \in DOMAIN rows
    BY <1>4 DEF Live
  <2>3. CASE refused' = 0
    BY <1>2, <1>3, <1>4, <2>1, <2>3
  <2>4. CASE Unanswered(rows[i].calls) /\ Behind' <= Behind + n
    <3>1. Cardinality(Newer(i)) + 1 >= Behind
      BY <1>4, <2>4 DEF HistoryInv, BehindInv
    <3> QED
      BY <1>2, <1>3, <1>4, <2>1, <2>4, <3>1
  <2> QED
    BY <2>2, <2>3, <2>4
<1>5. CASE i \in Len(rows) + 1 .. Len(rows) + n
  <2>1. Cardinality(Newer(i)') \in Nat
    <3>1. Newer(i)' \subseteq 1 .. Len(rows') /\ Len(rows') \in Nat
      BY <1>1 DEF Newer, Live, RowsRight
    <3> QED
      BY <3>1, SomeBelow
  <2> QED
    BY <1>3, <1>5, <2>1
<1> QED
  BY <1>2, <1>4, <1>5

LEMMA SeqOfMore ==
  ASSUME NEW S, NEW T, S \subseteq T
  PROVE  Seq(S) \subseteq Seq(T)
<1> SUFFICES ASSUME NEW s \in Seq(S) PROVE s \in Seq(T)
  OBVIOUS
<1>1. s = [i \in 1 .. Len(s) |-> s[i]] /\ Len(s) \in Nat /\ \A i \in 1 .. Len(s) : s[i] \in T
  OBVIOUS
<1>2. s \in [1 .. Len(s) -> T]
  BY <1>1
<1> QED
  BY <1>1, <1>2

\* Messages come: the reply under way ends, or it goes on.
LEMMA GrowthStep ==
  ASSUME HistoryInv, NEW n \in {1, 2}, Grows(n), context' = context,
         refused' \in Nat,
         \A i \in DOMAIN rows :
           Unanswered(rows'[i].calls) => Unanswered(rows[i].calls) \/ refused' = 0,
         \A i \in Len(rows) + 1 .. Len(rows) + n :
           Unanswered(rows'[i].calls) => refused' = 0 /\ stage' = "idle",
         refused' = 0 \/ Behind' <= Behind + n,
         RefusedFew',
         \/ queued' = queued
         \/ queued' = Len(rows) + 1 /\ MayBeAskedIn(rows', Len(rows) + 1),
         \/ stage' = "idle" /\ current' = 0 /\ request' = <<>>
         \/ /\ stage' = stage /\ current' = current /\ request' = request
            /\ refused' = 0 \/ refused' = refused
  PROVE  HistoryInv'
<1>1. HistoryShape /\ RowsRight /\ RowsRight' /\ KeptRows(rows, rows')
  BY DEF HistoryInv, HistoryShape, Grows
<1>2. /\ Len(rows) \in Nat /\ Len(rows') = Len(rows) + n
      /\ DOMAIN rows = 1 .. Len(rows)
  BY <1>1 DEF RowsRight, Grows
<1>3. BehindInv'
  BY BehindKept
<1>4. MayBeAsked(queued)'
  <2>1. CASE queued' = queued
    <3>1. queued \in 0 .. Len(rows) /\ MayBeAskedIn(rows, queued)
      BY <1>1 DEF HistoryInv, HistoryShape, MayBeAsked
    <3>2. MayBeAskedIn(rows', queued)
      BY <1>1, <3>1, StillAsked
    <3> QED
      BY <2>1, <3>2 DEF MayBeAsked
  <2>2. CASE queued' = Len(rows) + 1 /\ MayBeAskedIn(rows', Len(rows) + 1)
    BY <2>2 DEF MayBeAsked
  <2> QED
    BY <2>1, <2>2
<1>5. queued' \in 0 .. Len(rows')
  BY <1>1, <1>2 DEF HistoryShape
<1>6. CASE stage' = "idle" /\ current' = 0 /\ request' = <<>>
  <2>1. HistoryShape'
    BY <1>1, <1>2, <1>5, <1>6 DEF HistoryShape
  <2>2. MayBeAsked(current)'
    BY <1>6 DEF MayBeAsked, MayBeAskedIn
  <2>3. RequestInOrder'
    BY <1>6 DEF RequestInOrder
  <2>4. RefusedInv'
    BY <1>6 DEF RefusedInv
  <2> QED
    BY <1>3, <1>4, <2>1, <2>2, <2>3, <2>4 DEF HistoryInv
<1>7. CASE /\ stage' = stage /\ current' = current /\ request' = request
           /\ refused' = 0 \/ refused' = refused
  <2>1. request' \in Seq(RequestEntries)'
    <3>1. RequestEntries \subseteq RequestEntries'
      BY <1>2 DEF RequestEntries
    <3>2. request \in Seq(RequestEntries)
      BY <1>1 DEF HistoryShape
    <3> QED
      BY <1>7, <3>1, <3>2, SeqOfMore
  <2>2. HistoryShape'
    <3>1. current' \in 0 .. Len(rows')
      BY <1>1, <1>2, <1>7 DEF HistoryShape
    <3> QED
      BY <1>1, <1>5, <1>7, <2>1, <3>1 DEF HistoryShape
  <2>3. MayBeAsked(current)'
    <3>1. current \in 0 .. Len(rows) /\ MayBeAskedIn(rows, current)
      BY <1>1 DEF HistoryInv, HistoryShape, MayBeAsked
    <3>2. MayBeAskedIn(rows', current)
      BY <1>1, <3>1, StillAsked
    <3> QED
      BY <1>7, <3>2 DEF MayBeAsked
  <2>4. RequestInOrder'
    BY <1>7 DEF HistoryInv, RequestInOrder
  <2>5. RefusedInv'
    <3> SUFFICES ASSUME stage' = "asked", Refusable', refused' # 0
                 PROVE  2 * refused' < context'
      BY DEF RefusedInv
    <3>1. PICK k \in DOMAIN request :
            request[k].kind = "calls" /\ Unanswered(rows'[request[k].row].calls)
      BY <1>7 DEF Refusable
    <3>2. request[k].row \in DOMAIN rows
      <4>1. request \in Seq(RequestEntries)
        BY <1>1 DEF HistoryShape
      <4>2. request[k] \in RequestEntries
        BY <4>1
      <4> QED
        BY <1>2, <4>2 DEF RequestEntries
    <3>3. Unanswered(rows[request[k].row].calls)
      BY <3>1, <3>2
    <3>4. Refusable
      BY <3>1, <3>3 DEF Refusable
    <3> QED
      BY <1>7, <3>4 DEF HistoryInv, RefusedInv
  <2> QED
    BY <1>3, <1>4, <2>2, <2>3, <2>4, <2>5 DEF HistoryInv
<1> QED
  BY <1>6, <1>7

LEMMA NoCalls == ~Unanswered(<<>>)
<1>1. Range(<<>>) = {}
  BY DEF Range
<1> QED
  BY <1>1 DEF Unanswered

NewRow(r) == r \in Rows /\ RowOK(r) /\ ~r.gone

LEMMA UserRowIs ==
  ASSUME HistoryAssumption, NEW s \in Sends
  PROVE  LET r == UserRow(s[1], s[2]) IN NewRow(r) /\ ~r.bot /\ ~r.event /\ r.calls = <<>>
<1>1. s[1] \in Said /\ s[2] \in BOOLEAN
  BY DEF HistoryAssumption, Said
<1>2. <<>> \in Seq(CallStates) /\ <<>> \in Seq(Nat)
  OBVIOUS
<1> QED
  BY <1>1, <1>2 DEF UserRow, NewRow, Rows, RowOK

LEMMA EmptyRow ==
  ASSUME NEW text \in Said
  PROVE  LET u == UserRow(text, FALSE) IN
           /\ u \in Rows
           /\ ~u.bot /\ ~u.event /\ u.text = text /\ ~u.file /\ u.calls = <<>> /\ ~u.gone
<1>1. <<>> \in Seq(CallStates) /\ <<>> \in Seq(Nat)
  OBVIOUS
<1> QED
  BY <1>1 DEF UserRow, Rows

LEMMA BotRowIs ==
  ASSUME NEW text \in Said, NEW cs \in Seq(CallStates)
  PROVE  LET r == BotRow(text, cs) IN NewRow(r) /\ r.calls = cs
<1> DEFINE u == UserRow(text, FALSE)
           r == [u EXCEPT !.bot = TRUE, !.calls = cs]
<1>1. u \in Rows /\ ~u.event /\ ~u.gone
  BY EmptyRow
<1>2. BotRow(text, cs) = r
  BY DEF BotRow
<1> HIDE DEF u
<1>3. r \in Rows /\ r.bot /\ ~r.event /\ ~r.gone /\ r.calls = cs
  BY <1>1 DEF Rows
<1> QED
  BY <1>2, <1>3 DEF NewRow, RowOK

LEMMA EventIs ==
  ASSUME NEW by \in BOOLEAN, NEW i \in Nat, NEW k \in Nat
  PROVE  LET r == Event(by, <<i, k>>) IN
           /\ NewRow(r) /\ r.bot = by /\ r.event /\ r.calls = <<>> /\ r.source = <<i, k>>
<1> DEFINE u == UserRow(NoText, FALSE)
           s == <<i, k>>
           r == [u EXCEPT !.bot = by, !.event = TRUE, !.source = s]
<1>1. s \in Seq(Nat)
  OBVIOUS
<1>2. u \in Rows /\ u.text = NoText /\ ~u.file /\ u.calls = <<>> /\ ~u.gone
  BY EmptyRow DEF Said
<1>3. Event(by, <<i, k>>) = r
  BY DEF Event
<1> HIDE DEF u, s
<1>4. /\ r \in Rows /\ r.bot = by /\ r.event /\ r.source = s
      /\ r.text = NoText /\ ~r.file /\ r.calls = <<>> /\ ~r.gone
  BY <1>1, <1>2 DEF Rows
<1>5. NewRow(r)
  BY <1>4 DEF NewRow, RowOK
<1> QED
  BY <1>3, <1>4, <1>5 DEF s

LEMMA Appended ==
  ASSUME RowsRight, NEW r, NewRow(r), rows' = Append(rows, r)
  PROVE  /\ Grows(1) /\ rows'[Len(rows) + 1] = r
         /\ \A i \in DOMAIN rows : rows'[i] = rows[i]
<1>1. /\ Len(rows) \in Nat /\ DOMAIN rows = 1 .. Len(rows)
      /\ rows \in Seq(Rows) /\ r \in Rows
  BY DEF RowsRight, NewRow
<1>2. /\ rows' \in Seq(Rows) /\ Len(rows') = Len(rows) + 1
      /\ \A i \in DOMAIN rows : rows'[i] = rows[i]
      /\ rows'[Len(rows) + 1] = r
  BY <1>1
<1>3. DOMAIN rows' = 1 .. Len(rows) + 1
  BY <1>1, <1>2
<1>4. RowsRight'
  <2>1. \A i \in DOMAIN rows' : i \in DOMAIN rows \/ i = Len(rows) + 1
    BY <1>1, <1>3
  <2> QED
    BY <1>2, <2>1 DEF RowsRight, NewRow
<1>5. KeptRows(rows, rows')
  BY <1>1, <1>2 DEF KeptRows, KeptRow
<1>6. \A i \in Len(rows) + 1 .. Len(rows) + 1 : ~rows'[i].gone
  <2>1. \A i \in Len(rows) + 1 .. Len(rows) + 1 : i = Len(rows) + 1
    BY <1>1
  <2> QED
    BY <1>2, <2>1 DEF NewRow
<1>7. \A i \in DOMAIN rows : rows'[i].gone = rows[i].gone
  BY <1>2
<1> QED
  BY <1>2, <1>4, <1>5, <1>6, <1>7 DEF Grows

LEMMA RefusedStill ==
  ASSUME HistoryInv, context' = context, refused' = 0 \/ refused' = refused
  PROVE  RefusedFew' /\ refused' \in Nat
<1>1. context \in Nat /\ refused \in Nat /\ RefusedFew
  BY DEF HistoryInv, HistoryShape, RefusedInv
<1> QED
  BY <1>1 DEF RefusedFew

\* A reply that is not refused, or one message more, puts nothing behind.
LEMMA BehindStill ==
  ASSUME HistoryInv, refused' = refused,
         \/ queued' = queued /\ stage' \in {stage, "idle"}
         \/ stage' = stage
  PROVE  Behind' <= Behind + 1
<1> DEFINE a == IF queued # 0 THEN 1 ELSE 0
           b == IF stage # "idle" THEN 1 ELSE 0
           c == IF queued' # 0 THEN 1 ELSE 0
           d == IF stage' # "idle" THEN 1 ELSE 0
           x == Behind
           y == Behind'
           e == refused
<1>1. a \in {0, 1} /\ b \in {0, 1} /\ c \in {0, 1} /\ d \in {0, 1}
  OBVIOUS
<1>2. (c = a /\ (d = b \/ d = 0)) \/ d = b
  OBVIOUS
<1>3. x = 2 * e + a + b /\ y = 2 * e + c + d /\ e \in Nat
  BY DEF Behind, HistoryInv, HistoryShape
<1> HIDE DEF a, b, c, d, x, y, e
<1>4. y <= x + 1
  BY <1>1, <1>2, <1>3
<1> QED
  BY <1>4 DEF x, y

LEMMA MessageStored ==
  ASSUME HistoryInv, NEW r, NewRow(r), rows' = Append(rows, r), context' = context,
         refused' \in Nat, RefusedFew',
         Unanswered(r.calls) => refused' = 0 /\ stage' = "idle",
         refused' = 0 \/ Behind' <= Behind + 1,
         queued' = queued \/ (queued' = Len(rows) + 1 /\ ~r.bot /\ ~r.event),
         \/ stage' = "idle" /\ current' = 0 /\ request' = <<>>
         \/ /\ stage' = stage /\ current' = current /\ request' = request
            /\ refused' = 0 \/ refused' = refused
  PROVE  HistoryInv'
<1>1. RowsRight /\ Len(rows) \in Nat
  BY DEF HistoryInv, HistoryShape, RowsRight
<1>2. /\ Grows(1) /\ rows'[Len(rows) + 1] = r
      /\ \A i \in DOMAIN rows : rows'[i] = rows[i]
  BY <1>1, Appended
<1>3. \A i \in Len(rows) + 1 .. Len(rows) + 1 : i = Len(rows) + 1
  BY <1>1
<1>4. \A i \in Len(rows) + 1 .. Len(rows) + 1 :
        Unanswered(rows'[i].calls) => refused' = 0 /\ stage' = "idle"
  BY <1>2, <1>3
<1>5. \/ queued' = queued
      \/ queued' = Len(rows) + 1 /\ MayBeAskedIn(rows', Len(rows) + 1)
  BY <1>2 DEF MayBeAskedIn
<1>6. \A i \in DOMAIN rows :
        Unanswered(rows'[i].calls) => Unanswered(rows[i].calls) \/ refused' = 0
  BY <1>2
<1> QED
  BY <1>2, <1>4, <1>5, <1>6, GrowthStep

LEMMA SendStep ==
  ASSUME HistoryAssumption, HistoryInv, NEW s \in Sends, SendMessage(s[1], s[2])
  PROVE  HistoryInv'
<1> DEFINE r == UserRow(s[1], s[2])
<1>1. NewRow(r) /\ ~r.bot /\ ~r.event /\ r.calls = <<>>
  BY UserRowIs
<1>2. /\ rows' = Append(rows, r) /\ context' = context /\ refused' = refused
      /\ queued' = Len(rows) + 1
      /\ stage' = stage /\ current' = current /\ request' = request
  BY DEF SendMessage, Store
<1>3. RefusedFew' /\ refused' \in Nat
  BY <1>2, RefusedStill
<1>4. Behind' <= Behind + 1
  BY <1>2, BehindStill
<1> HIDE DEF r
<1>5. ~Unanswered(r.calls)
  BY <1>1, NoCalls
<1> QED
  BY <1>1, <1>2, <1>3, <1>4, <1>5, MessageStored

LEMMA EndStep ==
  ASSUME HistoryInv, NEW text \in Said, NEW cs \in Seq(CallStates),
         End(BotRow(text, cs)),
         refused' = 0 \/ (refused' = refused /\ ~Unanswered(cs))
  PROVE  HistoryInv'
<1> DEFINE r == BotRow(text, cs)
<1>1. NewRow(r) /\ r.calls = cs
  BY BotRowIs
<1>2. /\ rows' = Append(rows, r) /\ context' = context /\ queued' = queued
      /\ stage' = "idle" /\ current' = 0 /\ request' = <<>>
  BY DEF End, Store
<1>3. RefusedFew' /\ refused' \in Nat
  BY <1>2, RefusedStill
<1>4. refused' = refused => Behind' <= Behind + 1
  BY <1>2, BehindStill
<1> HIDE DEF r
<1> QED
  BY <1>1, <1>2, <1>3, <1>4, MessageStored

LEMMA AnswerStep ==
  ASSUME HistoryAssumption, HistoryInv,
         NEW text \in (Texts \ Commands) \cup {NoText}, NEW cs \in Endings,
         Answer(text, cs)
  PROVE  HistoryInv'
<1>1. cs \in Seq(CallStates) /\ text \in Said
  <2>1. Seq(CallStates \ {"open"}) \subseteq Seq(CallStates)
    BY SeqOfMore
  <2> QED
    BY <2>1 DEF HistoryAssumption, Said
<1>2. End(BotRow(text, cs)) /\ (refused' = 0 \/ (refused' = refused /\ ~Unanswered(cs)))
  BY DEF Answer, CountAnew
<1> QED
  BY <1>1, <1>2, EndStep

LEMMA CommandStep ==
  ASSUME HistoryInv, Command
  PROVE  HistoryInv'
<1>1. <<>> \in Seq(CallStates) /\ "answered" \in Said /\ ~Unanswered(<<>>)
  BY NoCalls DEF Said
<1>2. CASE End(BotRow("answered", <<>>))
  BY <1>1, <1>2, EndStep DEF Command
<1>3. CASE Store(BotRow("answered", <<>>)) /\ UNCHANGED <<context, queued, current, stage, request>>
  <2> DEFINE r == BotRow("answered", <<>>)
  <2>1. NewRow(r) /\ r.calls = <<>>
    BY <1>1, BotRowIs
  <2>2. /\ rows' = Append(rows, r) /\ context' = context /\ queued' = queued /\ refused' = refused
        /\ stage' = stage /\ current' = current /\ request' = request
    BY <1>3 DEF Command, Store
  <2>3. RefusedFew' /\ refused' \in Nat
    BY <2>2, RefusedStill
  <2>4. Behind' <= Behind + 1
    BY <2>2, BehindStill
  <2> HIDE DEF r
  <2>5. ~Unanswered(r.calls)
    BY <1>1, <2>1
  <2> QED
    BY <2>1, <2>2, <2>3, <2>4, <2>5, MessageStored
<1> QED
  BY <1>2, <1>3 DEF Command

LEMMA PauseStep ==
  ASSUME HistoryAssumption, HistoryInv, NEW cs \in Endings, PauseReply(cs)
  PROVE  HistoryInv'
<1>1. Append(cs, "open") \in Seq(CallStates) /\ "paused" \in Said
  <2>1. Seq(CallStates \ {"open"}) \subseteq Seq(CallStates)
    BY SeqOfMore
  <2>2. cs \in Seq(CallStates) /\ "open" \in CallStates
    BY <2>1 DEF HistoryAssumption, CallStates
  <2> QED
    BY <2>2 DEF Said
<1>2. End(BotRow("paused", Append(cs, "open"))) /\ refused' = 0
  BY DEF PauseReply, CountAnew
<1> QED
  BY <1>1, <1>2, EndStep

LEMMA FailStep ==
  ASSUME HistoryInv, FailReply
  PROVE  HistoryInv'
<1>1. <<>> \in Seq(CallStates) /\ "failed" \in Said /\ ~Unanswered(<<>>)
  BY NoCalls DEF Said
<1>2. End(BotRow("failed", <<>>)) /\ refused' = refused
  BY DEF FailReply
<1> QED
  BY <1>1, <1>2, EndStep

\* A refusal: two messages are behind the call, and one refusal.
LEMMA RefuseStep ==
  ASSUME HistoryInv, Refuse
  PROVE  HistoryInv'
<1> DEFINE r == BotRow("failed", <<>>)
<1>1. <<>> \in Seq(CallStates) /\ "failed" \in Said /\ ~Unanswered(<<>>)
  BY NoCalls DEF Said
<1>2. NewRow(r) /\ r.calls = <<>>
  BY <1>1, BotRowIs
<1>3. /\ rows' = Append(rows, r) /\ context' = context /\ queued' = queued
      /\ stage' = "idle" /\ current' = 0 /\ request' = <<>>
      /\ refused' = refused + 1
  BY DEF Refuse, End, Store
<1> HIDE DEF r
<1>4. refused \in Nat /\ context \in Nat \ {0}
  BY DEF HistoryInv, HistoryShape
<1>5. stage = "asked" /\ (refused = 0 \/ 2 * refused < context)
  BY DEF Refuse, HistoryInv, RefusedInv
<1>6. refused' \in Nat /\ RefusedFew'
  BY <1>3, <1>4, <1>5 DEF RefusedFew
<1>7. Behind' <= Behind + 1
  BY <1>3, <1>4, <1>5 DEF Behind
<1>8. ~Unanswered(r.calls)
  BY <1>1, <1>2
<1> QED
  BY <1>2, <1>3, <1>6, <1>7, <1>8, MessageStored

LEMMA LoadStep ==
  ASSUME HistoryInv, Load
  PROVE  HistoryInv'
<1>1. /\ stage = "idle" /\ current = 0 /\ request = <<>> /\ queued # 0
      /\ queued' = 0 /\ context' = context /\ rows' = rows /\ request' = request
      /\ refused' = refused /\ refused \in Nat
  BY DEF Load, HistoryInv, HistoryShape
<1>2. \/ queued \in Live /\ current' = queued /\ stage' = "loaded"
      \/ current' = current /\ stage' = stage
  BY DEF Load
<1>3. HistoryShape'
  BY <1>1, <1>2 DEF HistoryInv, HistoryShape, RowsRight, RequestEntries
<1>4. MayBeAsked(queued)' /\ MayBeAsked(current)'
  BY <1>1, <1>2 DEF HistoryInv, MayBeAsked, MayBeAskedIn
<1>5. RequestInOrder'
  BY <1>1 DEF RequestInOrder
<1>6. BehindInv'
  <2>1. Behind' <= Behind /\ Behind' \in Nat /\ Behind \in Nat
    BY <1>1, <1>2 DEF Behind
  <2> SUFFICES ASSUME NEW i \in Live', Unanswered(rows'[i].calls)
               PROVE  Cardinality(Newer(i))' + 1 >= Behind'
    BY DEF BehindInv
  <2>2. i \in Live /\ Unanswered(rows[i].calls) /\ Newer(i)' = Newer(i)
    BY <1>1 DEF Live, Newer
  <2>3. Cardinality(Newer(i)) + 1 >= Behind
    BY <2>2 DEF HistoryInv, BehindInv
  <2>4. Cardinality(Newer(i)) \in Nat
    BY NewerIs DEF HistoryInv, HistoryShape
  <2> QED
    BY <2>1, <2>2, <2>3, <2>4
<1>7. RefusedInv'
  <2>1. stage' # "asked"
    BY <1>1, <1>2
  <2> QED
    BY <1>1, <2>1 DEF HistoryInv, RefusedInv, RefusedFew
<1> QED
  BY <1>3, <1>4, <1>5, <1>6, <1>7 DEF HistoryInv

LEMMA AskStep ==
  ASSUME HistoryInv, Ask
  PROVE  HistoryInv'
<1>1. /\ stage = "loaded" /\ stage' = "asked" /\ request' = RequestFor(current)
      /\ context' = context /\ rows' = rows /\ queued' = queued /\ current' = current
      /\ refused' = refused /\ refused \in Nat /\ RowsRight
  BY DEF Ask, HistoryInv, HistoryShape
<1>2. current \in DOMAIN rows
  BY <1>1 DEF HistoryInv, HistoryShape, RowsRight
<1> DEFINE q == RequestFor(current)
<1>3. /\ q \in Seq(RequestEntries) /\ OrderedUpTo(q, current)
      /\ \A k \in DOMAIN q : q[k].kind # "user" => q[k].row \in Window
  BY <1>1, <1>2, RequestRight
<1> HIDE DEF q
<1>4. request' = q
  BY <1>1 DEF q
<1>5. HistoryShape'
  BY <1>1, <1>3, <1>4 DEF HistoryInv, HistoryShape, RowsRight, RequestEntries
<1>6. MayBeAsked(queued)' /\ MayBeAsked(current)'
  BY <1>1 DEF HistoryInv, MayBeAsked
<1>7. RequestInOrder'
  BY <1>1, <1>3, <1>4 DEF RequestInOrder, OrderedUpTo, MayFollow
<1>8. BehindInv'
  <2>1. Behind' = Behind
    BY <1>1 DEF Behind
  <2> SUFFICES ASSUME NEW i \in Live', Unanswered(rows'[i].calls)
               PROVE  Cardinality(Newer(i))' + 1 >= Behind'
    BY DEF BehindInv
  <2>2. i \in Live /\ Unanswered(rows[i].calls) /\ Newer(i)' = Newer(i)
    BY <1>1 DEF Live, Newer
  <2> QED
    BY <2>1, <2>2 DEF HistoryInv, BehindInv
<1>9. RefusedInv'
  <2> SUFFICES ASSUME Refusable' PROVE 2 * refused' < context'
    BY <1>1 DEF HistoryInv, RefusedInv, RefusedFew
  <2>1. PICK k \in DOMAIN q : q[k].kind = "calls" /\ Unanswered(rows[q[k].row].calls)
    BY <1>1, <1>4 DEF Refusable
  <2> DEFINE i == q[k].row
  <2>2. i \in Window
    BY <1>3, <2>1
  <2>3. i \in Live /\ Cardinality(Newer(i)) < context /\ Cardinality(Newer(i)) \in Nat
    BY <1>1, <2>2, NewerIs DEF Window
  <2>4. Cardinality(Newer(i)) + 1 >= Behind
    BY <2>1, <2>3 DEF HistoryInv, BehindInv
  <2>5. Behind >= 2 * refused + 1 /\ Behind \in Nat
    BY <1>1 DEF Behind
  <2>6. context \in Nat
    BY DEF HistoryInv, HistoryShape
  <2> QED
    BY <1>1, <2>3, <2>4, <2>5, <2>6
<1> QED
  BY <1>5, <1>6, <1>7, <1>8, <1>9 DEF HistoryInv

\* A rerun: what is not deleted is older than the message, and that is new.
LEMMA RerunStep ==
  ASSUME HistoryInv, NEW i \in DOMAIN rows, Rerun(i)
  PROVE  HistoryInv'
<1> DEFINE L == Len(rows)
           s == [j \in DOMAIN rows |-> [rows[j] EXCEPT !.gone = @ \/ j >= i]]
           r == rows[i]
<1>1. /\ L \in Nat /\ DOMAIN rows = 1 .. L /\ HistoryShape
      /\ \A j \in 1 .. L : rows[j] \in Rows /\ RowOK(rows[j])
  BY DEF HistoryInv, HistoryShape, RowsRight
<1>2. /\ rows' = Append(s, r) /\ queued' = L + 1 /\ refused' = 0
      /\ context' = context /\ current' = current /\ stage' = stage /\ request' = request
      /\ ~r.bot /\ ~r.event /\ ~r.gone /\ r \in Rows /\ RowOK(r)
  BY <1>1 DEF Rerun, Live
<1>3. r.calls = <<>>
  BY <1>2 DEF RowOK
<1>4. \A j \in 1 .. L :
        /\ s[j] \in Rows /\ RowOK(s[j]) /\ KeptRow(rows[j], s[j])
        /\ s[j].calls = rows[j].calls
        /\ ~s[j].gone => ~rows[j].gone /\ j < i
  <2> TAKE j \in 1 .. L
  <2> DEFINE u == rows[j]
             g == u.gone \/ j >= i
             v == [u EXCEPT !.gone = g]
  <2>1. u \in Rows /\ RowOK(u) /\ g \in BOOLEAN
    BY <1>1 DEF Rows
  <2>2. s[j] = v
    BY <1>1
  <2>3. g \/ (~u.gone /\ j < i)
    BY <1>1
  <2> HIDE DEF u, g
  <2>4. /\ v \in Rows /\ v.bot = u.bot /\ v.event = u.event /\ v.text = u.text
        /\ v.file = u.file /\ v.calls = u.calls /\ v.source = u.source /\ v.gone = g
    BY <2>1 DEF Rows
  <2>5. RowOK(v) /\ KeptRow(u, v)
    BY <2>1, <2>4 DEF RowOK, KeptRow
  <2> QED
    BY <2>2, <2>3, <2>4, <2>5 DEF u
<1>5. s \in Seq(Rows) /\ Len(s) = L
  <2>1. s = [j \in 1 .. L |-> s[j]]
    BY <1>1
  <2> HIDE DEF s, L
  <2>2. s \in [1 .. L -> Rows]
    BY <1>4, <2>1
  <2> QED
    BY <1>1, <2>2
<1> HIDE DEF s, r
<1>6. /\ rows' \in Seq(Rows) /\ Len(rows') = L + 1 /\ DOMAIN rows' = 1 .. L + 1
      /\ rows'[L + 1] = r /\ \A j \in 1 .. L : rows'[j] = s[j]
  BY <1>1, <1>2, <1>5
<1>7. RowsRight'
  <2>1. \A j \in 1 .. L + 1 : j \in 1 .. L \/ j = L + 1
    BY <1>1
  <2> QED
    BY <1>2, <1>4, <1>6, <2>1 DEF RowsRight
<1>8. KeptRows(rows, rows')
  <2>1. rows \in Seq(Rows)
    BY <1>1 DEF HistoryShape, RowsRight
  <2> QED
    BY <1>1, <1>4, <1>6, <2>1 DEF KeptRows
<1>9. HistoryShape'
  <2>1. request' \in Seq(RequestEntries)'
    <3>1. RequestEntries \subseteq RequestEntries'
      BY <1>1, <1>6 DEF RequestEntries, L
    <3>2. request \in Seq(RequestEntries)
      BY <1>1 DEF HistoryShape
    <3> QED
      BY <1>2, <3>1, <3>2, SeqOfMore
  <2>2. current' \in 0 .. Len(rows') /\ queued' \in 0 .. Len(rows')
    BY <1>1, <1>2, <1>6 DEF HistoryShape, L
  <2> QED
    BY <1>1, <1>2, <1>7, <2>1, <2>2 DEF HistoryShape
<1>10. MayBeAsked(queued)'
  BY <1>2, <1>6 DEF MayBeAsked, MayBeAskedIn
<1>11. MayBeAsked(current)'
  <2>1. current \in 0 .. Len(rows) /\ MayBeAskedIn(rows, current)
    BY <1>1 DEF HistoryInv, HistoryShape, MayBeAsked
  <2>2. MayBeAskedIn(rows', current)
    BY <1>8, <2>1, StillAsked
  <2> QED
    BY <1>2, <2>2 DEF MayBeAsked
<1>12. RequestInOrder'
  BY <1>2 DEF HistoryInv, RequestInOrder
<1>13. BehindInv'
  <2>1. Behind' <= 2 /\ Behind' \in Nat
    BY <1>2 DEF Behind
  <2> SUFFICES ASSUME NEW j \in Live', Unanswered(rows'[j].calls)
               PROVE  Cardinality(Newer(j))' + 1 >= Behind'
    BY DEF BehindInv
  <2>2. j \in 1 .. L /\ j < i
    <3>1. j \in 1 .. L + 1 /\ ~rows'[j].gone
      BY <1>6 DEF Live
    <3>2. j # L + 1
      BY <1>3, <1>6, NoCalls
    <3> QED
      BY <1>1, <1>4, <1>6, <3>1, <3>2
  <2>3. L + 1 \in Newer(j)'
    BY <1>1, <1>2, <1>6, <2>2 DEF Newer, Live
  <2>4. Newer(j)' \subseteq 1 .. Len(rows') /\ Len(rows') \in Nat
    BY <1>1, <1>6 DEF Newer, Live
  <2>5. Cardinality(Newer(j)') >= 1 /\ Cardinality(Newer(j)') \in Nat
    BY <2>3, <2>4, SomeBelow
  <2> QED
    BY <2>1, <2>5
<1>14. RefusedInv'
  <2>1. RefusedFew'
    BY <1>2, RefusedStill
  <2> QED
    BY <1>2, <2>1 DEF RefusedInv
<1> QED
  BY <1>9, <1>10, <1>11, <1>12, <1>13, <1>14 DEF HistoryInv

LEMMA ConfirmStep ==
  ASSUME HistoryInv, NEW i \in DOMAIN rows, NEW k \in 1 .. 2, NEW continue \in BOOLEAN,
         NEW out \in {"done", "silent", "failed"}, Confirm(i, k, out, continue)
  PROVE  HistoryInv'
<1> DEFINE L == Len(rows)
           x == IF out = "failed" THEN rows[i].calls[k] ELSE out
           c == [rows[i].calls EXCEPT ![k] = x]
           w == [rows[i] EXCEPT !.calls = c]
           s == [rows EXCEPT ![i] = w]
           e == Event(FALSE, <<i, k>>)
           f == Event(TRUE, <<i, k>>)
           t == <<e, f>>
<1>1. /\ L \in Nat /\ DOMAIN rows = 1 .. L /\ HistoryShape /\ rows \in Seq(Rows) /\ i \in 1 .. L
      /\ \A j \in 1 .. L : rows[j] \in Rows /\ RowOK(rows[j])
  BY DEF HistoryInv, HistoryShape, RowsRight
<1>2. /\ i \in Live /\ k \in DOMAIN rows[i].calls /\ rows[i].calls[k] = "pending"
      /\ rows' = s \o t
      /\ queued' = IF continue /\ out # "failed" THEN L + 1 ELSE queued
      /\ refused' = IF out = "silent" THEN 0 ELSE refused
      /\ context' = context /\ current' = current /\ stage' = stage /\ request' = request
  BY DEF Confirm, CountAnew
<1>3. i \in Nat /\ k \in Nat
  BY <1>1
<1>4. /\ NewRow(e) /\ ~e.bot /\ e.event /\ e.calls = <<>> /\ e.source = <<i, k>>
      /\ NewRow(f) /\ f.calls = <<>>
  BY <1>3, EventIs
<1>5. /\ c \in Seq(CallStates) /\ DOMAIN c = DOMAIN rows[i].calls /\ c # <<>>
      /\ c[k] = x /\ \A l \in DOMAIN c : l # k => c[l] = rows[i].calls[l]
      /\ x \in {"done", "silent", "pending"}
      /\ x = "silent" => out = "silent"
      /\ out # "failed" => x = out
  <2> DEFINE d == rows[i].calls
  <2>1. d \in Seq(CallStates) /\ k \in DOMAIN d /\ d[k] = "pending"
    BY <1>1, <1>2 DEF Rows
  <2>2. /\ x \in {"done", "silent", "pending"}
        /\ x = "silent" => out = "silent"
        /\ out # "failed" => x = out
    BY <2>1
  <2> HIDE DEF d, x
  <2>3. c = [d EXCEPT ![k] = x]
    BY DEF d
  <2> HIDE DEF c
  <2>4. x \in CallStates
    BY <2>2 DEF CallStates
  <2>5. c \in Seq(CallStates) /\ DOMAIN c = DOMAIN d /\ c[k] = x
        /\ \A l \in DOMAIN c : l # k => c[l] = d[l]
    BY <2>1, <2>3, <2>4
  <2>6. c # <<>>
    BY <2>1, <2>5
  <2> QED
    BY <2>2, <2>5, <2>6 DEF d
<1> HIDE DEF c, x, e, f
<1>6. rows[i].calls # <<>> /\ rows[i].bot /\ ~rows[i].event /\ ~rows[i].gone
  BY <1>1, <1>2 DEF RowOK, Live
<1>7. /\ w \in Rows /\ w.calls = c
      /\ w.bot = rows[i].bot /\ w.event = rows[i].event
      /\ w.source = rows[i].source /\ w.gone = rows[i].gone
  BY <1>1, <1>5 DEF Rows
<1> HIDE DEF w
<1>8. RowOK(w) /\ KeptRow(rows[i], w)
  <2>1. \A l \in DOMAIN rows[i].calls : rows[i].calls[l] \in {"done", "silent"} => c[l] = rows[i].calls[l]
    BY <1>2, <1>5
  <2>2. KeptRow(rows[i], w)
    BY <1>5, <1>7, <2>1 DEF KeptRow
  <2> QED
    BY <1>6, <1>7, <2>2 DEF RowOK
<1>9. Unanswered(w.calls) => Unanswered(rows[i].calls) \/ refused' = 0
  <2> SUFFICES ASSUME Unanswered(c), refused' # 0 PROVE Unanswered(rows[i].calls)
    BY <1>7
  <2>1. PICK l \in DOMAIN c : c[l] \in {"open", "silent"}
    BY DEF Unanswered, Range
  <2>2. l # k
    BY <1>2, <1>5, <2>1
  <2>3. rows[i].calls[l] \in {"open", "silent"} /\ l \in DOMAIN rows[i].calls
    BY <1>5, <2>1, <2>2
  <2> QED
    BY <2>3 DEF Unanswered, Range
<1>10. /\ s \in Seq(Rows) /\ Len(s) = L /\ s[i] = w
       /\ \A j \in 1 .. L : j # i => s[j] = rows[j]
  BY <1>1, <1>7
<1> HIDE DEF s
<1>11. t \in Seq(Rows) /\ Len(t) = 2 /\ t[1] = e /\ t[2] = f
  <2>1. e \in Rows /\ f \in Rows
    BY <1>4 DEF NewRow
  <2> QED
    BY <2>1
<1> HIDE DEF t
<1>12. /\ rows' \in Seq(Rows) /\ Len(rows') = L + 2 /\ DOMAIN rows' = 1 .. L + 2
       /\ \A j \in 1 .. L : rows'[j] = s[j]
       /\ rows'[L + 1] = e /\ rows'[L + 2] = f
  <2>0. s \in Seq(Rows) /\ t \in Seq(Rows)
    BY <1>10, <1>11
  <2> DEFINE u == s \o t
  <2>1. /\ u \in Seq(Rows) /\ Len(u) = Len(s) + Len(t)
        /\ \A j \in 1 .. Len(s) : u[j] = s[j]
        /\ \A j \in 1 .. Len(t) : u[Len(s) + j] = t[j]
    BY <2>0
  <2> HIDE DEF u, L
  <2>2. u[L + 1] = t[1] /\ u[L + 2] = t[2]
    BY <1>10, <1>11, <2>1
  <2>3. u = rows' /\ Len(u) = L + 2
    BY <1>2, <1>10, <1>11, <2>1 DEF u
  <2> QED
    BY <1>1, <1>10, <1>11, <2>1, <2>2, <2>3
<1>13. \A j \in 1 .. L + 2 : j \in 1 .. L \/ j = L + 1 \/ j = L + 2
  BY <1>1
<1>14. \A j \in 1 .. L :
         /\ rows'[j] \in Rows /\ RowOK(rows'[j]) /\ KeptRow(rows[j], rows'[j])
         /\ rows'[j].gone = rows[j].gone
         /\ Unanswered(rows'[j].calls) => Unanswered(rows[j].calls) \/ refused' = 0
  <2> TAKE j \in 1 .. L
  <2>1. CASE j = i
    BY <1>7, <1>8, <1>9, <1>10, <1>12, <2>1
  <2>2. CASE j # i
    <3>1. rows'[j] = rows[j]
      BY <1>10, <1>12, <2>2
    <3> QED
      BY <1>1, <3>1 DEF KeptRow
  <2> QED
    BY <2>1, <2>2
<1>15. RowsRight'
  BY <1>4, <1>12, <1>13, <1>14 DEF RowsRight, NewRow
<1>16. \A j \in L + 1 .. L + 2 : j = L + 1 \/ j = L + 2
  BY <1>1
<1>17. Grows(2)
  <2>1. KeptRows(rows, rows')
    BY <1>1, <1>12, <1>14 DEF KeptRows
  <2>2. \A j \in L + 1 .. L + 2 : ~rows'[j].gone
    BY <1>4, <1>12, <1>16 DEF NewRow
  <2> QED
    BY <1>1, <1>12, <1>14, <1>15, <2>1, <2>2 DEF Grows
<1>18. \A j \in L + 1 .. L + 2 : ~Unanswered(rows'[j].calls)
  BY <1>4, <1>12, <1>16, NoCalls
<1>19. RefusedFew' /\ refused' \in Nat
  BY <1>2, RefusedStill
<1>20. refused' = 0 \/ Behind' <= Behind + 2
  <2> SUFFICES ASSUME refused' = refused PROVE Behind' <= Behind + 2
    BY <1>2
  <2>1. Behind' <= Behind + 1
    BY <1>2, BehindStill
  <2>2. Behind \in Nat /\ Behind' \in Nat
    BY <1>1, <1>19 DEF Behind, HistoryShape
  <2> QED
    BY <2>1, <2>2
<1>21. \/ queued' = queued
       \/ queued' = L + 1 /\ MayBeAskedIn(rows', L + 1)
  <2> SUFFICES ASSUME continue, out # "failed" PROVE MayBeAskedIn(rows', L + 1)
    BY <1>2
  <2>1. rows'[i] = w /\ i \in DOMAIN rows' /\ k \in DOMAIN w.calls /\ w.calls[k] \in {"done", "silent"}
    BY <1>1, <1>2, <1>5, <1>7, <1>10, <1>12
  <2> QED
    BY <1>4, <1>6, <1>7, <1>12, <2>1 DEF MayBeAskedIn
<1>22. /\ stage' = stage /\ current' = current /\ request' = request
       /\ refused' = 0 \/ refused' = refused
  BY <1>2
<1>23. /\ \A j \in DOMAIN rows :
            Unanswered(rows'[j].calls) => Unanswered(rows[j].calls) \/ refused' = 0
       /\ \A j \in Len(rows) + 1 .. Len(rows) + 2 :
            Unanswered(rows'[j].calls) => refused' = 0 /\ stage' = "idle"
  BY <1>1, <1>14, <1>18
<1> QED
  BY <1>2, <1>17, <1>19, <1>20, <1>21, <1>22, <1>23, GrowthStep

LEMMA HistoryInvInitially ==
  ASSUME HistoryAssumption, HistoryInit
  PROVE  HistoryInv
<1>1. /\ context \in 1 .. MaxContext /\ rows = <<>> /\ queued = 0 /\ current = 0
      /\ stage = "idle" /\ request = <<>> /\ refused = 0 /\ MaxContext \in Nat
  BY DEF HistoryInit, HistoryAssumption
<1>2. HistoryShape
  BY <1>1 DEF HistoryShape, RowsRight
<1>3. MayBeAsked(queued) /\ MayBeAsked(current)
  BY <1>1 DEF MayBeAsked, MayBeAskedIn
<1>4. RequestInOrder /\ RefusedInv
  BY <1>1 DEF RequestInOrder, RefusedInv, RefusedFew
<1>5. BehindInv
  BY <1>1 DEF BehindInv, Live
<1> QED
  BY <1>2, <1>3, <1>4, <1>5 DEF HistoryInv

LEMMA HistoryInvStep ==
  ASSUME HistoryAssumption, HistoryInv, [HistoryNext]_historyVars
  PROVE  HistoryInv'
<1>1. CASE \E s \in Sends : SendMessage(s[1], s[2])
  BY <1>1, SendStep
<1>2. CASE \E i \in DOMAIN rows : Rerun(i)
  BY <1>2, RerunStep
<1>3. CASE Load
  BY <1>3, LoadStep
<1>4. CASE Ask
  BY <1>4, AskStep
<1>5. CASE Command
  BY <1>5, CommandStep
<1>6. CASE \E text \in (Texts \ Commands) \cup {NoText}, cs \in Endings : Answer(text, cs)
  BY <1>6, AnswerStep
<1>7. CASE \E cs \in Endings : PauseReply(cs)
  BY <1>7, PauseStep
<1>8. CASE FailReply
  BY <1>8, FailStep
<1>9. CASE Refuse
  BY <1>9, RefuseStep
<1>10. CASE \E i \in DOMAIN rows, k \in 1 .. 2, continue \in BOOLEAN :
              \E out \in {"done", "silent", "failed"} : Confirm(i, k, out, continue)
  BY <1>10, ConfirmStep
<1>11. CASE UNCHANGED historyVars
  <2>1. /\ context' = context /\ rows' = rows /\ queued' = queued /\ current' = current
        /\ stage' = stage /\ request' = request /\ refused' = refused
    BY <1>11 DEF historyVars
  <2>2. HistoryShape' /\ MayBeAsked(queued)' /\ MayBeAsked(current)'
    BY <2>1 DEF HistoryInv, HistoryShape, RowsRight, RequestEntries, MayBeAsked
  <2>3. RequestInOrder' /\ RefusedInv'
    BY <2>1 DEF HistoryInv, RequestInOrder, RefusedInv, RefusedFew, Refusable
  <2>4. BehindInv'
    BY <2>1 DEF HistoryInv, BehindInv, Behind, Live, Newer
  <2> QED
    BY <2>2, <2>3, <2>4 DEF HistoryInv
<1> QED
  BY <1>1, <1>2, <1>3, <1>4, <1>5, <1>6, <1>7, <1>8, <1>9, <1>10, <1>11 DEF HistoryNext

LEMMA HistoryInvHolds == HistorySpec => []HistoryInv
<1>1. HistoryInit => HistoryInv
  BY HistoryAssumption, HistoryInvInitially
<1>2. HistoryInv /\ [HistoryNext]_historyVars => HistoryInv'
  BY HistoryAssumption, HistoryInvStep
<1> QED
  BY <1>1, <1>2, PTL DEF HistorySpec

(***************************************************************************)
(* What was refused before each rerun adds up.                             *)
(***************************************************************************)
BeforeInv ==
  /\ before \in [reruns: Nat, refused: Nat]
  /\ 2 * before.refused <= (context + 1) * before.reruns

LEMMA RerunAdds ==
  ASSUME HistoryInv, BeforeInv, NEW i, Rerun(i)
  PROVE  BeforeInv'
<1>1. /\ context \in Nat /\ refused \in Nat /\ 2 * refused <= context + 1
      /\ context' = context
  BY DEF HistoryInv, HistoryShape, RefusedInv, RefusedFew, Rerun
<1>2. before' = [reruns |-> before.reruns + 1, refused |-> before.refused + refused]
  BY DEF Rerun
<1>3. before.reruns \in Nat /\ before.refused \in Nat
  BY DEF BeforeInv
<1>4. before'.reruns = before.reruns + 1 /\ before'.refused = before.refused + refused
  BY <1>2
<1>5. before' \in [reruns: Nat, refused: Nat]
  BY <1>1, <1>2, <1>3
<1> DEFINE r == before.reruns
           f == before.refused
           c == context + 1
<1>6. 2 * f <= c * r /\ 2 * refused <= c
  BY <1>1 DEF BeforeInv
<1>7. r \in Nat /\ f \in Nat /\ c \in Nat
  BY <1>1, <1>3
<1>8. c * (r + 1) = c * r + c
  <2> HIDE DEF r, c
  <2> QED
    BY <1>7
<1>9. 2 * (f + refused) <= c * (r + 1)
  <2> DEFINE p == c * r
  <2>1. p \in Nat
    <3> HIDE DEF r, c
    <3> QED
      BY <1>7
  <2>2. 2 * f <= p /\ 2 * refused <= c /\ c * (r + 1) = p + c
    BY <1>6, <1>8
  <2> HIDE DEF p, f, c
  <2> QED
    BY <1>1, <1>7, <2>1, <2>2
<1> QED
  BY <1>1, <1>4, <1>5, <1>9 DEF BeforeInv

LEMMA BeforeInvStep ==
  ASSUME HistoryInv, BeforeInv, [HistoryNext]_historyVars
  PROVE  BeforeInv'
<1>1. CASE \E i \in DOMAIN rows : Rerun(i)
  BY <1>1, RerunAdds
<1>2. CASE context' = context /\ before' = before
  BY <1>2 DEF BeforeInv
<1>3. CASE context' = context /\ before' = [reruns |-> 0, refused |-> 0]
  <2>1. context \in Nat
    BY DEF HistoryInv, HistoryShape
  <2>2. (context + 1) * 0 = 0
    BY <2>1
  <2> QED
    BY <1>3, <2>2 DEF BeforeInv
<1> QED
  BY <1>1, <1>2, <1>3 DEF HistoryNext, historyVars, SendMessage, Load, Ask, Command, Answer,
     PauseReply, FailReply, Refuse, Confirm, End, CountAnew

\* For any texts, endings, rows and context: a call without a result is
\* refused for no more than half of the messages shown, rounded up, and for
\* as many again after each rerun (buildOpenAIMessages, RerunMessage).
THEOREM Refusals == HistorySpec => []RefusalsEnd
<1>1. HistoryInit => BeforeInv
  <2> SUFFICES ASSUME HistoryInit PROVE BeforeInv
    OBVIOUS
  <2>1. context \in Nat
    BY HistoryAssumption DEF HistoryInit, HistoryAssumption
  <2>2. (context + 1) * 0 = 0
    BY <2>1
  <2> QED
    BY <2>2 DEF BeforeInv, HistoryInit
<1>2. HistoryInv /\ BeforeInv /\ [HistoryNext]_historyVars => BeforeInv'
  BY BeforeInvStep
<1>3. HistoryInv /\ BeforeInv => RefusalsEnd
  <2> SUFFICES ASSUME HistoryInv, BeforeInv PROVE RefusalsEnd
    OBVIOUS
  <2> DEFINE r == before.reruns
             f == before.refused
             c == context + 1
             p == c * r
  <2>1. context \in Nat /\ refused \in Nat /\ 2 * refused <= c
    BY DEF HistoryInv, HistoryShape, RefusedInv, RefusedFew
  <2>2. r \in Nat /\ f \in Nat /\ c \in Nat
    BY <2>1 DEF BeforeInv
  <2>3. p \in Nat /\ c * (r + 1) = p + c
    <3> HIDE DEF r, c
    <3> QED
      BY <2>2
  <2>4. 2 * f <= p
    BY DEF BeforeInv
  <2>5. 2 * (f + refused) <= p + c
    <3> HIDE DEF p, f, c
    <3> QED
      BY <2>1, <2>2, <2>3, <2>4
  <2> QED
    BY <2>3, <2>5 DEF RefusalsEnd
<1> QED
  BY <1>1, <1>2, <1>3, HistoryInvHolds, PTL DEF HistorySpec

\* For any texts, endings, rows and context: what a provider is asked is in
\* order (buildOpenAIMessages).
THEOREM RequestsRight == HistorySpec => []RequestsWellFormed
<1>1. HistoryInv => RequestsWellFormed
  <2> SUFFICES ASSUME HistoryInv PROVE RequestsWellFormed
    OBVIOUS
  <2>1. HistoryShape /\ rows \in Seq(Rows) /\ request \in Seq(RequestEntries)
    BY DEF HistoryInv, HistoryShape, RowsRight
  <2>2. \A i \in DOMAIN rows : Range(rows[i].calls) \subseteq CallStates
    <3> TAKE i \in DOMAIN rows
    <3>1. rows[i] \in Rows
      BY <2>1
    <3>2. rows[i].calls \in Seq(CallStates)
      BY <3>1 DEF Rows
    <3> QED
      BY <3>2 DEF Range
  <2>3. \A k \in DOMAIN request : request[k].kind \in {"user", "assistant", "calls", "result"}
    <3> TAKE k \in DOMAIN request
    <3>1. request[k] \in RequestEntries
      BY <2>1
    <3> QED
      BY <3>1 DEF RequestEntries, AllKinds
  <2>4. HistoryTypeOK
    BY <2>1, <2>2, <2>3 DEF HistoryTypeOK, HistoryShape
  <2> QED
    BY <2>4 DEF HistoryInv, RefusedInv, RequestsWellFormed
<1> QED
  BY <1>1, HistoryInvHolds, PTL

-----------------------------------------------------------------------------
LEMMA OnlyAskAsks ==
  ASSUME HistoryInv, HistoryNext, stage = "loaded", stage' = "asked"
  PROVE  /\ Ask /\ request' = RequestFor(current) /\ rows' = rows
         /\ RowsRight /\ current \in DOMAIN rows /\ MayBeAskedIn(rows, current)
         /\ context \in Nat
<1>1. Ask
  BY DEF HistoryNext, SendMessage, Rerun, Load, Command, Answer, PauseReply, FailReply, Refuse,
         Confirm, End, Store
<1> QED
  BY <1>1 DEF Ask, HistoryInv, HistoryShape, RowsRight, MayBeAsked

\* The message that is replied to is asked once, or it is displaced.
LEMMA CurrentOnce ==
  ASSUME RowsRight, NEW m \in DOMAIN rows, ~rows[m].event, ~rows[m].bot, context \in Nat
  PROVE  LET asked == {k \in DOMAIN RequestFor(m) :
                         RequestFor(m)[k].kind = "user" /\ RequestFor(m)[k].row = m}
         IN \/ Cardinality(asked) = 1
            \/ /\ asked = {}
               /\ rows[m].gone \/ Cardinality(Newer(m)) >= context
               /\ (\E i \in Window : rows[i].text = rows[m].text) \/ Empty(m)
<1> DEFINE q == RequestFor(m)
           asked == {k \in DOMAIN q : q[k].kind = "user" /\ q[k].row = m}
<1>1. PICK h : /\ HistoryRight(h)
               /\ IsSeq(q)
               /\ \A k \in DOMAIN h : k \in DOMAIN q /\ q[k] = h[k]
               /\ \/ /\ Included(m) \/ Empty(m)
                     /\ Len(q) = Len(h)
                  \/ /\ ~Included(m) /\ ~Empty(m)
                     /\ Len(q) = Len(h) + 1
                     /\ q[Len(h) + 1] = Asks(m)
  BY RequestIs
<1> HIDE DEF q
<1>2. /\ Len(q) \in Nat /\ DOMAIN q = 1 .. Len(q)
      /\ Len(h) \in Nat /\ DOMAIN h = 1 .. Len(h)
  BY <1>1, SeqDomain DEF HistoryRight
<1>3. \A k \in DOMAIN h : h[k].row \in Window
  <2> TAKE k \in DOMAIN h
  <2>1. h[k] \in [kind: AllKinds, row: Window, call: Nat]
    BY <1>1, OneEntry
  <2> QED
    BY <2>1
<1>4. CASE m \in Window
  <2>1. Included(m)
    BY <1>4 DEF Included
  <2>2. DOMAIN q = DOMAIN h
    <3>1. Len(q) = Len(h)
      BY <1>1, <2>1
    <3> QED
      BY <1>2, <3>1
  <2>3. ShownRight(m, Shown(m))
    BY ShownAre DEF RowsRight
  <2>4. 1 \in DOMAIN Shown(m) /\ Shown(m)[1].kind = "user" /\ Shown(m)[1].row = m
    BY <2>3 DEF ShownRight
  <2>5. PICK k \in DOMAIN h : h[k] = Shown(m)[1]
    BY <1>1, <1>4, <2>4 DEF HistoryRight
  <2>6. k \in asked
    BY <1>1, <2>2, <2>4, <2>5
  <2>7. \A l \in DOMAIN h : h[l].row = h[k].row => l = k
    <3>1. h[k].kind = "user"
      BY <2>4, <2>5
    <3> QED
      BY <1>1, <3>1, OneEntry
  <2>8. asked = {k}
    BY <1>1, <2>2, <2>4, <2>5, <2>6, <2>7
  <2>9. Cardinality(asked) = 1
    BY <2>8, FS_Singleton
  <2> QED
    BY <2>9 DEF q
<1>5. CASE m \notin Window
  <2>1. rows[m].gone \/ Cardinality(Newer(m)) >= context
    <3>1. Cardinality(Newer(m)) \in Nat
      BY NewerIs
    <3> QED
      BY <1>5, <3>1 DEF Window, Live
  <2>2. \A k \in DOMAIN h : q[k].row # m
    BY <1>1, <1>3, <1>5
  <2>3. CASE Included(m) \/ Empty(m)
    <3>1. Len(q) = Len(h)
      BY <1>1, <2>3
    <3>2. asked = {}
      BY <1>2, <2>2, <3>1
    <3>3. (\E i \in Window : rows[i].text = rows[m].text) \/ Empty(m)
      BY <2>3 DEF Included
    <3> QED
      BY <2>1, <3>2, <3>3 DEF q
  <2>4. CASE ~Included(m) /\ ~Empty(m)
    <3>1. Len(q) = Len(h) + 1 /\ q[Len(h) + 1] = Asks(m)
      BY <1>1, <2>4
    <3>2. asked = {Len(h) + 1}
      <4>1. \A k \in DOMAIN q : k \in DOMAIN h \/ k = Len(h) + 1
        BY <1>2, <3>1
      <4>2. Len(h) + 1 \in DOMAIN q
        BY <1>2, <3>1
      <4> QED
        BY <2>2, <3>1, <4>1, <4>2 DEF Asks
    <3>3. Cardinality(asked) = 1
      BY <3>2, FS_Singleton
    <3> QED
      BY <3>3 DEF q
  <2> QED
    BY <2>3, <2>4
<1> QED
  BY <1>4, <1>5

\* The result of a call is in the request that continues after it.
LEMMA ResultIsAsked ==
  ASSUME RowsRight, NEW m \in DOMAIN rows, NEW i \in Window, NEW k \in DOMAIN rows[i].calls,
         rows[i].bot, ~rows[i].event, rows[i].calls[k] = "done"
  PROVE  Result(i, k) \in Range(RequestFor(m))
<1>1. PICK h : /\ HistoryRight(h)
               /\ \A l \in DOMAIN h : l \in DOMAIN RequestFor(m) /\ RequestFor(m)[l] = h[l]
  BY RequestIs
<1>2. ShownRight(i, Shown(i))
  BY ShownAre DEF RowsRight, Window, Live
<1>3. PICK a \in DOMAIN Shown(i) : Shown(i)[a] = Result(i, k)
  BY <1>2 DEF ShownRight
<1>4. PICK l \in DOMAIN h : h[l] = Shown(i)[a]
  BY <1>1 DEF HistoryRight
<1> QED
  BY <1>1, <1>3, <1>4 DEF Range

LEMMA CurrentStep ==
  ASSUME HistoryInv, HistoryNext, stage = "loaded", stage' = "asked", ~rows[current].event
  PROVE  LET asked == {k \in DOMAIN request' :
                         request'[k].kind = "user" /\ request'[k].row = current}
         IN \/ Cardinality(asked) = 1
            \/ /\ asked = {}
               /\ rows[current].gone \/ Cardinality(Newer(current)) >= context
               /\ (\E i \in Window : rows[i].text = rows[current].text) \/ Empty(current)
<1>1. /\ request' = RequestFor(current) /\ RowsRight /\ current \in DOMAIN rows
      /\ MayBeAskedIn(rows, current) /\ context \in Nat
  BY OnlyAskAsks
<1>2. ~rows[current].bot
  BY <1>1 DEF MayBeAskedIn, RowsRight
<1> QED
  BY <1>1, <1>2, CurrentOnce

LEMMA ContinuationStep ==
  ASSUME HistoryInv, HistoryNext, stage = "loaded", stage' = "asked", rows[current].event
  PROVE  LET i == rows[current].source[1]
             k == rows[current].source[2]
         IN \/ i \notin Window
            \/ rows[i].calls[k] = "silent"
            \/ [kind |-> "result", row |-> i, call |-> k] \in Range(request')
               /\ rows[i].calls[k] = "done"
<1>1. /\ request' = RequestFor(current) /\ RowsRight /\ current \in DOMAIN rows
      /\ MayBeAskedIn(rows, current)
  BY OnlyAskAsks
<1>2. PICK i \in DOMAIN rows : \E k \in DOMAIN rows[i].calls :
        /\ rows[current].source = <<i, k>>
        /\ rows[i].bot /\ ~rows[i].event
        /\ rows[i].calls[k] \in {"done", "silent"}
  <2>1. current # 0
    BY <1>1 DEF RowsRight
  <2> QED
    BY <1>1, <2>1 DEF MayBeAskedIn
<1>3. PICK k \in DOMAIN rows[i].calls :
        /\ rows[current].source = <<i, k>>
        /\ rows[i].bot /\ ~rows[i].event
        /\ rows[i].calls[k] \in {"done", "silent"}
  BY <1>2
<1>4. rows[current].source[1] = i /\ rows[current].source[2] = k
  BY <1>3
<1>5. i \in Window /\ rows[i].calls[k] = "done" => Result(i, k) \in Range(request')
  BY <1>1, <1>3, ResultIsAsked
<1> QED
  BY <1>3, <1>4, <1>5 DEF Result

\* For any texts, endings, rows and context: a reply is asked with its message,
\* once, or with the result of the confirmed call (GenerateResponse,
\* buildOpenAIMessages), unless newer messages or a rerun have displaced them.
THEOREM AskedWithCause == HistorySpec => HistorySeen
<1>1. HistoryInv /\ [HistoryNext]_historyVars =>
        [Asking /\ ~rows[current].event =>
           LET asked == {k \in DOMAIN request' :
                           request'[k].kind = "user" /\ request'[k].row = current}
           IN \/ Cardinality(asked) = 1
              \/ /\ asked = {}
                 /\ rows[current].gone \/ Cardinality(Newer(current)) >= context
                 /\ (\E i \in Window : rows[i].text = rows[current].text) \/ Empty(current)]_historyVars
  BY CurrentStep DEF Asking
<1>2. HistoryInv /\ [HistoryNext]_historyVars =>
        [Asking /\ rows[current].event =>
           LET i == rows[current].source[1]
               k == rows[current].source[2]
           IN \/ i \notin Window
              \/ rows[i].calls[k] = "silent"
              \/ [kind |-> "result", row |-> i, call |-> k] \in Range(request')
                 /\ rows[i].calls[k] = "done"]_historyVars
  BY ContinuationStep DEF Asking
<1>3. HistorySpec => CurrentIsAsked
  BY <1>1, HistoryInvHolds, PTL DEF HistorySpec, CurrentIsAsked
<1>4. HistorySpec => ContinuationSeesResult
  BY <1>2, HistoryInvHolds, PTL DEF HistorySpec, ContinuationSeesResult
<1> QED
  BY <1>3, <1>4 DEF HistorySeen
=============================================================================
