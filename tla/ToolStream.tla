----------------------------- MODULE ToolStream -----------------------------
(***************************************************************************)
(* One generated reply: the producer goroutine that talks to the provider, *)
(* runs the tools it asks for and goes on for further rounds               *)
(* (streamChatCompletion), and the consumer that assembles the message     *)
(* (processStreamingResponse).  They share three unbuffered channels,      *)
(* where a send is a rendezvous, and an error channel of capacity one.     *)
(*                                                                         *)
(* The provider is external: in every round it may send any sequence of    *)
(* text, usage and tool calls, end the stream or break it.  The think tags *)
(* of reasoning models are the subject of ThinkTags.                       *)
(***************************************************************************)
EXTENDS Naturals, FiniteSets

CONSTANTS
  Calls,          \* tool calls the provider may issue
  IdOf,           \* the id of a call, which another one may have as well
  SignatureOf,    \* its name and arguments
  Confirmable,    \* calls to tools that require confirmation
  Stopping,       \* ... and that stop the reply (StopOnFirstConfirmable...)
  MaxTotal,       \* tool_call_max_total
  MaxFailed,      \* tool_call_max_failed
  MaxChunks,      \* bound on the pieces of text in a reply
  ParallelCalls,  \* may one round hold several calls?
  RepeatedIds,    \* may the provider use an id again, but for the empty one?
  Cancels         \* may the context of the reply end?

NoCall == "no call"

ASSUME ConstantsAssumption ==
  /\ IsFiniteSet(Calls) /\ NoCall \notin Calls
  /\ Confirmable \subseteq Calls
  /\ Stopping \subseteq Confirmable
  /\ MaxTotal \in Nat \ {0}
  /\ MaxFailed \in Nat \ {0}
  /\ MaxChunks \in Nat
  /\ ParallelCalls \in BOOLEAN
  /\ RepeatedIds \in BOOLEAN
  /\ Cancels \in BOOLEAN

VARIABLES
  prod,       \* where the producer is
  cur,        \* the call it works on, or NoCall
  outcome,    \* status of that call
  round,      \* what the current round has brought: its last call, ...
  total,      \* totalToolCalls
  failed,     \* failedToolCalls
  processed,  \* processedToolIds
  cache,      \* executedToolResults: status of a signature already executed
  issued,     \* ids the provider has used
  latest,     \* the last call it has completed under an id
  executed,   \* calls whose tool was run, in this reply
  sent,       \* pieces of text handed to chunkChan so far
  mark,       \* value of sent when the first call went to toolChan
  err,        \* the error in errChan's buffer
  closed,     \* channels the producer has closed
  completed,  \* have the interaction_complete tools been run?
  cons,       \* "looping", "finished", "failed" or "paused"
  chans,      \* channels the consumer still selects on
  had,        \* hadToolCall
  shown,      \* pieces of text in fullText
  calls,      \* allToolCalls: what is recorded under an id
  ctx         \* "live" or "ended"

producerVars == <<prod, cur, outcome, round, total, failed, processed, cache,
                  issued, latest, executed, sent, mark, err, closed, completed>>
consumerVars == <<cons, chans, had, shown, calls>>
vars == <<producerVars, consumerVars, ctx>>

Channels   == {"chunks", "usage", "tools", "errs"}
Signatures == {SignatureOf[c] : c \in Calls}
NoId       == ""
Ids        == {IdOf[c] : c \in Calls} \cup {NoId}
NoRecord   == [call |-> NoCall, status |-> "none"]

NoRound == [used |-> FALSE, call |-> NoCall, status |-> "none", stop |-> FALSE]

Init ==
  /\ prod = "starting"
  /\ cur = NoCall
  /\ outcome = "none"
  /\ round = NoRound
  /\ total = 0
  /\ failed = 0
  /\ processed = {}
  /\ cache = [s \in Signatures |-> "none"]
  /\ issued = {}
  /\ latest = [i \in Ids |-> NoCall]
  /\ executed = {}
  /\ sent = 0
  /\ mark = 0
  /\ err = FALSE
  /\ closed = {}
  /\ completed = FALSE
  /\ cons = "looping"
  /\ chans = Channels
  /\ had = FALSE
  /\ shown = {}
  /\ calls = [i \in Ids |-> NoRecord]
  /\ ctx = "live"

(***************************************************************************)
(* The producer.                                                           *)
(***************************************************************************)

\* The interaction_start tools are run; their errors are only logged.
StartTools ==
  /\ prod = "starting"
  /\ prod' = "request"
  /\ UNCHANGED <<cur, outcome, round, total, failed, processed, cache, issued,
                 latest, executed, sent, mark, err, closed, completed, consumerVars,
                 ctx>>

Fail ==
  /\ err' = TRUE
  /\ prod' = "closing"

WithinLimits == total < MaxTotal /\ failed < MaxFailed

\* The head of the loop: the limits, then the request of the next round.
Request ==
  /\ prod = "request"
  /\ WithinLimits
  /\ prod' = "reading"
  /\ round' = NoRound
  /\ UNCHANGED <<cur, outcome, total, failed, processed, cache, issued,
                 latest, executed, sent, mark, err, closed, completed, consumerVars,
                 ctx>>

LimitExceeded ==
  /\ prod = "request"
  /\ ~WithinLimits
  /\ Fail
  /\ UNCHANGED <<cur, outcome, round, total, failed, processed, cache, issued,
                 latest, executed, sent, mark, closed, completed, consumerVars, ctx>>

\* The request fails or the stream breaks, which ends the whole reply.
StreamBreaks ==
  /\ prod = "reading"
  /\ Fail
  /\ UNCHANGED <<cur, outcome, round, total, failed, processed, cache, issued,
                 latest, executed, sent, mark, closed, completed, consumerVars, ctx>>

ReadText ==
  /\ prod = "reading"
  /\ sent < MaxChunks
  /\ sent' = sent + 1
  /\ prod' = "chunk"
  /\ UNCHANGED <<cur, outcome, round, total, failed, processed, cache, issued,
                 latest, executed, mark, err, closed, completed, consumerVars, ctx>>

ReadUsage ==
  /\ prod = "reading"
  /\ prod' = "usage"
  /\ UNCHANGED <<cur, outcome, round, total, failed, processed, cache, issued,
                 latest, executed, sent, mark, err, closed, completed, consumerVars,
                 ctx>>

\* In one round only another id begins another call.
Begins(c) ==
  round.call # NoCall => c = round.call \/ IdOf[c] \notin {IdOf[round.call], NoId}

Issue(c) ==
  /\ prod = "reading"
  /\ ParallelCalls \/ ~round.used
  /\ Begins(c)
  /\ IdOf[c] \notin issued \/ RepeatedIds
  /\ issued' = issued \cup ({IdOf[c]} \ {NoId})

\* A call to a tool that does not exist, or whose arguments never parse.
ReadUnusableCall(c) ==
  /\ Issue(c)
  /\ round' = [round EXCEPT !.used = TRUE, !.call = c]
  /\ UNCHANGED <<prod, cur, outcome, total, failed, processed, cache, latest, executed,
                 sent, mark, err, closed, completed, consumerVars, ctx>>

Mark == mark' = IF \A i \in Ids : calls[i] = NoRecord THEN sent ELSE mark

\* A complete call.  A signature already executed in this reply is answered
\* from the cache, otherwise the call is announced and run.
ReadCall(c) ==
  /\ Issue(c)
  /\ cur' = c
  /\ latest' = [latest EXCEPT ![IdOf[c]] = c]
  /\ Mark
  /\ LET known == cache[SignatureOf[c]] IN
     \/ /\ known # "none"
        /\ outcome' = IF known = "failed" THEN "failed" ELSE "succeeded"
        /\ prod' = "report"
        /\ round' = [round EXCEPT !.used = TRUE, !.call = c, !.status = outcome']
     \/ /\ known = "none"
        /\ outcome' = "ongoing"
        /\ prod' = "announce"
        /\ round' = [round EXCEPT !.used = TRUE, !.call = c]
  /\ UNCHANGED <<total, failed, processed, cache, executed, sent, err, closed,
                 completed, consumerVars, ctx>>

\* Fault: the result is not sent to the consumer.
RunToolUnreported ==
  /\ prod = "run"
  /\ executed' = executed \cup {cur}
  /\ IF cur \in Confirmable
     THEN outcome' = "pending"
     ELSE outcome' \in {"succeeded", "failed"}
  /\ round' = [round EXCEPT !.status = outcome', !.stop = @ \/ cur \in Stopping]
  /\ cache' = [cache EXCEPT ![SignatureOf[cur]] = outcome']
  /\ prod' = "reading"
  /\ UNCHANGED <<cur, total, failed, processed, issued, latest, sent, mark, err, closed,
                 completed, consumerVars, ctx>>

\* The tool is run.  One that requires confirmation is run as well; its result
\* is kept only if it is itself a suggestion to confirm.
RunTool ==
  /\ prod = "run"
  /\ executed' = executed \cup {cur}
  /\ IF cur \in Confirmable
     THEN outcome' = "pending"
     ELSE outcome' \in {"succeeded", "failed"}
  /\ round' = [round EXCEPT !.status = outcome', !.stop = @ \/ cur \in Stopping]
  /\ cache' = [cache EXCEPT ![SignatureOf[cur]] = outcome']
  /\ prod' = "report"
  /\ UNCHANGED <<cur, total, failed, processed, issued, latest, sent, mark, err, closed,
                 completed, consumerVars, ctx>>

\* The stream ends and no tool was used: the reply is complete, and the
\* interaction_complete tools are run.
EndRound ==
  /\ prod = "reading"
  /\ ~round.used
  /\ completed' = TRUE
  /\ prod' = "closing"
  /\ UNCHANGED <<cur, outcome, round, total, failed, processed, cache, issued,
                 latest, executed, sent, mark, err, closed, consumerVars, ctx>>

\* The id of the round's last call; the empty one is never processed.
RoundIds == IF round.call = NoCall THEN {} ELSE {IdOf[round.call]} \ {NoId}

Seen == RoundIds \cap processed # {}

\* Fault: a confirmable call does not stop the reply.
EndToolRoundGoingOn ==
  /\ prod = "reading"
  /\ round.used
  /\ processed' = processed \cup RoundIds
  /\ IF ~Seen /\ ~round.stop
     THEN /\ total' = total + 1
          /\ failed' = IF round.status = "failed" THEN failed + 1 ELSE failed
     ELSE UNCHANGED <<total, failed>>
  /\ prod' = "request"
  /\ UNCHANGED <<cur, outcome, round, cache, issued, latest, executed, sent, mark, err,
                 closed, completed, consumerVars, ctx>>

\* Fault: a failed call is not counted as one.
EndToolRoundForgiving ==
  /\ prod = "reading"
  /\ round.used
  /\ processed' = processed \cup RoundIds
  /\ IF ~Seen /\ ~round.stop
     THEN total' = total + 1 /\ UNCHANGED failed
     ELSE UNCHANGED <<total, failed>>
  /\ prod' = IF round.stop /\ ~Seen THEN "closing" ELSE "request"
  /\ UNCHANGED <<cur, outcome, round, cache, issued, latest, executed, sent, mark, err,
                 closed, completed, consumerVars, ctx>>

\* The stream ends after a tool call: skip an id already processed, stop after
\* a confirmable call, or count the round and go on.  Calls of one round are
\* counted as one.
EndToolRound ==
  /\ prod = "reading"
  /\ round.used
  /\ processed' = processed \cup RoundIds
  /\ IF ~Seen /\ ~round.stop
     THEN /\ total' = total + 1
          /\ failed' = IF round.status = "failed" THEN failed + 1 ELSE failed
     ELSE UNCHANGED <<total, failed>>
  /\ prod' = IF round.stop /\ ~Seen THEN "closing" ELSE "request"
  /\ UNCHANGED <<cur, outcome, round, cache, issued, latest, executed, sent, mark, err,
                 closed, completed, consumerVars, ctx>>

\* Fault: the usage channel is not closed.
CloseAllButUsage ==
  LET next == IF "errs" \notin closed THEN "errs"
              ELSE IF "tools" \notin closed THEN "tools" ELSE "chunks" IN
  /\ prod = "closing"
  /\ closed' = closed \cup {next}
  /\ prod' = IF next = "chunks" THEN "done" ELSE "closing"
  /\ UNCHANGED <<cur, outcome, round, total, failed, processed, cache, issued,
                 latest, executed, sent, mark, err, completed, consumerVars, ctx>>

\* The deferred closes, last one first.
Close ==
  LET next == IF "errs" \notin closed THEN "errs"
              ELSE IF "tools" \notin closed THEN "tools"
              ELSE IF "usage" \notin closed THEN "usage" ELSE "chunks" IN
  /\ prod = "closing"
  /\ closed' = closed \cup {next}
  /\ prod' = IF next = "chunks" THEN "done" ELSE "closing"
  /\ UNCHANGED <<cur, outcome, round, total, failed, processed, cache, issued,
                 latest, executed, sent, mark, err, completed, consumerVars, ctx>>

(***************************************************************************)
(* The consumer.  A receive from an unbuffered channel is a joint step.    *)
(***************************************************************************)

ReceiveChunk ==
  /\ cons = "looping"
  /\ prod = "chunk"
  /\ shown' = shown \cup {sent}
  /\ prod' = "reading"
  /\ UNCHANGED <<cur, outcome, round, total, failed, processed, cache, issued,
                 latest, executed, sent, mark, err, closed, completed, cons, chans,
                 had, calls, ctx>>

ReceiveUsage ==
  /\ cons = "looping"
  /\ prod = "usage"
  /\ prod' = "reading"
  /\ UNCHANGED <<cur, outcome, round, total, failed, processed, cache, issued,
                 latest, executed, sent, mark, err, closed, completed, consumerVars,
                 ctx>>

\* Fault: every tool call clears the text, not only the first.
ReceiveCallClearing ==
  /\ cons = "looping"
  /\ prod \in {"announce", "report"}
  /\ had' = TRUE
  /\ shown' = {}
  /\ calls' = [calls EXCEPT ![IdOf[cur]] = [call |-> cur, status |-> outcome]]
  /\ prod' = IF prod = "announce" THEN "run" ELSE "reading"
  /\ UNCHANGED <<cur, outcome, round, total, failed, processed, cache, issued,
                 latest, executed, sent, mark, err, closed, completed, cons, chans, ctx>>

\* A tool call, announced or with its result.  The first one clears the text.
ReceiveCall ==
  /\ cons = "looping"
  /\ prod \in {"announce", "report"}
  /\ had' = TRUE
  /\ shown' = IF had THEN shown ELSE {}
  /\ calls' = [calls EXCEPT ![IdOf[cur]] = [call |-> cur, status |-> outcome]]
  /\ prod' = IF prod = "announce" THEN "run" ELSE "reading"
  /\ UNCHANGED <<cur, outcome, round, total, failed, processed, cache, issued,
                 latest, executed, sent, mark, err, closed, completed, cons, chans, ctx>>

ReceiveError ==
  /\ cons = "looping"
  /\ "errs" \in chans
  /\ err
  /\ err' = FALSE
  /\ cons' = "failed"
  /\ UNCHANGED <<prod, cur, outcome, round, total, failed, processed, cache,
                 issued, latest, executed, sent, mark, closed, completed, chans, had,
                 shown, calls, ctx>>

\* A closed and empty channel is no longer selected on.
SeeClosed(ch) ==
  /\ cons = "looping"
  /\ ch \in chans \cap closed
  /\ ch = "errs" => ~err
  /\ chans' = chans \ {ch}
  /\ UNCHANGED <<producerVars, cons, had, shown, calls, ctx>>

\* Fault: the error channel is not waited for.
FinishWithoutErrors ==
  /\ cons = "looping"
  /\ chans \subseteq {"errs"}
  /\ cons' = "finished"
  /\ UNCHANGED <<producerVars, chans, had, shown, calls, ctx>>

\* All channels are closed: the final message.
Finish ==
  /\ cons = "looping"
  /\ chans = {}
  /\ cons' = "finished"
  /\ UNCHANGED <<producerVars, chans, had, shown, calls, ctx>>

\* The select takes ctx.Done: "I paused this response".
Pause ==
  /\ cons = "looping"
  /\ ctx = "ended"
  /\ chans # {}
  /\ cons' = "paused"
  /\ UNCHANGED <<producerVars, chans, had, shown, calls, ctx>>

ContextEnds ==
  /\ Cancels
  /\ ctx = "live"
  /\ ctx' = "ended"
  /\ UNCHANGED <<producerVars, consumerVars>>

Produce ==
  \/ StartTools \/ Request \/ LimitExceeded \/ StreamBreaks
  \/ ReadText \/ ReadUsage
  \/ \E c \in Calls : ReadUnusableCall(c) \/ ReadCall(c)
  \/ RunTool \/ EndRound \/ EndToolRound \/ Close

Consume ==
  \/ ReceiveChunk \/ ReceiveUsage \/ ReceiveCall \/ ReceiveError
  \/ \E ch \in Channels : SeeClosed(ch)
  \/ Finish \/ Pause

Next == Produce \/ Consume \/ ContextEnds

Spec == Init /\ [][Next]_vars

(***************************************************************************)
(* Fairness: the goroutines run, a tool returns, and the request of a      *)
(* round ends, at the latest with the timeout of the HTTP client (300 s).  *)
(***************************************************************************)
RoundEnds == StreamBreaks \/ EndRound \/ EndToolRound

FairSpec ==
  /\ Spec
  /\ WF_vars(Produce)
  /\ WF_vars(Consume)
  /\ SF_vars(RoundEnds)

-----------------------------------------------------------------------------
(***************************************************************************)
(* Properties.                                                             *)
(***************************************************************************)

\* Every variable keeps its type, and the counters stay within the limits the
\* reply was started with.
TypeOK ==
  /\ prod \in {"starting", "request", "reading", "chunk", "usage", "announce",
               "run", "report", "closing", "done"}
  /\ cur \in Calls \cup {NoCall}
  /\ outcome \in {"none", "ongoing", "pending", "succeeded", "failed"}
  /\ round \in [used: BOOLEAN, call: Calls \cup {NoCall},
                status: {"none", "ongoing", "pending", "succeeded", "failed"},
                stop: BOOLEAN]
  /\ total \in 0..MaxTotal
  /\ failed \in 0..MaxFailed
  /\ processed \subseteq Ids
  /\ cache \in [Signatures -> {"none", "pending", "succeeded", "failed"}]
  /\ issued \subseteq Ids
  /\ latest \in [Ids -> Calls \cup {NoCall}]
  /\ executed \subseteq Calls
  /\ sent \in 0..MaxChunks
  /\ mark \in 0..sent
  /\ err \in BOOLEAN
  /\ closed \subseteq Channels
  /\ completed \in BOOLEAN
  /\ cons \in {"looping", "finished", "failed", "paused"}
  /\ chans \subseteq Channels
  /\ had \in BOOLEAN
  /\ shown \subseteq 1..MaxChunks
  /\ calls \in [Ids -> [call: Calls \cup {NoCall},
                        status: {"none", "ongoing", "pending", "succeeded", "failed"}]]
  /\ ctx \in {"live", "ended"}

\* An error of the producer is never lost between the closing channels: the
\* consumer does not finish a reply as if it were complete.
NoSwallowedError == cons = "finished" => ~err

\* A finished reply shows all the text of its last part: everything since the
\* first tool call if there was one, and everything otherwise.
FinalTextComplete ==
  cons = "finished" =>
    shown = (IF had THEN mark + 1 ELSE 1) .. sent

\* The message accounts for the tools that were run: something is recorded
\* under the id of each, a message that was not paused says how it ended, and
\* what it says is of that call, unless the provider has given its id, which
\* may be empty, to a later one: that takes its place in allToolCalls.
CallsAccountedFor ==
  /\ \A c \in executed : calls[IdOf[c]] # NoRecord
  /\ cons \in {"finished", "failed"} =>
       /\ \A i \in Ids : calls[i].status # "ongoing"
       /\ \A c \in executed : calls[IdOf[c]].call = c \/ latest[IdOf[c]] # c

\* With one call in a round, a reply runs at most MaxTotal tools, and no tool
\* once MaxFailed of them have failed.
ToolCallsWithinLimit ==
  /\ Cardinality(executed) <= MaxTotal
  /\ Cardinality({c \in executed : cache[SignatureOf[c]] = "failed"}) <= MaxFailed

\* The completion tools are run in a reply that ends by itself, and only there:
\* not in one that fails, and not in one that stops to be confirmed.
CompletesWhenAnswered ==
  /\ cons = "finished" => completed = (executed \cap Stopping = {})
  /\ cons = "failed" => ~completed

\* Once a call that stops the reply was run, the reply runs no other tool.
NothingAfterStop ==
  [][executed \cap Stopping # {} => executed' = executed]_vars

\* The reply ends: the consumer sends a final message.
ReplyEnds == <>(cons # "looping")

\* What the rounds of a reply keep to: the limits on its tools, and the
\* completion tools at its end.
RoundsKept ==
  /\ TypeOK
  /\ ToolCallsWithinLimit
  /\ CompletesWhenAnswered
=============================================================================
