---------------------------- MODULE ChatHistory -----------------------------
(***************************************************************************)
(* What a provider is asked: the newest messages of the chat, with calls   *)
(* of tools and their results, and the message that is replied to          *)
(* (GenerateResponse, buildOpenAIMessages).  Events take a place among the *)
(* newest messages but are not shown.  One reply is made at a time here;   *)
(* module BotReply is about replies that overlap.                          *)
(*                                                                         *)
(* The provider is external: it may refuse a request in which a call is    *)
(* not followed by its result.                                             *)
(***************************************************************************)
EXTENDS Naturals, FiniteSets, SequencesExt

CONSTANTS
  Texts,
  NoText,
  Commands,     \* texts that are a command to the bot
  Sends,        \* what users send: a text or none, with a file or without
  Endings,      \* sequences of calls a reply may end with
  MaxContext,   \* bound on the number of messages shown
  MaxRows       \* bound on the messages of the chat

\* A call is "open" when its tool had not returned, "silent" when that
\* returned nothing, "pending" when it waits for a confirmation.
CallStates == {"open", "done", "silent", "pending"}

ASSUME HistoryAssumption ==
  /\ NoText \notin Texts
  /\ Commands \subseteq Texts
  /\ Sends \subseteq (Texts \cup {NoText}) \X BOOLEAN
  /\ Endings \subseteq Seq(CallStates \ {"open"})
  /\ MaxContext \in Nat \ {0} /\ MaxRows \in Nat

VARIABLES
  context,  \* the number of messages shown
  rows,     \* the messages, in the order of their ids
  queued,   \* the message whose reply is queued, or none (0)
  current,  \* ... is being made
  stage,    \* of that: "idle", "loaded" or "asked"
  request,  \* what the provider is asked
  refused,  \* requests refused since a call was left without result, or since
            \* a message was run again after that
  before    \* reruns since that call was left, and requests refused before them

historyVars ==
  <<context, rows, queued, current, stage, request, refused, before>>

UserRow(text, file) ==
  [bot |-> FALSE, event |-> FALSE, text |-> text, file |-> file,
   calls |-> <<>>, source |-> <<>>, gone |-> FALSE]
BotRow(text, calls) ==
  [UserRow(text, FALSE) EXCEPT !.bot = TRUE, !.calls = calls]
Event(by, source) ==
  [UserRow(NoText, FALSE) EXCEPT !.bot = by, !.event = TRUE, !.source = source]

HistoryInit ==
  /\ context \in 1 .. MaxContext
  /\ rows = <<>>
  /\ queued = 0 /\ current = 0
  /\ stage = "idle"
  /\ request = <<>>
  /\ refused = 0 /\ before = [reruns |-> 0, refused |-> 0]

Live == {i \in DOMAIN rows : ~rows[i].gone}
Newer(i) == {j \in Live : j > i}

Unanswered(calls) == Range(calls) \cap {"open", "silent"} # {}

(***************************************************************************)
(* The request.                                                            *)
(***************************************************************************)
Window == {i \in Live : Cardinality(Newer(i)) < context}

Entry(kind, i, k) == <<[kind |-> kind, row |-> i, call |-> k]>>

Results(i) ==
  FlattenSeq([k \in DOMAIN rows[i].calls |->
    IF Unanswered(<<rows[i].calls[k]>>) THEN <<>> ELSE Entry("result", i, k)])

Shown(i) ==
  LET entry(kind) == Entry(kind, i, 0) IN
  CASE rows[i].event -> <<>>
    [] ~rows[i].event /\ ~rows[i].bot -> entry("user")
    [] OTHER ->
         (IF rows[i].calls # <<>> THEN entry("calls") \o Results(i) ELSE <<>>)
         \o (IF rows[i].text # NoText THEN entry("assistant") ELSE <<>>)

\* A message counts as shown when one with its text is.
Included(m) == \E i \in Window : ~rows[i].event /\ rows[i].text = rows[m].text

\* There is nothing in it that could be asked.
Empty(m) == rows[m].text = NoText /\ ~rows[m].file

History == [i \in DOMAIN rows |-> IF i \in Window THEN Shown(i) ELSE <<>>]

\* Fault: the newest message comes first, as it is listed.
RequestAsListed(m) == FlattenSeq(Reverse(History))

RequestFor(m) ==
  FlattenSeq(History) \o (IF Included(m) \/ Empty(m) THEN <<>> ELSE Entry("user", m, 0))

Refusable ==
  \E k \in DOMAIN request :
    request[k].kind = "calls" /\ Unanswered(rows[request[k].row].calls)

(***************************************************************************)
(* Messages and their reply.                                               *)
(***************************************************************************)
Room(n) == Len(rows) + n <= MaxRows

Store(new) ==
  /\ Len(rows) < MaxRows
  /\ rows' = Append(rows, new)

SendMessage(text, file) ==
  /\ Store(UserRow(text, file))
  /\ queued' = Len(rows) + 1
  /\ UNCHANGED <<context, current, stage, request, refused, before>>

\* The message and all that followed it are deleted, and it is sent again.
Rerun(i) ==
  /\ i \in Live /\ ~rows[i].bot /\ ~rows[i].event
  /\ Room(1)
  /\ rows' = Append([j \in DOMAIN rows |-> [rows[j] EXCEPT !.gone = @ \/ j >= i]], rows[i])
  /\ queued' = Len(rows) + 1
  /\ refused' = 0
  /\ before' = [reruns |-> before.reruns + 1, refused |-> before.refused + refused]
  /\ UNCHANGED <<context, current, stage, request>>

\* The task looks for its message, and ends if that is deleted.
Load ==
  /\ stage = "idle" /\ queued # 0
  /\ queued' = 0
  /\ IF queued \in Live
     THEN current' = queued /\ stage' = "loaded"
     ELSE UNCHANGED <<current, stage>>
  /\ UNCHANGED <<context, rows, request, refused, before>>

Ask ==
  /\ stage = "loaded" /\ rows[current].text \notin Commands
  /\ request' = RequestFor(current)
  /\ stage' = "asked"
  /\ UNCHANGED <<context, rows, queued, current, refused, before>>

End(new) ==
  /\ Store(new)
  /\ stage' = "idle" /\ current' = 0 /\ request' = <<>>
  /\ UNCHANGED <<context, queued>>

\* History: if a call is left without a result, the refusals are counted anew.
CountAnew(left) ==
  /\ refused' = IF left THEN 0 ELSE refused
  /\ before' = IF left THEN [reruns |-> 0, refused |-> 0] ELSE before

Answer(text, calls) ==
  /\ stage = "asked"
  /\ text # NoText \/ calls # <<>>
  /\ End(BotRow(text, calls))
  /\ CountAnew(Unanswered(calls))

\* A command is answered at once, and one of them again and again, cancelled
\* or not.
Command ==
  /\ stage = "loaded" /\ rows[current].text \in Commands
  /\ \/ End(BotRow("answered", <<>>))
     \/ /\ Store(BotRow("answered", <<>>))
        /\ UNCHANGED <<context, queued, current, stage, request>>
  /\ UNCHANGED <<refused, before>>

\* A cancelled reply may leave the call whose tool still runs.
PauseReply(calls) ==
  /\ stage = "asked"
  /\ End(BotRow("paused", Append(calls, "open")))
  /\ CountAnew(TRUE)

FailReply ==
  /\ stage \in {"loaded", "asked"}
  /\ End(BotRow("failed", <<>>))
  /\ UNCHANGED <<refused, before>>

\* Fault: the chat is not told of it.
RefuseUntold ==
  /\ stage = "asked" /\ Refusable
  /\ stage' = "idle" /\ current' = 0 /\ request' = <<>>
  /\ refused' = refused + 1
  /\ UNCHANGED <<context, rows, queued, before>>

Refuse ==
  /\ stage = "asked" /\ Refusable
  /\ End(BotRow("failed", <<>>))
  /\ refused' = refused + 1
  /\ UNCHANGED before

(***************************************************************************)
(* A pending call that its user confirms: the result is written to it, two *)
(* events are stored, and the first of them may get a reply.               *)
(***************************************************************************)
\* Fault: the result is not written.
ConfirmUnwritten(i, k, outcome, continue) ==
  /\ i \in Live /\ k \in DOMAIN rows[i].calls /\ rows[i].calls[k] = "pending"
  /\ Room(2)
  /\ rows' = rows \o <<Event(FALSE, <<i, k>>), Event(TRUE, <<i, k>>)>>
  /\ queued' = IF continue /\ outcome # "failed" THEN Len(rows) + 1 ELSE queued
  /\ UNCHANGED <<context, current, stage, request, refused, before>>

Confirm(i, k, outcome, continue) ==
  /\ i \in Live /\ k \in DOMAIN rows[i].calls /\ rows[i].calls[k] = "pending"
  /\ Room(2)
  /\ rows' = [rows EXCEPT ![i].calls[k] = IF outcome = "failed" THEN @ ELSE outcome]
             \o <<Event(FALSE, <<i, k>>), Event(TRUE, <<i, k>>)>>
  /\ queued' = IF continue /\ outcome # "failed" THEN Len(rows) + 1 ELSE queued
  /\ CountAnew(outcome = "silent")
  /\ UNCHANGED <<context, current, stage, request>>

HistoryNext ==
  \/ \E s \in Sends : SendMessage(s[1], s[2])
  \/ \E i \in DOMAIN rows : Rerun(i)
  \/ Load \/ Ask \/ Command
  \/ \E text \in (Texts \ Commands) \cup {NoText}, calls \in Endings : Answer(text, calls)
  \/ \E calls \in Endings : PauseReply(calls)
  \/ FailReply \/ Refuse
  \/ \E i \in DOMAIN rows, k \in 1 .. 2, continue \in BOOLEAN :
       \E outcome \in {"done", "silent", "failed"} : Confirm(i, k, outcome, continue)

HistorySpec == HistoryInit /\ [][HistoryNext]_historyVars

(***************************************************************************)
(* Properties.                                                             *)
(***************************************************************************)
\* What is replied to is a message of the chat, and every call has a state.
HistoryTypeOK ==
  /\ context \in 1 .. MaxContext
  /\ queued \in 0 .. Len(rows) /\ current \in 0 .. Len(rows)
  /\ stage = "idle" <=> current = 0
  /\ \A i \in DOMAIN rows : Range(rows[i].calls) \subseteq CallStates
  /\ \A k \in DOMAIN request :
       request[k].kind \in {"user", "assistant", "calls", "result"}

Asking == stage = "loaded" /\ stage' = "asked"

\* The provider is asked the message that it should answer, and once; only
\* when newer messages or a rerun have displaced it, another one with the
\* same text may stand for it, or none if there is nothing in it.
CurrentIsAsked ==
  [][Asking /\ ~rows[current].event =>
       LET asked == {k \in DOMAIN request' :
                       request'[k].kind = "user" /\ request'[k].row = current}
       IN \/ Cardinality(asked) = 1
          \/ /\ asked = {}
             /\ rows[current].gone \/ Cardinality(Newer(current)) >= context
             /\ (\E i \in Window : rows[i].text = rows[current].text) \/ Empty(current)]_historyVars

\* What was said is shown in the order it was said, a result after its call,
\* but for the message to be answered, which may be the last.
RequestInOrder ==
  \A k \in 2 .. Len(request) :
    \/ request[k - 1].row < request[k].row
    \/ k = Len(request) /\ request[k].row = current /\ request[k - 1].row # current
    \/ /\ request[k - 1].row = request[k].row
       /\ request[k].kind \in {"result", "assistant"}
       /\ request[k - 1].call < request[k].call \/ request[k].kind = "assistant"

\* The reply to a confirmed call is asked with the result of its tool, if
\* that had one, unless newer messages or a rerun have displaced the call.
ContinuationSeesResult ==
  [][Asking /\ rows[current].event =>
       LET i == rows[current].source[1]
           k == rows[current].source[2]
       IN \/ i \notin Window
          \/ rows[i].calls[k] = "silent"
          \/ [kind |-> "result", row |-> i, call |-> k] \in Range(request')
             /\ rows[i].calls[k] = "done"]_historyVars

\* What the provider is given keeps its order.
RequestsWellFormed == HistoryTypeOK /\ RequestInOrder

\* A call without a result makes the provider refuse what follows, but only a
\* rerun can make that last: each refusal is told in the chat and so moves
\* the call towards the end of the messages shown, while a rerun deletes such
\* messages and brings the call back.  No more than half of the messages
\* shown are refused, rounded up, before the first rerun and after each.
RefusalsEnd ==
  2 * (before.refused + refused) <= (context + 1) * (before.reruns + 1)

\* A reply is asked with what it is about: the message to be answered, or the
\* result of the confirmed call.
HistorySeen ==
  /\ CurrentIsAsked
  /\ ContinuationSeesResult
=============================================================================
