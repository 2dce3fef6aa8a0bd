----------------------------- MODULE ThinkTags ------------------------------
(***************************************************************************)
(* The text of a reply as it comes in: pieces of any length, in which the  *)
(* model marks what it thinks by two tags.  With reasoning switched on,    *)
(* the pieces are taken apart as they arrive, with the end of a piece kept *)
(* back as long as it may be the beginning of a tag; the tags that are     *)
(* left are taken out when the message is stored (processStreamingResponse)*)
(*                                                                         *)
(* White space, which the code trims, is not among the symbols; a tag is   *)
(* written with fewer of them, and in one case.                            *)
(***************************************************************************)
EXTENDS Naturals, SequencesExt

CONSTANTS
  Symbols,
  ThinkStart, ThinkEnd,  \* the two tags
  MaxText,       \* bound on the text of a reply
  MaxPiece       \* bound on one piece

ASSUME TagAssumption ==
  /\ ThinkStart \in Seq(Symbols) /\ ThinkEnd \in Seq(Symbols)
  /\ Len(ThinkStart) > 0 /\ Len(ThinkEnd) > 0
  /\ MaxText \in Nat /\ MaxPiece \in Nat \ {0}

VARIABLES
  reasoning,  \* is reasoning switched on?
  text,       \* all that the model has sent
  cut,        \* how much of it had come when the first tool was called
  inThought,  \* ... was the model thinking then?
  reply,      \* what the handler has made of it
  stored,     \* the message
  mode        \* "streaming", "finished", "paused" or "failed"

tagVars == <<reasoning, text, cut, inThought, reply, stored, mode>>

(***************************************************************************)
(* Finding and taking out tags.                                            *)
(***************************************************************************)
At(s, tag) ==
  {i \in 1 .. Len(s) - Len(tag) + 1 : SubSeq(s, i, i + Len(tag) - 1) = tag}

Before(s, i) == SubSeq(s, 1, i - 1)
From(s, i)   == SubSeq(s, i, Len(s))

\* What comes before the first place of a tag, and what after it.
Until(s, tag) == Before(s, Min(At(s, tag)))
After(s, tag) == From(s, Min(At(s, tag)) + Len(tag))

Erase(s, tag) ==
  LET erased[t \in Seq(Symbols)] ==
        IF At(t, tag) = {} THEN t ELSE Until(t, tag) \o erased[After(t, tag)]
  IN erased[s]

\* The places where a section is closed that was opened at i.
Closes(s, i) == {j \in At(s, ThinkEnd) : j >= i + Len(ThinkStart)}

\* The sections, each as short as possible, and what is around them.
Sections[s \in Seq(Symbols)] ==
  LET opened == {i \in At(s, ThinkStart) : Closes(s, i) # {}} IN
  IF opened = {} THEN [clean |-> s, thoughts |-> <<>>]
  ELSE LET i    == Min(opened)
           j    == Min(Closes(s, i))
           rest == Sections[From(s, j + Len(ThinkEnd))]
       IN [clean    |-> Before(s, i) \o rest.clean,
           thoughts |-> <<SubSeq(s, i + Len(ThinkStart), j - 1)>> \o rest.thoughts]

\* Without a section, a closing tag means that all before it was thought.
Extract(s) ==
  CASE Sections[s].thoughts # <<>> -> Sections[s]
    [] Sections[s].thoughts = <<>> /\ At(s, ThinkEnd) # {} ->
         [clean    |-> Erase(Erase(After(s, ThinkEnd), ThinkStart), ThinkEnd),
          thoughts |-> <<Erase(Until(s, ThinkEnd), ThinkStart)>>]
    [] OTHER -> [clean |-> Erase(Erase(s, ThinkStart), ThinkEnd), thoughts |-> <<>>]

Noted(entries, thought) ==
  IF thought = <<>> \/ thought \in Range(entries) THEN entries ELSE Append(entries, thought)

NotedAll(entries, more) ==
  LET noted[n \in 0 .. Len(more)] ==
        IF n = 0 THEN entries ELSE Noted(noted[n - 1], more[n])
  IN noted[Len(more)]

(***************************************************************************)
(* A piece of text.                                                        *)
(***************************************************************************)
TagInit ==
  /\ reasoning \in BOOLEAN
  /\ text = <<>>
  /\ cut = 0
  /\ inThought = FALSE
  /\ reply = [full |-> <<>>, buffer |-> <<>>, thinking |-> FALSE, thought |-> <<>>,
              step |-> <<>>, entries |-> <<>>, called |-> FALSE]
  /\ stored = [text |-> <<>>, entries |-> <<>>]
  /\ mode = "streaming"

Replies ==
  [full: Seq(Symbols), buffer: Seq(Symbols), thinking: BOOLEAN, thought: Seq(Symbols),
   step: Seq(Symbols), entries: Seq(Seq(Symbols)), called: BOOLEAN]

Answer(r, s) == [r EXCEPT !.full = @ \o s]
Think(r, s)  == [r EXCEPT !.thought = @ \o s, !.step = @ \o s]
EndStep(r)   == [r EXCEPT !.entries = Noted(@, r.step), !.step = <<>>]

\* Fault: one symbol too few is kept back.
KeptShort(s, tag) == From(s, IF Len(s) < Len(tag) THEN 1 ELSE Len(s) - Len(tag) + 3)
\* What arrives is passed on, but for an end that may become the tag.
Kept(s, tag) == From(s, IF Len(s) < Len(tag) THEN 1 ELSE Len(s) - Len(tag) + 2)
Sent(s, tag) == Before(s, Len(s) - Len(Kept(s, tag)) + 1)

Awaited(r) == IF r.thinking THEN ThinkEnd ELSE ThinkStart

TakeTag(r) ==
  LET here == Until(r.buffer, Awaited(r))
      to   == IF r.thinking THEN EndStep(Think(r, here)) ELSE Answer(r, here)
  IN [to EXCEPT !.thinking = ~@, !.buffer = After(r.buffer, Awaited(r))]

PassOn(r) ==
  LET sent == Sent(r.buffer, Awaited(r))
      to   == IF r.thinking THEN Think(r, sent) ELSE Answer(r, sent)
  IN [to EXCEPT !.buffer = Kept(r.buffer, Awaited(r))]

Process[r \in Replies] ==
  IF At(r.buffer, Awaited(r)) = {} THEN PassOn(r) ELSE Process[TakeTag(r)]

Piece(s) ==
  /\ mode = "streaming"
  /\ Len(text) + Len(s) <= MaxText
  /\ text' = text \o s
  /\ reply' = IF reasoning THEN Process[[reply EXCEPT !.buffer = @ \o s]]
              ELSE Answer(reply, s)
  /\ UNCHANGED <<reasoning, cut, inThought, stored, mode>>

\* The first tool call drops what has been said so far, the end that was kept
\* back included; a thought goes on.
FirstCall ==
  /\ mode = "streaming"
  /\ ~reply.called
  /\ reply' = [reply EXCEPT !.entries = NotedAll(@, Extract(reply.full).thoughts),
                            !.full = <<>>, !.buffer = <<>>, !.called = TRUE]
  /\ cut' = Len(text)
  /\ inThought' = reply.thinking
  /\ UNCHANGED <<reasoning, text, stored, mode>>

(***************************************************************************)
(* The end: the message that is stored.                                    *)
(***************************************************************************)
Flushed(r) ==
  LET all == IF r.thinking THEN Think(r, r.buffer) ELSE Answer(r, r.buffer)
  IN [(IF r.thinking THEN EndStep(all) ELSE all) EXCEPT !.buffer = <<>>,
                                                        !.thinking = FALSE]

Store(r, to) ==
  /\ mode' = to
  /\ reply' = r
  /\ stored' = [text    |-> Extract(r.full).clean,
                entries |-> NotedAll(r.entries, Extract(r.full).thoughts)]
  /\ UNCHANGED <<reasoning, text, cut, inThought>>

Finished ==
  /\ mode = "streaming"
  /\ Store(IF reasoning THEN Flushed(reply) ELSE reply, "finished")

\* A cancelled context and an error of the provider end the reply at once.
Paused == mode = "streaming" /\ Store(reply, "paused")
Failed == mode = "streaming" /\ Store(reply, "failed")

Pieces == UNION {[1 .. n -> Symbols] : n \in 1 .. MaxPiece}

TagNext ==
  \/ \E s \in Pieces : Piece(s)
  \/ FirstCall
  \/ Finished \/ Paused \/ Failed

TagSpec == TagInit /\ [][TagNext]_tagVars

(***************************************************************************)
(* Properties.                                                             *)
(***************************************************************************)

\* The answer and the thoughts of a text taken as a whole: up to the first
\* tag that counts, then what follows it.
FromThought(s, division) ==
  IF At(s, ThinkEnd) = {}
  THEN [answer |-> <<>>, thoughts |-> <<s>>, open |-> TRUE]
  ELSE [division[After(s, ThinkEnd)] EXCEPT !.thoughts = <<Until(s, ThinkEnd)>> \o @]

Division[s \in Seq(Symbols)] ==
  IF At(s, ThinkStart) = {}
  THEN [answer |-> s, thoughts |-> <<>>, open |-> FALSE]
  ELSE [FromThought(After(s, ThinkStart), Division) EXCEPT !.answer = Until(s, ThinkStart) \o @]

Whole(s, thinking) == IF thinking THEN FromThought(s, Division) ELSE Division[s]

Expected == Whole(From(text, cut + 1), inThought)

\* What is kept back is less than a tag, and nothing without reasoning.
TagTypeOK ==
  /\ mode \in {"streaming", "finished", "paused", "failed"}
  /\ reply.full \in Seq(Symbols) /\ stored.text \in Seq(Symbols)
  /\ Len(reply.buffer) < Len(Awaited(reply))
  /\ ~reasoning => reply.buffer = <<>> /\ ~reply.thinking

\* However the text was divided into pieces, the answer is that of the text
\* as a whole, since the first tool call; until the end, and when the reply
\* is paused or fails, less than a tag of it may be missing.
AnswerInPieces ==
  reasoning =>
    /\ IsPrefix(reply.full, Expected.answer)
    /\ Len(Expected.answer) - Len(reply.full) < Len(ThinkStart)
    /\ mode = "finished" => reply.full = Expected.answer

\* The same of what the client is shown as thoughts, and every thought that
\* was ended, or that the end of the reply ended, is stored with the message.
ThoughtsInPieces ==
  reasoning /\ ~reply.called =>
    LET all   == FlattenSeq(Expected.thoughts)
        ended == IF Expected.open /\ mode # "finished"
                 THEN Front(Expected.thoughts) ELSE Expected.thoughts
    IN /\ IsPrefix(reply.thought, all)
       /\ Len(all) - Len(reply.thought) < Len(ThinkEnd)
       /\ Range(ended) \ {<<>>} \subseteq Range(reply.entries)
       /\ mode # "streaming" => Range(reply.entries) \subseteq Range(stored.entries)

\* A text whose tags alternate and that ends outside a thought.
InOrderTags(w) ==
  /\ ~w.open
  /\ \A s \in {w.answer} \cup Range(w.thoughts) : At(s, ThinkStart) = {} /\ At(s, ThinkEnd) = {}

\* With reasoning switched on or off, the message of a text with its tags in
\* order has the same answer and thoughts.
SameEitherWay ==
  mode = "finished" /\ ~reply.called /\ InOrderTags(Expected) =>
    /\ stored.text = Expected.answer
    /\ Range(stored.entries) = Range(Expected.thoughts) \ {<<>>}

\* Answer and thoughts are those of the whole text, however it came in pieces,
\* and the same with reasoning on or off.
PiecesDoNotMatter ==
  /\ TagTypeOK
  /\ AnswerInPieces
  /\ ThoughtsInPieces
  /\ SameEitherWay
=============================================================================
