------------------------------- MODULE Chats -------------------------------
(***************************************************************************)
(* Chats: their creation, which writes the row of the chat several times   *)
(* while its participants already use it, and the links that make a chat   *)
(* public.  A creating request stands for the chat it makes, and a         *)
(* message, a shared config or a link is named after the request that      *)
(* made it.  What the database or the disk refuses is modelled where the   *)
(* code goes on without it: attachments that are not shared.               *)
(***************************************************************************)
EXTENDS Naturals, FiniteSets

CONSTANTS
  Makes,        \* requests that create a chat
  Maker,        \* who sends it
  Partner,      \* ... and to whom
  Automated,    \* the users that are bots
  WithMessage,  \* those with a first message
  WithFiles,    \* ... in an interaction, with attachments
  WithConfig,   \* those for which a shared config is resolved
  AutoShared,   \* those with auto_share
  Sends,        \* messages sent to a chat
  SendChat,
  WithInit,     \* those that carry a tool_init
  Gives,        \* requests of a bot that stores the data of a tool of a chat
  GiveChat,
  Publishes,    \* requests to publish a chat
  Unpublishes,  \* ... and to end that
  ChatOf,       \* the chat of a request to publish or to end that
  UserOf,       \* ... and who sends it
  Nothing       \* no message, no config, no link

ASSUME ChatsAssumption ==
  /\ {WithMessage, WithConfig, AutoShared} \subseteq SUBSET Makes
  /\ WithFiles \subseteq WithMessage
  /\ WithInit \subseteq Sends
  /\ SendChat \in [Sends -> Makes]
  /\ GiveChat \in [Gives -> Makes]
  /\ \A q \in Publishes \cup Unpublishes : ChatOf[q] \in Makes
  /\ Nothing \notin Makes \cup Sends \cup Gives \cup Publishes
  \* A request is of one kind, and chats have names of their own.
  /\ Makes \cap (Sends \cup Gives \cup Publishes \cup Unpublishes) = {}
  /\ (Sends \cup Gives) \cap (Publishes \cup Unpublishes) = {}
  /\ Sends \cap Gives = {}
  /\ Publishes \cap Unpublishes = {}
  /\ \A q \in Makes \cup Publishes : <<q>> \notin Makes

\* The requests that ask for a link.
Askers == Publishes \cup AutoShared

AskChat(q) == IF q \in Makes THEN q ELSE ChatOf[q]
\* The name a link is given.
Link(q) == <<q>>

AskUser(q) == IF q \in Makes THEN Maker[q] ELSE UserOf[q]

Participants(c) == {Maker[c], Partner[c]}

VARIABLES
  chat,       \* the rows of chats: latest message and shared config
  messages,   \* the messages of a chat
  access,     \* what was done for the files of a chat: "none", "granted", or
              \* "missed" when one was not found or could not be shared
  scheduled,  \* the chats whose first message waits for the bot's reply
  held,       \* the row as a request has it that creates the chat or uses it
  stage,      \* how far a request is
  shares,     \* rows of links: who has asked for it, where, its place, its state
  link,       \* the link a request is answered with
  ended       \* the links there were when a request ended publication

chatVars == <<chat, messages, access, scheduled, held, stage, shares, link,
              ended>>

ChatRequests == Makes \cup Sends \cup Gives \cup Publishes \cup Unpublishes
Blank    == [latest |-> Nothing, config |-> Nothing]

Exists(c) == stage[c] # "new"

ChatsInit ==
  /\ chat = [c \in Makes |-> Blank]
  /\ messages = [c \in Makes |-> {}]
  /\ access = [c \in Makes |-> "none"]
  /\ scheduled = {}
  /\ held = [r \in Makes \cup Sends \cup Gives |-> Blank]
  /\ stage = [r \in ChatRequests |-> "new"]
  /\ shares = {}
  /\ link = [q \in Askers |-> Nothing]
  /\ ended = [u \in Unpublishes |-> {}]

Step(r, to) == stage' = [stage EXCEPT ![r] = to]

(***************************************************************************)
(* Creation.  The row is written whole, as the request has it, after the   *)
(* first message and again after the shared config.                        *)
(***************************************************************************)
InsertChat(c) ==
  /\ stage[c] = "new"
  /\ Step(c, "inserted")
  /\ UNCHANGED <<chat, messages, access, scheduled, held, shares, link, ended>>

LoadChat(c) ==
  /\ stage[c] = "inserted"
  /\ held' = [held EXCEPT ![c] = chat[c]]
  /\ Step(c, IF c \in WithMessage THEN "loaded" ELSE "started")
  /\ UNCHANGED <<chat, messages, access, scheduled, shares, link, ended>>

StoreFirst(c) ==
  /\ stage[c] = "loaded"
  /\ messages' = [messages EXCEPT ![c] = @ \cup {c}]
  /\ Step(c, "stored")
  /\ UNCHANGED <<chat, access, scheduled, held, shares, link, ended>>

\* A latest message that was loaded with the row is what the mapper saves.
SaveLatest(c) ==
  /\ stage[c] = "stored"
  /\ held' = [held EXCEPT ![c].latest = IF @ = Nothing THEN c ELSE @]
  /\ chat' = [chat EXCEPT ![c] = held'[c]]
  /\ Step(c, IF c \in WithFiles THEN "files" ELSE "started")
  /\ UNCHANGED <<messages, access, scheduled, shares, link, ended>>

\* A file that is not found is left out, and the request goes on when one cannot
\* be shared.
ShareFiles(c) ==
  /\ stage[c] = "files"
  /\ \E done \in {"granted", "missed"} : access' = [access EXCEPT ![c] = done]
  /\ Step(c, "started")
  /\ UNCHANGED <<chat, messages, scheduled, held, shares, link, ended>>

\* Fault: the row is written as it was loaded.
SaveConfigLoaded(c) ==
  /\ stage[c] = "started"
  /\ c \in WithConfig
  /\ chat' = [chat EXCEPT ![c] = [Blank EXCEPT !.config = c]]
  /\ Step(c, "ready")
  /\ UNCHANGED <<messages, access, scheduled, held, shares, link, ended>>

SaveConfig(c) ==
  /\ stage[c] = "started"
  /\ c \in WithConfig
  /\ held' = [held EXCEPT ![c].config = c]
  /\ chat' = [chat EXCEPT ![c] = held'[c]]
  /\ Step(c, "ready")
  /\ UNCHANGED <<messages, access, scheduled, shares, link, ended>>

\* A reply is due to a bot; a human partner is sent the message.
NeedsReply(c) == c \in WithMessage /\ Partner[c] \in Automated

Ready(c) ==
  \/ stage[c] = "ready"
  \/ stage[c] = "started" /\ c \notin WithConfig

\* That the queue refuses the reply is only logged.
Schedule(c) ==
  /\ Ready(c)
  /\ \E reply \in SUBSET {c} :
       /\ ~NeedsReply(c) => reply = {}
       /\ scheduled' = scheduled \cup reply
  /\ Step(c, IF c \in AutoShared THEN "asking" ELSE "done")
  /\ UNCHANGED <<chat, messages, access, held, shares, link, ended>>

(***************************************************************************)
(* A participant sends a message to a chat that exists.  The latest message *)
(* and the config of the row as it was loaded are loaded associations; the  *)
(* object mapper, which is not part of the repository, may write them back  *)
(* along with the update.                                                   *)
(***************************************************************************)
\* A message with a tool_init is refused when the chat as it was loaded has no
\* shared config, or one without the tool.
Refused(s) ==
  s \in WithInit /\ chat[SendChat[s]].config = Nothing

LookUpChat(s) ==
  /\ stage[s] = "new"
  /\ Exists(SendChat[s])
  /\ held' = [held EXCEPT ![s] = chat[SendChat[s]]]
  /\ \/ Step(s, "done") /\ s \in WithInit
     \/ Step(s, "send") /\ ~Refused(s)
  /\ UNCHANGED <<chat, messages, access, scheduled, shares, link, ended>>

SendMessage(s) ==
  /\ stage[s] = "send"
  /\ messages' = [messages EXCEPT ![SendChat[s]] = @ \cup {s}]
  /\ \E newest \in {s, held[s].latest} \ {Nothing},
        config \in {chat[SendChat[s]].config} \cup ({held[s].config} \ {Nothing}) :
       chat' = [chat EXCEPT ![SendChat[s]] = [latest |-> newest, config |-> config]]
  /\ Step(s, "done")
  /\ UNCHANGED <<access, scheduled, held, shares, link, ended>>

(***************************************************************************)
(* A bot stores the data of a tool it knows.  A chat that has no shared    *)
(* config as it was loaded gets one for the data.                          *)
(***************************************************************************)
LookForConfig(g) ==
  /\ stage[g] = "new"
  /\ Exists(GiveChat[g])
  /\ held' = [held EXCEPT ![g] = chat[GiveChat[g]]]
  /\ Step(g, "giving")
  /\ UNCHANGED <<chat, messages, access, scheduled, shares, link, ended>>

LinkConfig(g) ==
  /\ stage[g] = "giving"
  /\ chat' = IF held[g].config = Nothing
             THEN [chat EXCEPT ![GiveChat[g]].config = g] ELSE chat
  /\ Step(g, "done")
  /\ UNCHANGED <<messages, access, scheduled, held, shares, link, ended>>

(***************************************************************************)
(* Links.  Whether a user has one for a chat is looked up before it is     *)
(* made, by a request to publish and at the end of a creation.             *)
(***************************************************************************)

\* The live links of the user to the chat.
FindShare(q) == {s \in shares : s.live /\ s.chat = AskChat(q) /\ s.by = AskUser(q)}

\* The one made first.
Earliest(found) == CHOOSE s \in found : \A t \in found : s.place <= t.place

EnsureShare(q) ==
  /\ stage[q] = IF q \in Makes THEN "asking" ELSE "new"
  /\ Exists(AskChat(q))
  /\ \/ /\ AskUser(q) \notin Participants(AskChat(q))
        /\ Step(q, "done")
        /\ UNCHANGED link
     \/ /\ AskUser(q) \in Participants(AskChat(q))
        /\ FindShare(q) # {}
        /\ link' = [link EXCEPT ![q] = Earliest(FindShare(q)).name]
        /\ Step(q, "done")
     \/ /\ AskUser(q) \in Participants(AskChat(q))
        /\ FindShare(q) = {}
        /\ Step(q, "making")
        /\ UNCHANGED link
  /\ UNCHANGED <<chat, messages, access, scheduled, held, shares, ended>>

MakeShare(q) ==
  /\ stage[q] = "making"
  /\ shares' = shares \cup {[name |-> Link(q), chat |-> AskChat(q), by |-> AskUser(q),
                             place |-> Cardinality(shares), live |-> TRUE]}
  /\ link' = [link EXCEPT ![q] = Link(q)]
  /\ Step(q, "done")
  /\ UNCHANGED <<chat, messages, access, scheduled, held, ended>>

\* The links of the user to the chat that an end of publication finds.
OwnShares(u) == {s \in shares : s.live /\ s.chat = ChatOf[u] /\ s.by = UserOf[u]}

Ends(u) == OwnShares(u)

Unpublish(u) ==
  /\ stage[u] = "new"
  /\ Exists(ChatOf[u])
  /\ UserOf[u] \in Participants(ChatOf[u])
  /\ shares' = {IF s \in Ends(u) THEN [s EXCEPT !.live = FALSE] ELSE s : s \in shares}
  /\ ended' = [ended EXCEPT ![u] = {s.name : s \in OwnShares(u)}]
  /\ Step(u, "done")
  /\ UNCHANGED <<chat, messages, access, scheduled, held, link>>

\* The chats that can be read with a link, or with the name of a chat.
Reads(name) ==
  {s.chat : s \in {t \in shares : t.live /\ (t.name = name \/ t.chat = name)}}

ChatsNext ==
  \/ \E c \in Makes : InsertChat(c) \/ LoadChat(c) \/ StoreFirst(c) \/ SaveLatest(c)
                      \/ ShareFiles(c) \/ SaveConfig(c) \/ Schedule(c)
  \/ \E s \in Sends : LookUpChat(s) \/ SendMessage(s)
  \/ \E g \in Gives : LookForConfig(g) \/ LinkConfig(g)
  \/ \E q \in Askers : EnsureShare(q) \/ MakeShare(q)
  \/ \E u \in Unpublishes : Unpublish(u)

ChatsSpec == ChatsInit /\ [][ChatsNext]_chatVars

(***************************************************************************)
(* Properties.                                                             *)
(***************************************************************************)

\* The configs that bots' requests may have given a chat.
GivenTo(c) == {g \in Gives : GiveChat[g] = c}

\* A row holds a message and a config of its own chat: what a request wrote
\* for another chat never gets there (Create.go, MessageSend.go).
ChatsTypeOK ==
  /\ \A c \in Makes :
       /\ chat[c].latest \in messages[c] \cup {Nothing}
       /\ chat[c].config \in {c, Nothing} \cup GivenTo(c)
       /\ messages[c] \subseteq {c} \cup {s \in Sends : SendChat[s] = c}
  /\ access \in [Makes -> {"none", "granted", "missed"}]
  /\ scheduled \subseteq {c \in Makes : NeedsReply(c)}
  /\ Cardinality({s.name : s \in shares}) = Cardinality(shares)

\* The bot is only asked for a reply when what it will read is in place: the
\* first message, the access to its files unless one was not found or could not
\* be shared, and the shared config, which only a bot can have replaced that had
\* looked the chat up without it (Create.go schedules last; the worker may run
\* the reply at once).
ReplyFindsAll ==
  \A c \in scheduled :
    /\ c \in messages[c]
    /\ c \in WithFiles => access[c] \in {"granted", "missed"}
    /\ c \in WithConfig =>
         \/ chat[c].config = c
         \/ \E g \in GivenTo(c) : chat[c].config = g /\ held[g].config = Nothing

\* A link a request was answered with leads to the chat the request was for,
\* and ends only when the same user ends publication: not when the other
\* participant does (SharedChat.go keeps one row for each of them).
OwnLinks ==
  \A q \in Askers : link[q] # Nothing =>
    \E s \in shares :
      /\ s.name = link[q]
      /\ s.chat = AskChat(q)
      /\ s.by = AskUser(q)
      /\ \/ AskChat(q) \in Reads(link[q])
         \/ \E u \in Unpublishes : link[q] \in ended[u] /\ UserOf[u] = AskUser(q)

\* Once publication is ended none of the user's links works again, also when
\* requests that raced had made several (Unpublish: "Remove public chat
\* sharing").
EndedStaysPrivate ==
  \A u \in Unpublishes : \A name \in ended[u] : Reads(name) = {}

\* A chat made with a first message has a latest message from then on, though
\* its row is written whole twice while others write to it.  Which message that
\* is may go back: a message sent before the last of these writes is not the
\* latest one after it.
LatestKept ==
  [][\A c \in WithMessage :
       chat[c].latest # Nothing => chat'[c].latest # Nothing]_chatVars

\* A chat has what its reply, its list and its links refer to, and no link more.
ChatsHold ==
  /\ [](/\ ChatsTypeOK
        /\ ReplyFindsAll
        /\ OwnLinks
        /\ EndedStaysPrivate)
  /\ LatestKept
=============================================================================
