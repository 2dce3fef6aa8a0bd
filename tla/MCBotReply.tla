----------------------------- MODULE MCBotReply -----------------------------
(* Small instances of BotReply for TLC. *)
EXTENDS BotReplyRefinement, TLC

CONSTANTS c1, c2, m1, m2, i1

\* One chat, two messages (a second send or a rerun) and an interrupt.
MCOneChat == [x \in Messages \cup Interrupts |-> c1]
\* Two chats that share a single worker slot.
MCTwoChats == [x \in Messages \cup Interrupts |-> IF x = m2 THEN c2 ELSE c1]
\* The messages differ in nothing but their name.
MCSymmetry == Permutations({m1, m2})

\* An interrupt and a stop of the server do not come in one behaviour, as they
\* do with one message (BotReply_liveness).
Apart == (\E i \in Interrupts : intr[i] # "new") => stops = 0

\* The second message is sent while the bot writes its reply to the first.
SentMeanwhile ==
  \A m \in Messages : req[m] = "new" /\ req'[m] # "new" =>
    \/ \A n \in Messages : req[n] = "new"
    \/ \E a \in Attempts : pc[a] = "generating"

MeanwhileSpec == Init /\ [][Next /\ SentMeanwhile]_vars
=============================================================================
