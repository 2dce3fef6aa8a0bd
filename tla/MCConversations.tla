-------------------------- MODULE MCConversations --------------------------
(***************************************************************************)
(* What belongs to a conversation besides its messages: the data its tools *)
(* are given, the rows and links of chats, and files.  The three share no  *)
(* state; whichever part is chosen at first runs, the others stand still.  *)
(***************************************************************************)
EXTENDS MCToolInit, Chats, Files

CONSTANTS
  c1, c2, h, bot, x, y,        \* chats and people
  m1, m2, k1, p1, p2, p3, u1,  \* messages, data of a tool, links
  f1, f2, i1, i2, z1, z2, g1, e1, e2   \* files

\* h's chat with a bot has everything; two messages are sent to it meanwhile.
\* h publishes it at its creation and again, the bot too, and x, who is not
\* in it, tries.
MCMakes       == {c1, c2}
MCMaker       == c1 :> h @@ c2 :> h
MCPartner     == c1 :> bot @@ c2 :> y
MCSends       == {m1, m2}
MCSendChat    == m1 :> c1 @@ m2 :> c1
MCGives       == {k1}
MCGiveChat    == k1 :> c1
MCPublishes   == {p1, p2, p3}
MCUnpublishes == {u1}
MCChatOf      == p1 :> c1 @@ p2 :> c1 @@ p3 :> c1 @@ u1 :> c1
MCUserOf      == p1 :> h @@ p2 :> bot @@ p3 :> x @@ u1 :> h

\* An image sent in a message, which is deleted twice, and a document that the
\* model's store has a copy of, in the first message of a chat.
MCUploads     == {f1, f2}
MCAttachings  == {i1, i2}
MCReceiver    == i1 :> bot @@ i2 :> bot
MCAssemblings == {z1, z2}
MCMessageOf   == z1 :> i1 @@ z2 :> i2
MCGets        == {g1}
MCDeletes     == {e1, e2}
MCFileOf      == f1 :> f1 @@ f2 :> f2 @@ i1 :> f1 @@ i2 :> f2 @@ z1 :> f1 @@ z2 :> f2
                   @@ g1 :> f1 @@ e1 :> f1 @@ e2 :> f1
MCFileUser    == [r \in DOMAIN MCFileOf |-> IF r \in {z1, z2, g1} THEN bot ELSE h]

\* The requests of one set come in a behaviour: two messages and a publication, a
\* message and all that publish, or messages and a bot that stores data.
MCCompany == {{m1, m2, p1}, {m1, p1, p2, p3}, {m1, m2, k1}}

\* What differs in its name only: disposals, and deletions of the image.
MCSymmetry == Permutations(MCDisposals) \cup Permutations(MCDeletes)

VARIABLES part, coming

MCInit ==
  /\ Init
  /\ ChatsInit
  /\ FilesInit
  /\ part \in {"secrets", "chats", "files"}
  /\ coming \in IF part = "chats" THEN MCCompany ELSE {{}}
  \* The other parts need to begin in one way only.
  /\ part # "secrets" => \A t \in Tools : mirror[t] = Empty
  \* A chat is created with data for all of its tools, or for none.
  /\ \A s, t \in Tools : mirror[s] = mirror[t]

MCNext ==
  \/ /\ part = "secrets"
     /\ Next
     /\ UNCHANGED <<chatVars, fileVars>>
  \/ /\ part = "chats"
     /\ ChatsNext
     /\ \A r \in (Sends \cup Gives \cup Publishes) \ coming : stage'[r] = stage[r]
     /\ UNCHANGED <<vars, fileVars>>
  \/ /\ part = "files"
     /\ FilesNext
     /\ UNCHANGED <<vars, chatVars>>

MCSpec ==
  MCInit /\ [][MCNext /\ UNCHANGED <<part, coming>>]_<<vars, chatVars, fileVars, part, coming>>
=============================================================================
