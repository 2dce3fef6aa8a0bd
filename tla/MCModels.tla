------------------------------ MODULE MCModels ------------------------------
(***************************************************************************)
(* A generated reply, the division of its text into answer and thoughts,   *)
(* and the catalogue of models: whichever part is chosen at first runs,    *)
(* and the others stand still.                                             *)
(* The tags are shortened to two and three of four symbols.                *)
(* The catalogue has a model that needs a key and one that does not; a     *)
(* person adds a row, which two requests change and two bots are given; one *)
(* of the bots comes to have the name of the other.                        *)
(* Of the requests, those of one set in MCCompany come in a behaviour.     *)
(***************************************************************************)
EXTENDS MCToolStream, ThinkTags, ModelConfigs, TLC

CONSTANTS
  root, anyone, server, m1, m2, m3, keyed, free, bot, other,
  a1, q1, q2, q3, d1, s1, s2, s3, s4, r1, h1

MCCatalogue ==
  <<[id |-> m1, backend |-> keyed, bots |-> {"Bot"}, public |-> TRUE],
    [id |-> m2, backend |-> free, bots |-> {}, public |-> FALSE]>>
MCBotList    == <<bot, other>>
MCNames      == {"Bot", "Other"}
MCFirstName  == bot :> "Bot" @@ other :> "Other"
MCPatches    == {q1, q2, q3}
MCSelections == {s1, s2, s3, s4}

\* q1 gives the row another model id; q2 brings a configuration that names
\* the first one, and that does not fit a profile.  q3 takes a default model
\* to a backend without key, s4 gives it to the default bot.  r1 gives the
\* second bot the name of the first.
MCAsked ==
  a1 :> [by |-> anyone, id |-> m2, backend |-> free, fits |-> TRUE]
  @@ q1 :> [by |-> anyone, row |-> 3, sets |-> [id |-> m3, model |-> m3]]
  @@ q2 :> [by |-> anyone, row |-> 3, sets |-> [model |-> m2, fits |-> FALSE]]
  @@ q3 :> [by |-> root, row |-> 1, sets |-> [model |-> m1, backend |-> free]]
  @@ d1 :> [by |-> root, row |-> 1]
  @@ s1 :> [bot |-> other, add |-> TRUE, rows |-> {3}]
  @@ s2 :> [bot |-> bot, add |-> TRUE, rows |-> {3}]
  @@ s3 :> [bot |-> other, add |-> FALSE, rows |-> {2, 3}]
  @@ s4 :> [bot |-> bot, add |-> TRUE, rows |-> {1}]
  @@ r1 :> [bot |-> other, name |-> "Bot"]
  @@ h1 :> [by |-> anyone, id |-> m3]

\* Changes of rows and the chats that use them; selections; one beside the
\* other; selections of bots that come to have one name.
MCCompany ==
  {{a1, q1, q2, d1, h1}, {a1, d1, s1, s2, s3}, {a1, q2, d1, s1, s2}, {q3, s4},
   {a1, s1, r1}, {a1, s2, s3, r1}}

MCOpen  == <<"<", "k">>
MCClose == <<"<", "/", "k">>

VARIABLES part, coming

MCInit ==
  /\ Init
  /\ TagInit
  /\ ModelInit
  /\ part \in {"reply", "text", "models"}
  /\ part # "text" => ~reasoning
  /\ coming \in IF part = "models" THEN MCCompany ELSE {{}}

MCNext ==
  \/ /\ part = "reply"
     /\ Next
     /\ UNCHANGED <<tagVars, modelVars>>
  \/ /\ part = "text"
     /\ TagNext
     /\ UNCHANGED <<vars, modelVars>>
  \/ /\ part = "models"
     /\ ModelNext
     /\ \A r \in ModelRequests \ coming : where'[r] = where[r]
     /\ UNCHANGED <<vars, tagVars>>

MCSpec ==
  MCInit /\ [][MCNext /\ UNCHANGED <<part, coming>>]_<<vars, tagVars, modelVars, part, coming>>
=============================================================================
