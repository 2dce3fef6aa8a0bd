---------------------------- MODULE ModelConfigs ----------------------------
(***************************************************************************)
(* The catalogue of models (rows of model_configs): the files a start      *)
(* seeds it from, the provider keys that decide which of them the default  *)
(* bot has, the rows people add, the bots an administrator gives them to,  *)
(* and the public profiles that show what a bot has.  A row lists its bots *)
(* by the names of their users, which owners change and which two bots may *)
(* share.  Every read, write and delete is a statement of its own: nothing *)
(* here is a transaction.                                                  *)
(***************************************************************************)
EXTENDS Naturals, SequencesExt

CONSTANTS
  Root,          \* the administrator
  NoOne,         \* the owner of a seeded row
  Catalogue,     \* the entries of the files, in order
  Keyed,         \* the backends that need a provider key
  BotList,       \* the bots, in the order of their users
  DefaultBot,
  Names,         \* names of bots' users
  FirstName,     \* the name that each bot's user has at first
  Fallback,      \* bots whose runtime configuration names a model
  Additions,     \* requests to create a row
  Patches,       \* requests to change one
  Removals,      \* requests to delete one
  Selections,    \* requests to give models to a bot or to take them from it
  Renames,       \* requests to give a bot's user another name
  Starters,      \* chats that are created with a bot and a model
  Asked,         \* what a request brings
  MaxBoots,      \* bound on the starts of the server
  Server

ShownBots == {BotList[i] : i \in DOMAIN BotList}
Rebuilders == Selections \cup {Server}
ModelRequests ==
  Additions \cup Patches \cup Removals \cup Selections \cup Renames \cup Starters

\* A request is of one kind.  A patch may bring a model id, a configuration
\* (the model that it names, its backend, whether it fits a profile) and
\* whether the row is public; who owns the row, whether it is a default and
\* which bots have it is not for a patch to say.
ASSUME ModelAssumption ==
  /\ MaxBoots \in Nat
  /\ Catalogue \in Seq({Catalogue[i] : i \in DOMAIN Catalogue})
  /\ \A i \in DOMAIN Catalogue : Catalogue[i].bots \subseteq Names
  /\ BotList \in Seq(ShownBots)
  /\ DefaultBot \in ShownBots /\ Fallback \subseteq ShownBots
  /\ FirstName \in [ShownBots -> Names]
  /\ Server \notin ModelRequests
  /\ LET kinds == <<Additions, Patches, Removals, Selections, Renames, Starters>> IN
     \A i, j \in 1 .. 6 : i # j => kinds[i] \cap kinds[j] = {}
  /\ \A q \in Patches :
       DOMAIN Asked[q].sets \subseteq {"id", "model", "backend", "fits", "public"}
  /\ \A s \in Selections : Asked[s].bot \in ShownBots /\ Asked[s].add \in BOOLEAN
  /\ \A r \in Renames : Asked[r].bot \in ShownBots /\ Asked[r].name \in Names

VARIABLES
  stage,       \* of the server: "down", "seeding", "syncing", "profiles" or "up"
  step,        \* the entry, row or bot that the stage is at
  boots,       \* number of starts
  keys,        \* the backends that have a key
  rows,        \* the rows, in the order of their ids; a deleted one stays
  profiles,    \* the public profiles of bots, in the order of their ids
  where,       \* how far a request, or the server's own rebuild, is
  seen,        \* the row that a patch has read
  name,        \* the name of each bot's user
  called,      \* the name that a selection found its bot under
  saw,         \* the names that a selection has read in a row
  wrote,       \* the rows it has written
  todo,        \* the rows it has still to look at
  listed,      \* the models that a rebuild has read
  overlapped,  \* bots of which two rebuilds were under way at once
  bound        \* the configuration that a chat got

modelVars == <<stage, step, boots, keys, rows, profiles, where, seen, name, called,
               saw, wrote, todo, listed, overlapped, bound>>

bootVars      == <<stage, step, boots, keys>>
selectionVars == <<called, saw, wrote, todo>>

ModelInit ==
  /\ stage = "down"
  /\ step = 1
  /\ boots = 0
  /\ keys = {}
  /\ rows = <<>>
  /\ profiles = <<>>
  /\ where = [r \in ModelRequests \cup {Server} |-> "new"]
  /\ seen = [q \in Patches |-> [c \in {} |-> NoOne]]
  /\ name = FirstName
  /\ called = [s \in Selections |-> FirstName[Asked[s].bot]]
  /\ saw = [s \in Selections |-> [m \in {} |-> {}]]
  /\ wrote = [s \in Selections |-> {}]
  /\ todo = [w \in Rebuilders |-> IF w = Server THEN {} ELSE Asked[w].rows]
  /\ listed = [w \in Rebuilders |-> {}]
  /\ overlapped = {}
  /\ bound = [c \in Starters |-> NoOne]

Live(m) == m \in DOMAIN rows /\ rows[m].live

Moves(r, to) == where' = [where EXCEPT ![r] = to]

(***************************************************************************)
(* A start: the entries, then the default bot's models, then the profiles. *)
(***************************************************************************)
Boot ==
  /\ stage = "down"
  /\ boots < MaxBoots
  /\ stage' = "seeding"
  /\ step' = 1
  /\ boots' = boots + 1
  /\ keys' \in SUBSET Keyed
  /\ where' = [r \in DOMAIN where |-> IF where[r] = "new" /\ r # Server THEN "new" ELSE "over"]
  /\ listed' = [w \in Rebuilders |-> {}]
  /\ UNCHANGED <<rows, profiles, seen, name, selectionVars, overlapped, bound>>

SeedRow(e) ==
  [owner |-> NoOne, id |-> e.id, model |-> e.id, backend |-> e.backend, fits |-> TRUE,
   bots |-> e.bots, public |-> e.public, default |-> TRUE, live |-> TRUE]

Seeded(e) == {m \in DOMAIN rows : Live(m) /\ rows[m].owner = NoOne /\ rows[m].id = e.id}

SeedEntry ==
  /\ stage = "seeding"
  /\ step <= Len(Catalogue)
  /\ LET e == Catalogue[step] IN
     rows' = IF Seeded(e) = {}
             THEN Append(rows, SeedRow(e))
             ELSE [rows EXCEPT ![Min(Seeded(e))].default = TRUE,
                               ![Min(Seeded(e))].public = TRUE]
  /\ step' = step + 1
  /\ UNCHANGED <<stage, boots, keys, profiles, where, seen, name, selectionVars, listed,
                 overlapped, bound>>

BeginSync ==
  /\ stage = "seeding"
  /\ step > Len(Catalogue)
  /\ stage' = "syncing"
  /\ step' = 1
  /\ UNCHANGED <<boots, keys, rows, profiles, where, seen, name, selectionVars, listed,
                 overlapped, bound>>

\* The rows whose assignment to the default bot follows the keys.
Managed(r) == r.live /\ r.owner = NoOne /\ r.default /\ r.backend \in Keyed

\* Fault: models are only given, never taken away.
AssignRow ==
  /\ stage = "syncing"
  /\ step <= Len(rows)
  /\ rows' = [rows EXCEPT ![step].bots =
       IF Managed(rows[step]) /\ rows[step].backend \in keys
       THEN @ \cup {name[DefaultBot]} ELSE @]
  /\ step' = step + 1
  /\ UNCHANGED <<stage, boots, keys, profiles, where, seen, name, selectionVars, listed,
                 overlapped, bound>>

SyncRow ==
  /\ stage = "syncing"
  /\ step <= Len(rows)
  /\ rows' = [rows EXCEPT ![step].bots =
       IF ~Managed(rows[step]) THEN @
       ELSE IF rows[step].backend \in keys THEN @ \cup {name[DefaultBot]}
       ELSE @ \ {name[DefaultBot]}]
  /\ step' = step + 1
  /\ UNCHANGED <<stage, boots, keys, profiles, where, seen, name, selectionVars, listed,
                 overlapped, bound>>

BeginProfiles ==
  /\ stage = "syncing"
  /\ step > Len(rows)
  /\ stage' = "profiles"
  /\ step' = 1
  /\ Moves(Server, "pick")
  /\ UNCHANGED <<boots, keys, rows, profiles, seen, name, selectionVars, listed,
                 overlapped, bound>>

\* The process ends at any time; what requests were doing is lost.  (Bound:
\* the last start is not cut off, as nothing would follow.)
Halt ==
  /\ stage # "down"
  /\ boots < MaxBoots
  /\ stage' = "down"
  /\ UNCHANGED <<step, boots, keys, rows, profiles, where, seen, name, selectionVars,
                 listed, overlapped, bound>>

(***************************************************************************)
(* A rebuild of a bot's profile (CreateOrUpdateBotProfile): the first one  *)
(* there is goes, the models are read, and a new one is created.           *)
(***************************************************************************)
BotOf(w) == IF w = Server THEN BotList[step] ELSE Asked[w].bot

Rebuilding(w) ==
  where[w] \in {"pick", "list", "insert"} /\ stage = (IF w = Server THEN "profiles" ELSE "up")

ProfilesOf(b) == {i \in DOMAIN profiles : profiles[i].bot = b}

\* The rows that list the name n.
AssignedTo(n) == {m \in DOMAIN rows : Live(m) /\ n \in rows[m].bots}

\* A selection rebuilds the profile with the name that it found.
NameFor(w) == IF w = Server THEN name[BotOf(w)] ELSE called[w]

RemoveProfile(w) ==
  /\ Rebuilding(w)
  /\ where[w] = "pick" /\ todo[w] = {}
  /\ profiles' = IF ProfilesOf(BotOf(w)) = {} THEN profiles
                 ELSE RemoveAt(profiles, Min(ProfilesOf(BotOf(w))))
  /\ Moves(w, "list")
  /\ overlapped' = overlapped \cup
       {b \in {BotOf(w)} : \E v \in Rebuilders \ {w} :
          Rebuilding(v) /\ where[v] # "pick" /\ BotOf(v) = b}
  /\ UNCHANGED <<bootVars, rows, seen, name, selectionVars, listed, bound>>

\* A configuration that does not fit a profile's fields ends the rebuild, and
\* with it the start; the profile is gone by then.
ListModels(w) ==
  /\ Rebuilding(w)
  /\ where[w] = "list"
  /\ \A m \in AssignedTo(NameFor(w)) : rows[m].fits
  /\ listed' = [listed EXCEPT ![w] =
       IF AssignedTo(NameFor(w)) = {} /\ BotOf(w) \in Fallback
       THEN {0} ELSE AssignedTo(NameFor(w))]
  /\ Moves(w, "insert")
  /\ UNCHANGED <<bootVars, rows, profiles, seen, name, selectionVars, overlapped, bound>>

ListFails(w) ==
  /\ Rebuilding(w)
  /\ where[w] = "list"
  /\ \E m \in AssignedTo(NameFor(w)) : ~rows[m].fits
  /\ Moves(w, "failed")
  /\ stage' = IF w = Server THEN "down" ELSE stage
  /\ UNCHANGED <<step, boots, keys, rows, profiles, seen, name, selectionVars, listed,
                 overlapped, bound>>

InsertProfile(w) ==
  /\ Rebuilding(w)
  /\ where[w] = "insert"
  /\ profiles' = Append(profiles, [bot |-> BotOf(w), models |-> listed[w]])
  /\ Moves(w, IF w = Server /\ step < Len(BotList) THEN "pick" ELSE "over")
  /\ step' = IF w = Server THEN step + 1 ELSE step
  /\ stage' = IF w = Server /\ step = Len(BotList) THEN "up" ELSE stage
  /\ listed' = [listed EXCEPT ![w] = {}]
  /\ UNCHANGED <<boots, keys, rows, seen, name, selectionVars, overlapped, bound>>

(***************************************************************************)
(* Requests.                                                               *)
(***************************************************************************)
Comes(r) == stage = "up" /\ where[r] = "new"

AddRow(a) ==
  /\ Comes(a)
  /\ rows' = Append(rows,
       [owner |-> Asked[a].by, id |-> Asked[a].id, model |-> Asked[a].id,
        backend |-> Asked[a].backend, fits |-> Asked[a].fits, bots |-> {},
        public |-> FALSE, default |-> FALSE, live |-> TRUE])
  /\ Moves(a, "over")
  /\ UNCHANGED <<bootVars, profiles, seen, name, selectionVars, listed, overlapped, bound>>

MayWrite(p, m) == p = Root \/ rows[m].owner = p

Sets(q, column) == column \in DOMAIN Asked[q].sets

\* A new model id needs a new configuration, and a configuration that names a
\* model has to name the row's.
Valid(q, r) ==
  /\ Sets(q, "id") => Sets(q, "model")
  /\ Sets(q, "model") =>
       Asked[q].sets.model = IF Sets(q, "id") THEN Asked[q].sets.id ELSE r.id

HasRead(q) == DOMAIN seen[q] # {}

\* The row is read and what is asked for is checked against it ...
ReadRow(q) ==
  /\ Comes(q)
  /\ LET m == Asked[q].row IN
     IF Live(m) /\ MayWrite(Asked[q].by, m) /\ Valid(q, rows[m])
     THEN /\ seen' = [seen EXCEPT ![q] = rows[m]]
          /\ Moves(q, "write")
     ELSE /\ Moves(q, "over")
          /\ UNCHANGED seen
  /\ UNCHANGED <<bootVars, rows, profiles, name, selectionVars, listed, overlapped, bound>>

\* ... and the columns are written to the row as it is by then.
WriteRow(q) ==
  /\ stage = "up"
  /\ where[q] = "write"
  /\ LET m == Asked[q].row IN
     rows' = IF Live(m)
             THEN [rows EXCEPT ![m] = [c \in DOMAIN @ |->
                                         IF Sets(q, c) THEN Asked[q].sets[c] ELSE @[c]]]
             ELSE rows
  /\ Moves(q, "written")
  /\ UNCHANGED <<bootVars, profiles, seen, name, selectionVars, listed, overlapped, bound>>

\* A row whose owner or administrator may delete it stays so until it is
\* deleted: the read and the delete are one step.
DeleteRow(d) ==
  /\ Comes(d)
  /\ LET m == Asked[d].row IN
     rows' = IF Live(m) /\ MayWrite(Asked[d].by, m)
             THEN [rows EXCEPT ![m].live = FALSE] ELSE rows
  /\ Moves(d, "over")
  /\ UNCHANGED <<bootVars, profiles, seen, name, selectionVars, listed, overlapped, bound>>

\* A bot's owner renames it: the name of its user changes, and the rows that
\* list it by the old one stay as they are.  The name may be one that another
\* owner's bot has; the same owner's may not, and the request is refused.
RenameBot(r) ==
  /\ Comes(r)
  /\ \/ name' = [name EXCEPT ![Asked[r].bot] = Asked[r].name]
     \/ UNCHANGED name
  /\ Moves(r, "over")
  /\ UNCHANGED <<bootVars, rows, profiles, seen, selectionVars, listed, overlapped, bound>>

\* A selection reads its bot once, and goes on with the name it has then.
FindBot(s) ==
  /\ Comes(s)
  /\ called' = [called EXCEPT ![s] = name[Asked[s].bot]]
  /\ Moves(s, "pick")
  /\ UNCHANGED <<bootVars, rows, profiles, seen, name, saw, wrote, todo, listed,
                 overlapped, bound>>

\* The rows are taken in any order; one that is not there, or that is as it
\* should be already, is passed over.
ReadBots(s, m) ==
  /\ stage = "up" /\ where[s] = "pick"
  /\ m \in todo[s]
  /\ todo' = [todo EXCEPT ![s] = @ \ {m}]
  /\ IF Live(m) /\ (called[s] \in rows[m].bots) # Asked[s].add
     THEN /\ saw' = [saw EXCEPT ![s] = [n \in DOMAIN @ \cup {m} |->
                                          IF n = m THEN rows[m].bots ELSE @[n]]]
          /\ Moves(s, "assign")
     ELSE /\ Moves(s, "pick")
          /\ UNCHANGED saw
  /\ UNCHANGED <<bootVars, rows, profiles, seen, name, called, wrote, listed, overlapped,
                 bound>>

\* Fault: the list is not read but begun again.
WriteOwnBot(s, m) ==
  /\ stage = "up"
  /\ where[s] = "assign"
  /\ m \in DOMAIN saw[s] \ wrote[s]
  /\ rows' = IF Live(m)
             THEN [rows EXCEPT ![m].bots = IF Asked[s].add THEN {called[s]} ELSE {}]
             ELSE rows
  /\ wrote' = [wrote EXCEPT ![s] = @ \cup {m}]
  /\ Moves(s, "pick")
  /\ UNCHANGED <<bootVars, profiles, seen, name, called, saw, todo, listed, overlapped,
                 bound>>

\* The whole list is written back, with the name or without it.
WriteBots(s, m) ==
  /\ stage = "up"
  /\ where[s] = "assign"
  /\ m \in DOMAIN saw[s] \ wrote[s]
  /\ rows' = IF Live(m)
             THEN [rows EXCEPT ![m].bots = IF Asked[s].add
                                           THEN saw[s][m] \cup {called[s]}
                                           ELSE saw[s][m] \ {called[s]}]
             ELSE rows
  /\ wrote' = [wrote EXCEPT ![s] = @ \cup {m}]
  /\ Moves(s, "pick")
  /\ UNCHANGED <<bootVars, profiles, seen, name, called, saw, todo, listed, overlapped,
                 bound>>

\* The rows of a model that a chat with p's bot may get its backend from: p's
\* own if there is one, else one that has no owner; the latest of them.
Candidates(p, id) ==
  LET named == {m \in DOMAIN rows : Live(m) /\ rows[m].id = id}
      own   == {m \in named : rows[m].owner = p}
  IN IF own # {} THEN own ELSE {m \in named : rows[m].owner = NoOne}

BindChat(c) ==
  /\ Comes(c)
  /\ LET found == Candidates(Asked[c].by, Asked[c].id) IN
     bound' = [bound EXCEPT ![c] =
       IF found = {} THEN NoOne
       ELSE [row |-> Max(found), model |-> rows[Max(found)].model,
             backend |-> rows[Max(found)].backend, owner |-> rows[Max(found)].owner]]
  /\ Moves(c, "over")
  /\ UNCHANGED <<bootVars, rows, profiles, seen, name, selectionVars, listed, overlapped>>

ModelNext ==
  \/ Boot \/ SeedEntry \/ BeginSync \/ SyncRow \/ BeginProfiles \/ Halt
  \/ \E w \in Rebuilders :
       RemoveProfile(w) \/ ListModels(w) \/ ListFails(w) \/ InsertProfile(w)
  \/ \E a \in Additions : AddRow(a)
  \/ \E q \in Patches : ReadRow(q) \/ WriteRow(q)
  \/ \E d \in Removals : DeleteRow(d)
  \/ \E s \in Selections :
       FindBot(s) \/ \E m \in Asked[s].rows : ReadBots(s, m) \/ WriteBots(s, m)
  \/ \E r \in Renames : RenameBot(r)
  \/ \E c \in Starters : BindChat(c)

ModelSpec == ModelInit /\ [][ModelNext]_modelVars

(***************************************************************************)
(* Properties.                                                             *)
(***************************************************************************)
\* Rows, profiles and what is under way keep their types.
ModelTypeOK ==
  /\ stage \in {"down", "seeding", "syncing", "profiles", "up"}
  /\ keys \subseteq Keyed
  /\ name \in [ShownBots -> Names]
  /\ \A m \in DOMAIN rows :
       /\ rows[m].bots \subseteq Names
       /\ rows[m].default => rows[m].owner = NoOne
  /\ \A i \in DOMAIN profiles :
       profiles[i].bot \in ShownBots /\ profiles[i].models \subseteq 0 .. Len(rows)
  /\ overlapped \subseteq ShownBots

\* When a start is over every entry of the files has a row without owner
\* that is a default, and public unless the entry is not; the default bot has,
\* under the name its user has by now, exactly the managed rows whose
\* backend has a key; and each bot has a profile of what its name is assigned.
\* This must hold whatever was deleted, renamed or changed before, and however
\* many starts were cut off.
CatalogueReady ==
  [][(stage = "profiles" /\ stage' = "up") =>
     /\ \A i \in DOMAIN Catalogue : \E m \in Seeded(Catalogue[i]) :
          rows[m].default /\ (rows[m].public \/ ~Catalogue[i].public)
     /\ \A m \in DOMAIN rows :
          Managed(rows[m]) => (name[DefaultBot] \in rows[m].bots <=> rows[m].backend \in keys)
     /\ \A b \in ShownBots : \E i \in DOMAIN profiles' :
          /\ profiles'[i].bot = b
          /\ profiles'[i].models \cap DOMAIN rows = AssignedTo(name[b])]_modelVars

\* A patch that brought a configuration and no model id, for a row that had
\* the id m when it was checked.
CheckedAgainst(r, m) ==
  \E q \in Patches :
    /\ where[q] \in {"written", "over"} /\ HasRead(q)
    /\ rows[Asked[q].row] = r
    /\ Sets(q, "model") /\ ~Sets(q, "id") /\ seen[q].id = m

\* A row whose configuration names another model than the row does is the
\* work of two patches that overlapped: one of them brought a configuration
\* for the id that the other took away (Patch).
MismatchNeedsOverlap ==
  \A m \in DOMAIN rows :
    rows[m].model # rows[m].id => CheckedAgainst(rows[m], rows[m].model)

\* So a chat gets the backend of another model than it asked for only from
\* such a row, and never one of somebody else's (applyModelConfigBindingForUser).
BoundAsAsked ==
  \A c \in Starters : bound[c] # NoOne =>
    /\ bound[c].owner \in {NoOne, Asked[c].by}
    /\ bound[c].model # Asked[c].id =>
         \E q \in Patches :
           /\ Asked[q].row = bound[c].row
           /\ where[q] \in {"written", "over"}
           /\ HasRead(q) /\ seen[q].id = bound[c].model

\* The keys decide whether the default bot has a row, or did so before the
\* row was given a configuration with another backend.
UpToKeys(m) ==
  \/ Managed(rows[m])
  \/ \E q \in Patches : /\ Asked[q].row = m /\ Sets(q, "backend")
                        /\ where[q] \in {"written", "over"} /\ HasRead(q)

\* The names that a bot's user has had.
HadNames(b) ==
  {FirstName[b]} \cup
    {Asked[r].name : r \in {q \in Renames : Asked[q].bot = b /\ where[q] = "over"}}

\* A model that was given to a bot stays with it until the bot is renamed, the
\* model is taken from a bot of that name, the keys say otherwise, or a
\* selection writes back the list it had read before that: no bot loses what
\* it was given but by one of these.
LostToOverlap ==
  \A s \in Selections : \A m \in wrote[s] :
    /\ Asked[s].add
    /\ Live(m)
    /\ m \notin AssignedTo(name[Asked[s].bot])
    => \/ name[Asked[s].bot] # called[s]
       \/ called[s] \in HadNames(DefaultBot) /\ UpToKeys(m)
       \/ \E t \in Selections \ {s} :
            /\ m \in wrote[t]
            /\ \/ called[t] = called[s] /\ ~Asked[t].add
               \/ called[s] \notin saw[t][m]

\* While the server is up a bot is without a profile only during a rebuild,
\* or after one that ended on a configuration it could not read.
ProfileThere ==
  stage = "up" => \A b \in ShownBots :
    \/ ProfilesOf(b) # {}
    \/ \E s \in Selections : Asked[s].bot = b /\ where[s] \in {"list", "insert", "failed"}

\* A bot has two profiles, of which the older one is shown, only if two
\* rebuilds of it were under way at once.
OneProfile ==
  \A b \in ShownBots \ overlapped : Cardinality(ProfilesOf(b)) <= 1

\* Rows, lists and profiles are as they were asked for, but for what requests
\* that overlapped did to each other, and a rename to the lists.
OnlyOverlapLoses ==
  /\ ModelTypeOK
  /\ MismatchNeedsOverlap
  /\ BoundAsAsked
  /\ LostToOverlap
  /\ ProfileThere
  /\ OneProfile
=============================================================================
