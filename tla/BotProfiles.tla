---------------------------- MODULE BotProfiles ----------------------------
(***************************************************************************)
(* Bots: the users they are, the profiles (rows of bot_runtime_configs)    *)
(* people give them, their owners and contacts.  A start of the server     *)
(* brings the database to what the configuration asks for, step by step;   *)
(* while it is up, requests create, change, delete and use bots.  A        *)
(* profile is named after the bot it was made for, and a bot after the     *)
(* configured entry or the request that makes it.                          *)
(***************************************************************************)
EXTENDS Naturals, Sequences, FiniteSets

CONSTANTS
  Admin, People,   \* the administrator, and all human users
  Base,            \* the default bot
  Config,          \* the configured bots, in order
  EntryOwner,      \* the primary owner of an entry
  MoreOwners,      \* ... and its additional ones
  EntryName,
  Overwrite,       \* the entries with overwrite_if_exists,
  Inactive,        \* with is_active: false,
  Public,          \* and with is_public: true
  Creates,         \* requests to create a bot
  Edits,           \* requests to change, configure or delete one
  EditBot,
  Change,          \* the columns it writes
  Interactions,    \* requests for an interaction with a bot
  InteractionBot,
  Adds,            \* requests to add a bot as a contact
  AddBot,
  By,              \* who sends a request
  NameOf,          \* the name asked for
  BaseName,
  SpareName,       \* ... and its first variant
  MaxStarts,       \* bound on the starts of the server
  NoProfile

Entries  == {Config[i] : i \in 1 .. Len(Config)}
Bots     == {Base} \cup Entries \cup Creates
BotRequests == Creates \cup Edits \cup Interactions \cup Adds

\* A profile is a row of these columns.
Columns    == {"user", "owner", "name", "active", "public", "config"}
Written(q) == {Change[q][c] : c \in DOMAIN Change[q]}
Values     == UNION ({Bots, People, BOOLEAN, {BaseName, SpareName},
                      {EntryName[e] : e \in Entries}, {NameOf[r] : r \in Creates}}
                     \cup {Written(q) : q \in Edits})

ASSUME BotAssumption ==
  /\ Admin \in People
  /\ MaxStarts \in Nat
  /\ Config \in Seq(Entries)
  /\ Base \notin Entries \cup Creates /\ Entries \cap Creates = {}
  /\ \A e \in Entries : EntryOwner[e] \in People /\ MoreOwners[e] \subseteq People
  /\ \A r \in BotRequests : By[r] \in People
  /\ EditBot \in [Edits -> Bots] /\ AddBot \in [Adds -> Bots]
  /\ \A q \in Edits : DOMAIN Change[q] \subseteq {"name", "active", "public", "config"}
  /\ NoProfile \notin [Columns -> Values]

VARIABLES
  phase,      \* of the server: "down", "migrating", "starting" or "up"
  next,       \* the entry that a start is at
  starts,     \* number of starts
  refused,    \* the entries at which a start has ended
  applied,    \* the entries a start has applied
  user,       \* the user of a bot: "none", "plain" or "bot" (automated)
  blank,      \* bots whose user has no username
  profile,    \* the profile made for a bot
  owners,     \* the owners of a profile
  contacts,   \* number of contacts of a person for a bot
  at,         \* how far a request is
  read,       \* the profile it has read
  committed,  \* the interactions that are in the database
  scheduled   \* the interactions whose reply the queue has

botVars == <<phase, next, starts, refused, applied, user, blank, profile,
             owners, contacts, at, read, committed, scheduled>>

startVars   == <<phase, next, starts, refused, applied>>
requestVars == <<at, read, committed, scheduled>>
tableVars   == <<user, blank, profile, owners, contacts>>

Profiles == {b \in Bots : profile[b] # NoProfile}

BotsInit ==
  /\ phase = "down"
  /\ next = 1
  /\ starts = 0
  /\ refused = {}
  /\ applied = {}
  /\ user = [b \in Bots |-> "none"]
  /\ blank = {}
  /\ profile = [b \in Bots |-> NoProfile]
  /\ owners = [b \in Bots |-> {}]
  /\ contacts = [k \in People \X Bots |-> 0]
  /\ at = [r \in BotRequests |-> "new"]
  /\ read = [r \in Edits \cup Interactions |-> NoProfile]
  /\ committed = {}
  /\ scheduled = {}

(***************************************************************************)
(* The database's unique indexes: one profile for a user, one profile of a *)
(* name for an owner.                                                      *)
(***************************************************************************)
Unique(rows) ==
  \A b, c \in {d \in Bots : rows[d] # NoProfile} :
    b # c => /\ rows[b].user # rows[c].user
             /\ <<rows[b].owner, rows[b].name>> # <<rows[c].owner, rows[c].name>>

FirstOrCreate(people, b) ==
  [k \in DOMAIN contacts |->
     IF k[1] \in people /\ k[2] = b /\ contacts[k] = 0 THEN 1 ELSE contacts[k]]

(***************************************************************************)
(* A start.                                                                *)
(***************************************************************************)
Start ==
  /\ phase = "down"
  /\ starts < MaxStarts
  /\ phase' = "migrating"
  /\ starts' = starts + 1
  /\ next' = 1
  /\ at' = [r \in BotRequests |->
              IF at[r] \in {"write", "commit", "schedule", "add"} THEN "done" ELSE at[r]]
  /\ UNCHANGED <<refused, applied, tableVars, read, committed, scheduled>>

\* A user without username gets their email as one.
BackfillUsername(b) ==
  /\ phase = "migrating"
  /\ b \in blank
  /\ blank' = blank \ {b}
  /\ UNCHANGED <<startVars, user, profile, owners, contacts, requestVars>>

BackfillOwners ==
  /\ phase = "migrating"
  /\ blank = {}
  /\ owners' = [b \in Bots |->
       IF b \in Profiles THEN owners[b] \cup {profile[b].owner} ELSE owners[b]]
  /\ phase' = "starting"
  /\ UNCHANGED <<next, starts, refused, applied, user, blank, profile, contacts,
                 requestVars>>

\* The bots a start makes users for: the default one, then the entry it is at.
Wanted(b) ==
  /\ phase = "starting"
  /\ \/ b = Base
     \/ next <= Len(Config) /\ b = Config[next] /\ user[Base] = "bot"

CreateUser(b) ==
  /\ Wanted(b)
  /\ user[b] = "none"
  /\ user' = [user EXCEPT ![b] = "plain"]
  /\ UNCHANGED <<startVars, blank, profile, owners, contacts, requestVars>>

MarkAutomated(b) ==
  /\ Wanted(b)
  /\ user[b] = "plain"
  /\ user' = [user EXCEPT ![b] = "bot"]
  /\ UNCHANGED <<startVars, blank, profile, owners, contacts, requestVars>>

\* The profile an entry means: the one of its name and primary owner.
Found(e) == {b \in Profiles : profile[b].owner = EntryOwner[e]
                              /\ profile[b].name = EntryName[e]}

NewProfile(b, p, n) ==
  [user |-> b, owner |-> p, name |-> n, active |-> TRUE, public |-> b \in Public,
   config |-> b]

Overwritten(f, e) ==
  [f EXCEPT !.user = e, !.config = e, !.active = e \notin Inactive,
            !.public = e \in Public]

\* The profiles as the entry's transaction would leave them.
WithEntry(e) ==
  [b \in Bots |->
     CASE Found(e) = {} /\ b = e -> NewProfile(e, EntryOwner[e], EntryName[e])
       [] b \in Found(e) /\ e \in Overwrite -> Overwritten(profile[b], e)
       [] OTHER -> profile[b]]

EntryUser(e) ==
  /\ phase = "starting"
  /\ next <= Len(Config)
  /\ e = Config[next]
  /\ user[Base] = "bot"
  /\ user[e] = "bot"

\* Fault: owners and contacts are only for a profile that the start makes.
ApplyNew(e) ==
  /\ EntryUser(e)
  /\ profile[e] # NoProfile => Found(e) # {}
  /\ Unique(WithEntry(e))
  /\ profile' = WithEntry(e)
  /\ IF Found(e) = {}
     THEN /\ owners' = [owners EXCEPT ![e] = @ \cup {EntryOwner[e]} \cup MoreOwners[e]]
          /\ contacts' = FirstOrCreate({EntryOwner[e]} \cup MoreOwners[e], e)
     ELSE UNCHANGED <<owners, contacts>>
  /\ applied' = applied \cup {e}
  /\ next' = next + 1
  /\ UNCHANGED <<phase, starts, refused, user, blank, requestVars>>

ApplyEntry(e) ==
  /\ EntryUser(e)
  /\ profile[e] # NoProfile => Found(e) # {}
  /\ Unique(WithEntry(e))
  /\ profile' = WithEntry(e)
  /\ LET b == IF Found(e) = {} THEN e ELSE CHOOSE f \in Found(e) : TRUE IN
     owners' = [owners EXCEPT ![b] = @ \cup {EntryOwner[e]} \cup MoreOwners[e]]
  /\ contacts' = FirstOrCreate({EntryOwner[e]} \cup MoreOwners[e], e)
  /\ applied' = applied \cup {e}
  /\ next' = next + 1
  /\ UNCHANGED <<phase, starts, refused, user, blank, requestVars>>

\* The transaction runs into an index: the server does not start.
RefuseEntry(e) ==
  /\ EntryUser(e)
  /\ \/ Found(e) = {} /\ profile[e] # NoProfile
     \/ ~Unique(WithEntry(e))
  /\ phase' = "down"
  /\ refused' = refused \cup {e}
  /\ UNCHANGED <<next, starts, applied, tableVars, requestVars>>

\* The names the administrator's profiles have.
Taken == {profile[b].name : b \in {c \in Profiles : profile[c].owner = Admin}}

ConnectBase ==
  /\ phase = "starting"
  /\ next > Len(Config)
  /\ user[Base] = "bot"
  /\ profile' = [profile EXCEPT ![Base] =
       IF @ = NoProfile
       THEN [NewProfile(Base, Admin, IF BaseName \in Taken THEN SpareName ELSE BaseName)
               EXCEPT !.public = TRUE]
       ELSE [@ EXCEPT !.active = TRUE, !.public = TRUE]]
  /\ owners' = [owners EXCEPT ![Base] = @ \cup {Admin}]
  /\ contacts' = FirstOrCreate(People, Base)
  /\ phase' = "up"
  /\ UNCHANGED <<next, starts, refused, applied, user, blank, requestVars>>

\* The process ends at any time; what requests were doing is lost.
Crash ==
  /\ phase # "down"
  /\ phase' = "down"
  /\ UNCHANGED <<next, starts, refused, applied, tableVars, requestVars>>

(***************************************************************************)
(* Requests.                                                               *)
(***************************************************************************)
Turn(r, to) == at' = [at EXCEPT ![r] = to]

Arrives(r) == phase = "up" /\ at[r] = "new"

\* One transaction.  The new user has no username, and an index allows one
\* such user.
CreateBot(r) ==
  /\ Arrives(r)
  /\ Turn(r, "done")
  /\ LET rows == [profile EXCEPT ![r] = NewProfile(r, By[r], NameOf[r])] IN
     IF blank = {} /\ Unique(rows)
     THEN /\ user' = [user EXCEPT ![r] = "bot"]
          /\ blank' = {r}
          /\ profile' = rows
          /\ owners' = [owners EXCEPT ![r] = {By[r]}]
          /\ contacts' = FirstOrCreate({By[r]}, r)
     ELSE UNCHANGED tableVars
  /\ UNCHANGED <<startVars, read, committed, scheduled>>

Owned(p, b) == p = Admin \/ p \in owners[b]

FindActive(b) == b \in Profiles /\ profile[b].active

\* The profile is looked up, what is asked for is checked against it ...
ResolveOwned(q) ==
  /\ Arrives(q)
  /\ IF FindActive(EditBot[q]) /\ Owned(By[q], EditBot[q])
     THEN /\ read' = [read EXCEPT ![q] = profile[EditBot[q]]]
          /\ Turn(q, "write")
     ELSE /\ Turn(q, "done")
          /\ UNCHANGED read
  /\ UNCHANGED <<startVars, tableVars, committed, scheduled>>

\* ... and the columns are written to the row as it is by then.
Changed(q) ==
  LET b == EditBot[q] IN
  [profile EXCEPT ![b] =
     [c \in DOMAIN @ |-> IF c \in DOMAIN Change[q] THEN Change[q][c] ELSE @[c]]]

WriteProfile(q) ==
  /\ phase = "up"
  /\ at[q] = "write"
  /\ profile' = IF Unique(Changed(q)) THEN Changed(q) ELSE profile
  /\ Turn(q, "done")
  /\ UNCHANGED <<startVars, user, blank, owners, contacts, read, committed,
                 scheduled>>

Readable(p, b) == Owned(p, b) \/ profile[b].public

ResolveReadable(i) ==
  /\ Arrives(i)
  /\ IF FindActive(InteractionBot[i]) /\ Readable(By[i], InteractionBot[i])
     THEN /\ read' = [read EXCEPT ![i] = profile[InteractionBot[i]]]
          /\ Turn(i, "commit")
     ELSE /\ Turn(i, "done")
          /\ UNCHANGED read
  /\ UNCHANGED <<startVars, tableVars, committed, scheduled>>

\* Fault: the reply is scheduled within the transaction.
CommitScheduled(i) ==
  /\ phase = "up"
  /\ at[i] = "commit"
  /\ scheduled' = scheduled \cup {i}
  /\ \/ committed' = committed \cup {i} /\ Turn(i, "ok")
     \/ committed' = committed /\ Turn(i, "failed")
  /\ UNCHANGED <<startVars, tableVars, read>>

\* Chat, config, message and link are one transaction.
CommitInteraction(i) ==
  /\ phase = "up"
  /\ at[i] = "commit"
  /\ \/ committed' = committed \cup {i} /\ Turn(i, "schedule")
     \/ committed' = committed /\ Turn(i, "failed")
  /\ UNCHANGED <<startVars, tableVars, read, scheduled>>

ScheduleInteraction(i) ==
  /\ phase = "up"
  /\ at[i] = "schedule"
  /\ \/ scheduled' = scheduled \cup {i} /\ Turn(i, "ok")
     \/ scheduled' = scheduled /\ Turn(i, "failed")
  /\ UNCHANGED <<startVars, tableVars, read, committed>>

\* Whether there is a contact is looked up before one is created.
FindContact(a) ==
  /\ Arrives(a)
  /\ user[AddBot[a]] # "none"
  /\ Turn(a, IF contacts[<<By[a], AddBot[a]>>] > 0 THEN "done" ELSE "add")
  /\ UNCHANGED <<startVars, tableVars, read, committed, scheduled>>

AddContact(a) ==
  /\ phase = "up"
  /\ at[a] = "add"
  /\ contacts' = [contacts EXCEPT ![<<By[a], AddBot[a]>>] = @ + 1]
  /\ Turn(a, "done")
  /\ UNCHANGED <<startVars, user, blank, profile, owners, read, committed,
                 scheduled>>

BotsNext ==
  \/ Start \/ BackfillOwners \/ ConnectBase \/ Crash
  \/ \E b \in Bots : BackfillUsername(b) \/ CreateUser(b) \/ MarkAutomated(b)
  \/ \E e \in Entries : ApplyEntry(e) \/ RefuseEntry(e)
  \/ \E r \in Creates : CreateBot(r)
  \/ \E q \in Edits : ResolveOwned(q) \/ WriteProfile(q)
  \/ \E i \in Interactions :
       ResolveReadable(i) \/ CommitInteraction(i) \/ ScheduleInteraction(i)
  \/ \E a \in Adds : FindContact(a) \/ AddContact(a)

BotsSpec == BotsInit /\ [][BotsNext]_botVars

(***************************************************************************)
(* Properties.                                                             *)
(***************************************************************************)

\* A profile is for a user that is a bot, whatever a start that was cut off
\* has left behind (ensureBootstrapUser, applyBotBootstrapConfig).
BotsTypeOK ==
  /\ \A b \in Profiles : user[profile[b].user] = "bot" /\ owners[b] \subseteq People
  /\ Cardinality(blank) <= 1
  /\ contacts \in [People \X Bots -> Nat]
  /\ scheduled \subseteq Interactions

\* When a start is over the default bot is an active, public profile of the
\* administrator and everybody's contact; each entry has an automated user
\* and a profile of its name with all its owners, who have it as a contact;
\* and nobody is without a username.  This must hold however many starts
\* were cut off before, and whatever requests did in between.
StartCompletes ==
  [][(phase = "starting" /\ phase' = "up") =>
     /\ blank' = {}
     /\ profile'[Base].active /\ profile'[Base].public /\ Admin \in owners'[Base]
     /\ \A p \in People : contacts'[<<p, Base>>] > 0
     /\ \A e \in Entries :
          /\ user'[e] = "bot"
          /\ \A p \in {EntryOwner[e]} \cup MoreOwners[e] : contacts'[<<p, e>>] > 0
          /\ \E b \in Bots :
               /\ profile'[b] # NoProfile
               /\ profile'[b].owner = EntryOwner[e] /\ profile'[b].name = EntryName[e]
               /\ {EntryOwner[e]} \cup MoreOwners[e] \subseteq owners'[b]]_botVars

\* A deleted bot is active again only after a start, or because a request
\* that found it active asks for that: a request that comes after the
\* deletion changes nothing (resolveOwnedBot).
RevivedKnowingly ==
  [][\A b \in Profiles :
       /\ ~profile[b].active /\ phase = "up"
       /\ profile'[b] # profile[b]
       => \E q \in Edits : /\ EditBot[q] = b
                           /\ at[q] = "write" /\ at'[q] = "done"
                           /\ read[q].active]_botVars

\* The queue has replies only for interactions that are in the database, and
\* a client that was told of one finds both (CreateInteraction).
InteractionsWhole ==
  /\ scheduled \subseteq committed
  /\ \A i \in Interactions : at[i] = "ok" => i \in scheduled

\* What a start has applied once does not stop a later one.
AppliesAgain == applied \cap refused = {}

\* A client, the database and the queue agree on interactions.
InteractionsKept ==
  /\ BotsTypeOK
  /\ InteractionsWhole

\* A start completes what it finds half done, and brings back only what it should.
StartsRepair ==
  /\ StartCompletes
  /\ RevivedKnowingly
=============================================================================
