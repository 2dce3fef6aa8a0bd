---------------------------- MODULE ModelProofs -----------------------------
(***************************************************************************)
(* For any files, keys, bots and requests, and any number of starts that   *)
(* may be cut off: a start leaves the catalogue as the files and keys say, *)
(* and the rows, the bots' models and their profiles are what was asked    *)
(* for, but for what requests that overlapped did to each other, and for   *)
(* the models that a bot's old name keeps.                                 *)
(*                                                                         *)
(* The inductive invariant has a part per column and table: each says what *)
(* the readers of it have still to write.                                  *)
(***************************************************************************)
EXTENDS ModelConfigs, DataLemmas, FiniteSetTheorems

Columns == {"owner", "id", "model", "backend", "fits", "bots", "public", "default", "live"}

IsRow(r) == DOMAIN r = Columns /\ r = [c \in Columns |-> r[c]]

RowsShape ==
  /\ IsSeq(rows)
  /\ \A m \in DOMAIN rows :
       /\ IsRow(rows[m])
       /\ rows[m].bots \subseteq Names
       /\ rows[m].default => rows[m].owner = NoOne

ProfilesShape ==
  /\ IsSeq(profiles)
  /\ \A i \in DOMAIN profiles :
       profiles[i].bot \in ShownBots /\ profiles[i].models \subseteq 0 .. Len(rows)
  /\ DOMAIN listed = Rebuilders
  /\ \A w \in Rebuilders : listed[w] \subseteq 0 .. Len(rows)

RequestsShape ==
  /\ DOMAIN where = ModelRequests \cup {Server}
  /\ DOMAIN seen = Patches
  /\ DOMAIN bound = Starters

SelectionsShape ==
  /\ DOMAIN called = Selections
  /\ DOMAIN saw = Selections /\ DOMAIN wrote = Selections /\ DOMAIN todo = Rebuilders
  /\ \A s \in Selections :
       /\ called[s] \in Names
       /\ wrote[s] \subseteq DOMAIN saw[s]
       /\ DOMAIN saw[s] \subseteq DOMAIN rows \ todo[s]
       /\ \A m \in DOMAIN saw[s] : saw[s][m] \subseteq Names

\* The types.  A row that a selection has read it does not read again.
Shape ==
  /\ stage \in {"down", "seeding", "syncing", "profiles", "up"}
  /\ step \in Nat \ {0}
  /\ stage = "profiles" => step <= Len(BotList)
  /\ keys \subseteq Keyed
  /\ overlapped \subseteq ShownBots
  /\ name \in [ShownBots -> Names]
  /\ RowsShape
  /\ ProfilesShape
  /\ RequestsShape
  /\ SelectionsShape

-----------------------------------------------------------------------------
LEMMA BotListFacts ==
  /\ IsSeq(BotList) /\ Len(BotList) \in Nat /\ DOMAIN BotList = 1 .. Len(BotList)
  /\ 1 <= Len(BotList)
  /\ \A i \in 1 .. Len(BotList) : BotList[i] \in ShownBots
<1>1. IsSeq(BotList)
  BY ModelAssumption, SeqOfSet
<1>2. Len(BotList) \in Nat /\ DOMAIN BotList = 1 .. Len(BotList)
  BY <1>1, SeqDomain
<1> QED
  BY <1>1, <1>2, ModelAssumption DEF ShownBots

LEMMA CatalogueFacts ==
  /\ Len(Catalogue) \in Nat /\ DOMAIN Catalogue = 1 .. Len(Catalogue)
  /\ \A i \in 1 .. Len(Catalogue) : Catalogue[i].bots \subseteq Names
<1>1. IsSeq(Catalogue)
  BY ModelAssumption DEF IsSeq
<1> QED
  BY <1>1, SeqDomain, ModelAssumption

\* A column of one row is written.
Written(k, c, v) == rows' = [rows EXCEPT ![k] = [rows[k] EXCEPT ![c] = v]]

LEMMA ColumnWritten ==
  ASSUME RowsShape, NEW k \in DOMAIN rows, NEW c \in Columns, NEW v,
         c = "bots" => v \subseteq Names,
         c \notin {"owner", "default"},
         Written(k, c, v)
  PROVE  /\ RowsShape' /\ Len(rows') = Len(rows) /\ DOMAIN rows' = DOMAIN rows
         /\ \A m \in DOMAIN rows : \A d \in Columns :
              rows'[m][d] = IF m = k /\ d = c THEN v ELSE rows[m][d]
<1> USE DEF Written
<1>1. IsSeq(rows') /\ Len(rows') = Len(rows) /\ DOMAIN rows' = DOMAIN rows
  BY ExceptIsSeq DEF RowsShape
<1>2. \A m \in DOMAIN rows : rows'[m] = IF m = k THEN [rows[k] EXCEPT ![c] = v] ELSE rows[m]
  OBVIOUS
<1>3. DOMAIN rows[k] = Columns
  BY DEF RowsShape, IsRow
<1>4. \A m \in DOMAIN rows : \A d \in Columns :
        rows'[m][d] = IF m = k /\ d = c THEN v ELSE rows[m][d]
  BY <1>2, <1>3
<1>5. \A m \in DOMAIN rows : IsRow(rows'[m])
  BY <1>2, <1>3 DEF RowsShape, IsRow
<1>6. \A m \in DOMAIN rows :
        /\ rows'[m]["bots"] \subseteq Names
        /\ rows'[m]["default"] => rows'[m]["owner"] = NoOne
  BY <1>4 DEF RowsShape, Columns
<1> QED
  BY <1>1, <1>4, <1>5, <1>6 DEF RowsShape

\* A row is added.
LEMMA RowAdded ==
  ASSUME RowsShape, NEW r, IsRow(r), r.bots \subseteq Names,
         r.default => r.owner = NoOne, rows' = Append(rows, r)
  PROVE  /\ RowsShape' /\ Len(rows') = Len(rows) + 1
         /\ DOMAIN rows' = DOMAIN rows \cup {Len(rows) + 1}
         /\ \A m \in DOMAIN rows : rows'[m] = rows[m]
         /\ rows'[Len(rows) + 1] = r
<1>1. /\ IsSeq(rows') /\ Len(rows') = Len(rows) + 1
      /\ \A m \in 1 .. Len(rows) : rows'[m] = rows[m]
      /\ rows'[Len(rows) + 1] = r
  BY AppendIsSeq DEF RowsShape
<1>2. /\ Len(rows) \in Nat /\ DOMAIN rows = 1 .. Len(rows)
      /\ DOMAIN rows' = 1 .. Len(rows')
  BY <1>1, SeqDomain DEF RowsShape
<1>3. DOMAIN rows' = DOMAIN rows \cup {Len(rows) + 1}
  BY <1>1, <1>2
<1> QED
  BY <1>1, <1>2, <1>3 DEF RowsShape

LEMMA SeededAre ==
  ASSUME RowsShape, NEW e, Seeded(e) # {}
  PROVE  Min(Seeded(e)) \in Seeded(e) /\ Seeded(e) \subseteq DOMAIN rows
<1>1. Seeded(e) \subseteq DOMAIN rows /\ DOMAIN rows \subseteq Nat
  BY SeqDomain DEF RowsShape, Seeded
<1> QED
  BY <1>1, MinOfNaturals

-----------------------------------------------------------------------------
(***************************************************************************)
(* What each action does to the rows, column by column.                    *)
(***************************************************************************)
LEMMA SeedEntryRows ==
  ASSUME Shape, SeedEntry
  PROVE  /\ RowsShape' /\ DOMAIN rows \subseteq DOMAIN rows'
         /\ \A m \in DOMAIN rows :
              /\ \A d \in Columns \ {"default", "public"} : rows'[m][d] = rows[m][d]
              /\ rows[m].default => rows'[m].default
              /\ rows[m].public => rows'[m].public
         /\ \A m \in DOMAIN rows' \ DOMAIN rows : rows'[m].model = rows'[m].id
         /\ \E m \in DOMAIN rows' :
              /\ rows'[m].live /\ rows'[m].owner = NoOne /\ rows'[m].id = Catalogue[step].id
              /\ rows'[m].default /\ (rows'[m].public \/ ~Catalogue[step].public)
<1> DEFINE e == Catalogue[step]
<1> USE DEF Shape
<1>0. step \in 1 .. Len(Catalogue) /\ e.bots \subseteq Names
  BY CatalogueFacts DEF SeedEntry
<1>1. CASE Seeded(e) = {}
  <2>1. rows' = Append(rows, SeedRow(e))
    BY <1>1 DEF SeedEntry
  <2>2. /\ IsRow(SeedRow(e)) /\ SeedRow(e).bots \subseteq Names
        /\ SeedRow(e).owner = NoOne /\ SeedRow(e).live /\ SeedRow(e).default
        /\ SeedRow(e).id = e.id /\ SeedRow(e).model = e.id /\ SeedRow(e).public = e.public
    BY <1>0 DEF SeedRow, IsRow, Columns
  <2>3. /\ RowsShape' /\ DOMAIN rows' = DOMAIN rows \cup {Len(rows) + 1}
        /\ \A m \in DOMAIN rows : rows'[m] = rows[m]
        /\ rows'[Len(rows) + 1] = SeedRow(e)
    BY <2>1, <2>2, RowAdded
  <2> QED
    BY <2>2, <2>3
<1>2. CASE Seeded(e) # {}
  <2> DEFINE k == Min(Seeded(e))
  <2>1. k \in Seeded(e) /\ k \in DOMAIN rows
    BY <1>2, SeededAre
  <2>2. rows' = [rows EXCEPT ![k].default = TRUE, ![k].public = TRUE]
    BY <1>2 DEF SeedEntry
  <2>3. rows[k].live /\ rows[k].owner = NoOne /\ rows[k].id = e.id
    BY <2>1 DEF Seeded, Live
  <2> HIDE DEF k, e
  <2> DEFINE mid == [rows EXCEPT ![k].default = TRUE]
  <2>4. rows' = [mid EXCEPT ![k].public = TRUE]
    BY <2>2
  <2>5. IsSeq(mid) /\ DOMAIN mid = DOMAIN rows
    BY ExceptIsSeq DEF RowsShape
  <2> HIDE DEF mid
  <2>6. IsSeq(rows') /\ DOMAIN rows' = DOMAIN rows
    BY <2>4, <2>5, ExceptIsSeq
  <2>7. \A m \in DOMAIN rows : DOMAIN rows[m] = Columns
    BY DEF RowsShape, IsRow
  <2>8. \A m \in DOMAIN rows :
          rows'[m] = IF m = k THEN [[rows[k] EXCEPT !["default"] = TRUE] EXCEPT !["public"] = TRUE]
                     ELSE rows[m]
    BY <2>1, <2>4 DEF mid
  <2>9. \A m \in DOMAIN rows : \A d \in Columns :
          rows'[m][d] = IF m = k /\ d \in {"default", "public"} THEN TRUE ELSE rows[m][d]
    BY <2>7, <2>8
  <2>10. \A m \in DOMAIN rows : IsRow(rows'[m])
    BY <2>7, <2>8 DEF RowsShape, IsRow
  <2>11. \A m \in DOMAIN rows :
           /\ rows'[m]["bots"] = rows[m]["bots"] /\ rows'[m]["owner"] = rows[m]["owner"]
           /\ rows'[m]["live"] = rows[m]["live"] /\ rows'[m]["id"] = rows[m]["id"]
           /\ rows'[m]["default"] = IF m = k THEN TRUE ELSE rows[m]["default"]
           /\ rows'[m]["public"] = IF m = k THEN TRUE ELSE rows[m]["public"]
    BY <2>9 DEF Columns
  <2>12. RowsShape'
    BY <2>3, <2>6, <2>10, <2>11 DEF RowsShape
  <2> QED
    BY <2>1, <2>3, <2>6, <2>9, <2>11, <2>12 DEF e
<1> QED
  BY <1>1, <1>2

LEMMA SyncRowRows ==
  ASSUME Shape, SyncRow
  PROVE  /\ RowsShape' /\ DOMAIN rows' = DOMAIN rows /\ step \in DOMAIN rows
         /\ \A m \in DOMAIN rows : \A d \in Columns \ {"bots"} : rows'[m][d] = rows[m][d]
         /\ \A m \in DOMAIN rows : m # step => rows'[m].bots = rows[m].bots
         /\ ~Managed(rows[step]) => rows'[step].bots = rows[step].bots
         /\ Managed(rows[step]) =>
              rows'[step].bots = IF rows[step].backend \in keys
                                 THEN rows[step].bots \cup {name[DefaultBot]}
                                 ELSE rows[step].bots \ {name[DefaultBot]}
<1> USE DEF Shape
<1>1. step \in DOMAIN rows
  BY SeqDomain DEF SyncRow, RowsShape
<1>0. RowsShape /\ "bots" \in Columns
  BY DEF Columns
<1>2. CASE ~Managed(rows[step])
  <2>2. rows[step].bots \subseteq Names
    BY <1>0, <1>1 DEF RowsShape
  <2>1. Written(step, "bots", rows[step].bots)
    BY <1>2 DEF SyncRow, Written
  <2> QED
    BY <1>0, <1>1, <1>2, <2>1, <2>2, ColumnWritten
<1>3. CASE Managed(rows[step]) /\ rows[step].backend \in keys
  <2>2. rows[step].bots \cup {name[DefaultBot]} \subseteq Names
    BY <1>0, <1>1, ModelAssumption DEF RowsShape
  <2>1. Written(step, "bots", rows[step].bots \cup {name[DefaultBot]})
    BY <1>3 DEF SyncRow, Written
  <2> QED
    BY <1>0, <1>1, <1>3, <2>1, <2>2, ColumnWritten
<1>4. CASE Managed(rows[step]) /\ rows[step].backend \notin keys
  <2>2. rows[step].bots \ {name[DefaultBot]} \subseteq Names
    BY <1>0, <1>1 DEF RowsShape
  <2>1. Written(step, "bots", rows[step].bots \ {name[DefaultBot]})
    BY <1>4 DEF SyncRow, Written
  <2> QED
    BY <1>0, <1>1, <1>4, <2>1, <2>2, ColumnWritten
<1> QED
  BY <1>2, <1>3, <1>4

LEMMA AddRowRows ==
  ASSUME Shape, NEW a \in Additions, AddRow(a)
  PROVE  /\ RowsShape' /\ DOMAIN rows \subseteq DOMAIN rows'
         /\ \A m \in DOMAIN rows : rows'[m] = rows[m]
         /\ \A m \in DOMAIN rows' \ DOMAIN rows : rows'[m].model = rows'[m].id
<1> DEFINE r == [owner |-> Asked[a].by, id |-> Asked[a].id, model |-> Asked[a].id,
                 backend |-> Asked[a].backend, fits |-> Asked[a].fits, bots |-> {},
                 public |-> FALSE, default |-> FALSE, live |-> TRUE]
<1>1. rows' = Append(rows, r)
  BY DEF AddRow
<1>2. /\ IsRow(r) /\ r.bots \subseteq Names /\ (r.default => r.owner = NoOne)
      /\ r.model = r.id
  BY DEF IsRow, Columns
<1> HIDE DEF r
<1> QED
  BY <1>1, <1>2, RowAdded DEF Shape

\* The columns that a patch brings are written, if the row is there.
LEMMA WriteRowRows ==
  ASSUME Shape, NEW q \in Patches, WriteRow(q)
  PROVE  /\ RowsShape' /\ DOMAIN rows' = DOMAIN rows
         /\ \A m \in DOMAIN rows : \A c \in Columns :
              rows'[m][c] = IF m = Asked[q].row /\ Live(m) /\ Sets(q, c)
                            THEN Asked[q].sets[c] ELSE rows[m][c]
<1> USE DEF Shape
<1> DEFINE k == Asked[q].row
<1>1. CASE ~Live(k)
  <2>1. rows' = rows
    BY <1>1 DEF WriteRow
  <2> QED
    BY <1>1, <2>1 DEF RowsShape
<1>2. CASE Live(k)
  <2>1. k \in DOMAIN rows
    BY <1>2 DEF Live
  <2>2. DOMAIN rows[k] = Columns
    BY <2>1 DEF RowsShape, IsRow
  <2> DEFINE r == [c \in Columns |-> IF Sets(q, c) THEN Asked[q].sets[c] ELSE rows[k][c]]
  <2>3. rows' = [rows EXCEPT ![k] = r]
    BY <1>2, <2>2 DEF WriteRow
  <2>4. IsRow(r)
    BY DEF IsRow
  <2>5. ~Sets(q, "bots") /\ ~Sets(q, "default") /\ ~Sets(q, "owner")
    BY ModelAssumption DEF Sets
  <2>6. /\ r["bots"] = rows[k]["bots"] /\ r["default"] = rows[k]["default"]
        /\ r["owner"] = rows[k]["owner"]
    BY <2>5 DEF Columns
  <2>7. \A c \in Columns : r[c] = IF Sets(q, c) THEN Asked[q].sets[c] ELSE rows[k][c]
    OBVIOUS
  <2> HIDE DEF r
  <2>8. IsSeq(rows') /\ DOMAIN rows' = DOMAIN rows
    BY <2>3, ExceptIsSeq DEF RowsShape
  <2>9. \A m \in DOMAIN rows : rows'[m] = IF m = k THEN r ELSE rows[m]
    BY <2>3
  <2>10. RowsShape'
    BY <2>4, <2>6, <2>8, <2>9 DEF RowsShape
  <2> QED
    BY <1>2, <2>7, <2>8, <2>9, <2>10
<1> QED
  BY <1>1, <1>2

LEMMA DeleteRowRows ==
  ASSUME Shape, NEW d \in Removals, DeleteRow(d)
  PROVE  /\ RowsShape' /\ DOMAIN rows' = DOMAIN rows
         /\ \A m \in DOMAIN rows : \A c \in Columns \ {"live"} : rows'[m][c] = rows[m][c]
         /\ \A m \in DOMAIN rows : rows'[m].live => rows[m].live
<1> DEFINE k == Asked[d].row
<1>1. CASE Live(k) /\ MayWrite(Asked[d].by, k)
  <2>1. Written(k, "live", FALSE)
    BY <1>1 DEF DeleteRow, Written
  <2>2. k \in DOMAIN rows /\ rows[k].live
    BY <1>1 DEF Live
  <2> QED
    <3>1. RowsShape /\ "live" \in Columns
      BY DEF Shape, Columns
    <3>2. /\ RowsShape' /\ DOMAIN rows' = DOMAIN rows
          /\ \A m \in DOMAIN rows : \A c \in Columns :
               rows'[m][c] = IF m = k /\ c = "live" THEN FALSE ELSE rows[m][c]
      <4> DEFINE v == FALSE
      <4>1. Written(k, "live", v)
        BY <2>1
      <4> HIDE DEF k, v
      <4>2. /\ RowsShape' /\ DOMAIN rows' = DOMAIN rows
            /\ \A m \in DOMAIN rows : \A c \in Columns :
                 rows'[m][c] = IF m = k /\ c = "live" THEN v ELSE rows[m][c]
        BY <2>2, <3>1, <4>1, ColumnWritten
      <4> QED
        BY <4>2 DEF v
    <3>3. \A m \in DOMAIN rows :
            rows'[m]["live"] = IF m = k THEN FALSE ELSE rows[m]["live"]
      BY <3>1, <3>2
    <3> QED
      BY <3>2, <3>3
<1>2. CASE ~(Live(k) /\ MayWrite(Asked[d].by, k))
  BY <1>2 DEF DeleteRow, Shape, RowsShape
<1> QED
  BY <1>1, <1>2

WriteOf(s, m) ==
  IF Asked[s].add THEN saw[s][m] \cup {called[s]} ELSE saw[s][m] \ {called[s]}

LEMMA WriteBotsRows ==
  ASSUME Shape, NEW s \in Selections, NEW k, WriteBots(s, k)
  PROVE  /\ RowsShape' /\ DOMAIN rows' = DOMAIN rows
         /\ \A m \in DOMAIN rows : \A d \in Columns \ {"bots"} : rows'[m][d] = rows[m][d]
         /\ \A m \in DOMAIN rows :
              rows'[m].bots = IF m = k /\ Live(m) THEN WriteOf(s, m) ELSE rows[m].bots
<1> USE DEF Shape
<1>1. WriteOf(s, k) \subseteq Names
  BY ModelAssumption DEF WriteBots, SelectionsShape, WriteOf
<1>2. CASE Live(k)
  <2>1. Written(k, "bots", WriteOf(s, k))
    BY <1>2 DEF WriteBots, WriteOf, Written
  <2>2. k \in DOMAIN rows
    BY <1>2 DEF Live
  <2> QED
    <3>1. RowsShape /\ "bots" \in Columns
      BY DEF Columns
    <3> QED
      BY <1>1, <1>2, <2>1, <2>2, <3>1, ColumnWritten
<1>3. CASE ~Live(k)
  BY <1>3 DEF WriteBots, RowsShape
<1> QED
  BY <1>2, <1>3

\* Rows stay where they are, with their owner; what is deleted stays deleted,
\* and a default stays one.
RowsFollow ==
  /\ RowsShape' /\ DOMAIN rows \subseteq DOMAIN rows' /\ Len(rows) <= Len(rows')
  /\ \A m \in DOMAIN rows :
       /\ rows'[m].owner = rows[m].owner
       /\ rows'[m].live => rows[m].live
       /\ rows[m].default => rows'[m].default

LEMMA RowsFollowAll ==
  ASSUME Shape, ModelNext
  PROVE  RowsFollow
<1> DEFINE Goal == /\ RowsShape' /\ DOMAIN rows \subseteq DOMAIN rows'
                   /\ \A m \in DOMAIN rows :
                        /\ rows'[m].owner = rows[m].owner
                        /\ rows'[m].live => rows[m].live
                        /\ rows[m].default => rows'[m].default
<1> SUFFICES Goal
  <2>1. IsSeq(rows) /\ (RowsShape' => IsSeq(rows'))
    BY DEF Shape, RowsShape
  <2>2. /\ Len(rows) \in Nat /\ DOMAIN rows = 1 .. Len(rows)
        /\ RowsShape' => Len(rows') \in Nat /\ DOMAIN rows' = 1 .. Len(rows')
    BY <2>1, SeqDomain
  <2> QED
    BY <2>2 DEF RowsFollow
<1>1. CASE UNCHANGED rows
  BY <1>1 DEF Shape, RowsShape
<1>2. CASE SeedEntry
  BY <1>2, SeedEntryRows DEF Columns
<1>3. CASE SyncRow
  BY <1>3, SyncRowRows DEF Columns
<1>4. ASSUME NEW a \in Additions, AddRow(a) PROVE Goal
  BY <1>4, AddRowRows
<1>5. ASSUME NEW q \in Patches, WriteRow(q) PROVE Goal
  <2>1. ~Sets(q, "default") /\ ~Sets(q, "owner") /\ ~Sets(q, "live")
    BY ModelAssumption DEF Sets
  <2> QED
    BY <1>5, <2>1, WriteRowRows DEF Columns
<1>6. ASSUME NEW d \in Removals, DeleteRow(d) PROVE Goal
  BY <1>6, DeleteRowRows DEF Columns
<1>7. ASSUME NEW s \in Selections, NEW m, WriteBots(s, m) PROVE Goal
  BY <1>7, WriteBotsRows DEF Columns
<1>8. \/ UNCHANGED rows \/ SeedEntry \/ SyncRow
      \/ \E a \in Additions : AddRow(a)
      \/ \E q \in Patches : WriteRow(q)
      \/ \E d \in Removals : DeleteRow(d)
      \/ \E s \in Selections : \E m \in Asked[s].rows : WriteBots(s, m)
  BY DEF ModelNext, Boot, BeginSync, BeginProfiles, Halt, RemoveProfile, ListModels, ListFails,
         InsertProfile, ReadRow, FindBot, RenameBot, ReadBots, BindChat
<1> QED
  BY <1>1, <1>2, <1>3, <1>4, <1>5, <1>6, <1>7, <1>8

-----------------------------------------------------------------------------
(***************************************************************************)
(* What a rebuild does to the profiles.                                    *)
(***************************************************************************)
OneOf(b) == \A i, j \in ProfilesOf(b) : i = j

\* Every profile is there still.
StillThere == \A i \in DOMAIN profiles : \E j \in DOMAIN profiles' : profiles'[j] = profiles[i]

LEMMA BotOfRebuilder ==
  ASSUME Shape, NEW w \in Rebuilders, Rebuilding(w)
  PROVE  BotOf(w) \in ShownBots
<1>1. CASE w = Server
  <2>1. step \in 1 .. Len(BotList)
    BY <1>1, BotListFacts DEF Shape, Rebuilding
  <2> QED
    BY <1>1, <2>1, BotListFacts DEF BotOf
<1>2. CASE w # Server
  BY <1>2, ModelAssumption DEF Rebuilders, BotOf
<1> QED
  BY <1>1, <1>2

LEMMA RemoveProfileProfiles ==
  ASSUME Shape, NEW w \in Rebuilders, RemoveProfile(w)
  PROVE  /\ IsSeq(profiles')
         /\ \A j \in DOMAIN profiles' : \E i \in DOMAIN profiles : profiles'[j] = profiles[i]
         /\ \A i \in DOMAIN profiles : profiles[i].bot # BotOf(w) =>
              \E j \in DOMAIN profiles' : profiles'[j] = profiles[i]
         /\ \A c \in ShownBots : OneOf(c) =>
              OneOf(c)' /\ (c = BotOf(w) => ProfilesOf(c)' = {})
<1> DEFINE b == BotOf(w)
           k == Min(ProfilesOf(b))
           old(j) == IF j < k THEN j ELSE j + 1
<1>0. IsSeq(profiles) /\ Len(profiles) \in Nat /\ DOMAIN profiles = 1 .. Len(profiles)
  BY SeqDomain DEF Shape, ProfilesShape
<1>1. CASE ProfilesOf(b) = {}
  <2>1. profiles' = profiles
    BY <1>1 DEF RemoveProfile
  <2> QED
    BY <1>0, <1>1, <2>1 DEF OneOf, ProfilesOf
<1>2. CASE ProfilesOf(b) # {}
  <2>1. ProfilesOf(b) \subseteq Nat
    BY <1>0 DEF ProfilesOf
  <2>2. k \in ProfilesOf(b)
    BY <1>2, <2>1, MinOfNaturals
  <2>3. k \in 1 .. Len(profiles) /\ profiles[k].bot = b
    BY <1>0, <2>2 DEF ProfilesOf
  <2>4. profiles' = RemoveAt(profiles, k)
    BY <1>2 DEF RemoveProfile
  <2> HIDE DEF k
  <2>5. /\ IsSeq(profiles') /\ Len(profiles') = Len(profiles) - 1
        /\ DOMAIN profiles' = 1 .. Len(profiles) - 1
        /\ \A j \in 1 .. Len(profiles) - 1 : profiles'[j] = IF j < k THEN profiles[j] ELSE profiles[j + 1]
    BY <1>0, <2>3, <2>4, RemoveAtIsSeq, SeqDomain
  <2>6. \A j \in DOMAIN profiles' :
          /\ old(j) \in DOMAIN profiles /\ old(j) # k /\ profiles'[j] = profiles[old(j)]
    BY <1>0, <2>3, <2>5
  <2>7. \A i \in DOMAIN profiles : i # k => \E j \in DOMAIN profiles' : i = old(j)
    <3> TAKE i \in DOMAIN profiles
    <3>1. CASE i < k
      BY <1>0, <2>3, <2>5, <3>1
    <3>2. CASE i > k
      <4>1. i - 1 \in DOMAIN profiles' /\ old(i - 1) = i
        BY <1>0, <2>3, <2>5, <3>2
      <4> QED
        BY <4>1
    <3> QED
      BY <1>0, <2>3, <3>1, <3>2
  <2>8. \A i, j \in DOMAIN profiles' : old(i) = old(j) => i = j
    BY <1>0, <2>3, <2>5
  <2> HIDE DEF old, b
  <2>9. ASSUME NEW c, OneOf(c), c = b PROVE ProfilesOf(c)' = {}
    BY <2>2, <2>6, <2>9 DEF OneOf, ProfilesOf
  <2>10. ASSUME NEW c, OneOf(c) PROVE OneOf(c)'
    BY <2>6, <2>8, <2>10 DEF OneOf, ProfilesOf
  <2> QED
    BY <2>3, <2>5, <2>6, <2>7, <2>9, <2>10 DEF b
<1> QED
  BY <1>1, <1>2

LEMMA InsertProfileProfiles ==
  ASSUME Shape, NEW w \in Rebuilders, InsertProfile(w)
  PROVE  /\ IsSeq(profiles') /\ StillThere
         /\ \A j \in DOMAIN profiles' :
              \/ j \in DOMAIN profiles /\ profiles'[j] = profiles[j]
              \/ j = Len(profiles) + 1 /\ profiles'[j] = [bot |-> BotOf(w), models |-> listed[w]]
         /\ Len(profiles) + 1 \in DOMAIN profiles'
         /\ profiles'[Len(profiles) + 1] = [bot |-> BotOf(w), models |-> listed[w]]
<1> DEFINE p == [bot |-> BotOf(w), models |-> listed[w]]
<1>0. IsSeq(profiles) /\ Len(profiles) \in Nat /\ DOMAIN profiles = 1 .. Len(profiles)
  BY SeqDomain DEF Shape, ProfilesShape
<1>1. profiles' = Append(profiles, p)
  BY DEF InsertProfile
<1> HIDE DEF p
<1>2. /\ IsSeq(profiles') /\ Len(profiles') = Len(profiles) + 1
      /\ DOMAIN profiles' = 1 .. Len(profiles) + 1
      /\ \A i \in 1 .. Len(profiles) : profiles'[i] = profiles[i]
      /\ profiles'[Len(profiles) + 1] = p
  BY <1>0, <1>1, AppendIsSeq, SeqDomain
<1> QED
  BY <1>0, <1>2 DEF p, StillThere

-----------------------------------------------------------------------------
(***************************************************************************)
(* The types.                                                              *)
(***************************************************************************)
LEMMA ProfilesShapeStep ==
  ASSUME Shape, ModelNext
  PROVE  ProfilesShape'
<1>0. Len(rows) \in Nat /\ Len(rows') \in Nat /\ Len(rows) <= Len(rows') /\ DOMAIN rows = 1 .. Len(rows)
  BY RowsFollowAll, SeqDomain DEF Shape, RowsShape, RowsFollow
<1>1. 0 .. Len(rows) \subseteq 0 .. Len(rows')
  BY <1>0
<1> HIDE DEF Shape
<1>s. Shape /\ ProfilesShape
  BY DEF Shape
<1>2. CASE UNCHANGED <<profiles, listed>>
  BY <1>1, <1>2, <1>s DEF ProfilesShape
<1>3. CASE Boot
  BY <1>1, <1>3, <1>s DEF ProfilesShape, Boot
<1>4. ASSUME NEW w \in Rebuilders, RemoveProfile(w) PROVE ProfilesShape'
  <2>1. listed' = listed
    BY <1>4 DEF RemoveProfile
  <2> QED
    BY <1>1, <1>s, <1>4, <2>1, RemoveProfileProfiles DEF ProfilesShape
<1>5. ASSUME NEW w \in Rebuilders, ListModels(w) PROVE ProfilesShape'
  <2>1. AssignedTo(NameFor(w)) \subseteq DOMAIN rows
    BY DEF AssignedTo, Live
  <2>2. DOMAIN rows \subseteq 0 .. Len(rows') /\ {0} \subseteq 0 .. Len(rows')
    BY <1>0
  <2> QED
    BY <1>1, <1>s, <1>5, <2>1, <2>2 DEF ProfilesShape, ListModels
<1>6. ASSUME NEW w \in Rebuilders, InsertProfile(w) PROVE ProfilesShape'
  <2>1. Rebuilding(w) /\ listed' = [listed EXCEPT ![w] = {}]
    BY <1>6 DEF InsertProfile
  <2>2. BotOf(w) \in ShownBots
    BY <1>s, <2>1, BotOfRebuilder
  <2> DEFINE p == [bot |-> BotOf(w), models |-> listed[w]]
  <2>4. /\ IsSeq(profiles')
        /\ \A j \in DOMAIN profiles' :
             (j \in DOMAIN profiles /\ profiles'[j] = profiles[j]) \/ profiles'[j] = p
    BY <1>s, <1>6, InsertProfileProfiles
  <2>5. p.bot \in ShownBots /\ p.models \subseteq 0 .. Len(rows)
    BY <1>s, <2>2 DEF ProfilesShape
  <2> HIDE DEF p
  <2>3. IsSeq(profiles') /\ \A j \in DOMAIN profiles' :
          profiles'[j].bot \in ShownBots /\ profiles'[j].models \subseteq 0 .. Len(rows)
    BY <1>s, <2>4, <2>5 DEF ProfilesShape
  <2> QED
    BY <1>1, <1>s, <2>1, <2>3 DEF ProfilesShape
<1>7. \/ UNCHANGED <<profiles, listed>> \/ Boot
      \/ \E w \in Rebuilders : RemoveProfile(w) \/ ListModels(w) \/ InsertProfile(w)
  BY DEF ModelNext, SeedEntry, BeginSync, SyncRow, BeginProfiles, Halt, ListFails, AddRow, ReadRow,
         WriteRow, DeleteRow, FindBot, RenameBot, ReadBots, WriteBots, BindChat
<1> QED
  BY <1>2, <1>3, <1>4, <1>5, <1>6, <1>7

LEMMA RequestsShapeStep ==
  ASSUME Shape, ModelNext
  PROVE  RequestsShape'
BY DEF Shape, RequestsShape, ModelNext, Moves, Boot, SeedEntry, BeginSync, SyncRow, BeginProfiles,
       Halt, RemoveProfile, ListModels, ListFails, InsertProfile, AddRow, ReadRow, WriteRow,
       DeleteRow, FindBot, RenameBot, ReadBots, WriteBots, BindChat

LEMMA SelectionsShapeStep ==
  ASSUME Shape, ModelNext
  PROVE  SelectionsShape'
<1>0. DOMAIN rows \subseteq DOMAIN rows'
  BY RowsFollowAll DEF RowsFollow
<1>s. SelectionsShape /\ RowsShape
  BY DEF Shape
<1>1. CASE UNCHANGED selectionVars
  BY <1>0, <1>1, <1>s DEF SelectionsShape, selectionVars
<1>2. ASSUME NEW s \in Selections, NEW m, ReadBots(s, m) PROVE SelectionsShape'
  <2>1. todo' = [todo EXCEPT ![s] = @ \ {m}] /\ m \in todo[s] /\ rows' = rows /\ wrote' = wrote
    BY <1>2 DEF ReadBots
  <2>0. called' = called
    BY <1>2 DEF ReadBots
  <2>2. CASE UNCHANGED saw
    BY <1>s, <2>0, <2>1, <2>2 DEF SelectionsShape, Rebuilders
  <2>3. CASE Live(m) /\ saw' = [saw EXCEPT ![s] = [n \in DOMAIN @ \cup {m} |->
                                  IF n = m THEN rows[m].bots ELSE @[n]]]
    <3>1. m \in DOMAIN rows /\ rows[m].bots \subseteq Names
      BY <1>s, <2>3 DEF Live, RowsShape
    <3> QED
      BY <1>s, <2>0, <2>1, <2>3, <3>1 DEF SelectionsShape, Rebuilders
  <2> QED
    BY <1>2, <2>2, <2>3 DEF ReadBots
<1>3. ASSUME NEW s \in Selections, NEW m, WriteBots(s, m) PROVE SelectionsShape'
  BY <1>0, <1>3, <1>s DEF SelectionsShape, WriteBots
<1>4. ASSUME NEW s \in Selections, FindBot(s) PROVE SelectionsShape'
  <2>1. /\ called' = [called EXCEPT ![s] = name[Asked[s].bot]]
        /\ saw' = saw /\ wrote' = wrote /\ todo' = todo
    BY <1>4 DEF FindBot
  <2>2. name[Asked[s].bot] \in Names
    BY ModelAssumption DEF Shape
  <2> QED
    BY <1>0, <1>s, <2>1, <2>2 DEF SelectionsShape
<1>5. \/ UNCHANGED selectionVars
      \/ \E s \in Selections : FindBot(s) \/ \E m \in Asked[s].rows : ReadBots(s, m) \/ WriteBots(s, m)
  BY DEF ModelNext, Boot, SeedEntry, BeginSync, SyncRow, BeginProfiles, Halt, RemoveProfile,
         ListModels, ListFails, InsertProfile, AddRow, ReadRow, WriteRow, DeleteRow, RenameBot,
         BindChat
<1> QED
  BY <1>1, <1>2, <1>3, <1>4, <1>5

LEMMA NamesKept ==
  ASSUME ModelNext
  PROVE  name' = name \/ \E r \in Renames : RenameBot(r)
BY DEF ModelNext, Boot, SeedEntry, BeginSync, SyncRow, BeginProfiles, Halt, RemoveProfile,
       ListModels, ListFails, InsertProfile, AddRow, ReadRow, WriteRow, DeleteRow, FindBot,
       ReadBots, WriteBots, BindChat

LEMMA ScalarsStep ==
  ASSUME Shape, ModelNext
  PROVE  /\ stage' \in {"down", "seeding", "syncing", "profiles", "up"}
         /\ step' \in Nat \ {0}
         /\ stage' = "profiles" => step' <= Len(BotList)
         /\ keys' \subseteq Keyed
         /\ overlapped' \subseteq ShownBots
         /\ name' \in [ShownBots -> Names]
<1> USE DEF Shape
<1>1. CASE Boot \/ SeedEntry \/ BeginSync \/ SyncRow \/ Halt
  BY <1>1 DEF Boot, SeedEntry, BeginSync, SyncRow, Halt
<1>2. CASE BeginProfiles
  BY <1>2, BotListFacts DEF BeginProfiles
<1>3. ASSUME NEW w \in Rebuilders, RemoveProfile(w) PROVE overlapped' \subseteq ShownBots
  BY <1>3, BotOfRebuilder DEF RemoveProfile
<1>4. ASSUME NEW w \in Rebuilders, RemoveProfile(w) \/ ListModels(w) \/ ListFails(w)
      PROVE  /\ stage' \in {stage, "down"} /\ step' = step /\ keys' = keys
             /\ RemoveProfile(w) \/ overlapped' = overlapped
  BY <1>4 DEF RemoveProfile, ListModels, ListFails, bootVars
<1>5. ASSUME NEW w \in Rebuilders, InsertProfile(w)
      PROVE  /\ stage' \in {"down", "seeding", "syncing", "profiles", "up"}
             /\ step' \in Nat \ {0} /\ (stage' = "profiles" => step' <= Len(BotList))
             /\ keys' = keys /\ overlapped' = overlapped
  <2>1. /\ keys' = keys /\ overlapped' = overlapped /\ Rebuilding(w)
        /\ step' = IF w = Server THEN step + 1 ELSE step
        /\ stage' = IF w = Server /\ step = Len(BotList) THEN "up" ELSE stage
    BY <1>5 DEF InsertProfile
  <2>2. CASE w = Server
    <3>1. stage = "profiles"
      BY <2>1, <2>2 DEF Rebuilding
    <3>2. step \in Nat \ {0} /\ step <= Len(BotList) /\ Len(BotList) \in Nat
      BY <3>1, BotListFacts
    <3> HIDE DEF Shape
    <3>3. step' = step + 1 /\ stage' \in {"up", "profiles"}
      BY <2>1, <2>2, <3>1
    <3>4. stage' = "profiles" => step # Len(BotList)
      BY <2>1, <2>2
    <3> QED
      BY <2>1, <3>2, <3>3, <3>4
  <2>3. CASE w # Server
    BY <2>1, <2>3 DEF Rebuilding
  <2> QED
    BY <2>2, <2>3
<1>6. \/ Boot \/ SeedEntry \/ BeginSync \/ SyncRow \/ Halt \/ BeginProfiles
      \/ \E w \in Rebuilders :
           RemoveProfile(w) \/ ListModels(w) \/ ListFails(w) \/ InsertProfile(w)
      \/ UNCHANGED <<stage, step, keys, overlapped>>
  BY DEF ModelNext, bootVars, AddRow, ReadRow, WriteRow, DeleteRow, FindBot, RenameBot, ReadBots, WriteBots, BindChat
<1>7. name' \in [ShownBots -> Names]
  <2>1. ASSUME NEW r \in Renames, RenameBot(r) PROVE name' \in [ShownBots -> Names]
    BY <2>1, ModelAssumption DEF RenameBot
  <2>2. name' = name \/ \E r \in Renames : RenameBot(r)
    BY NamesKept
  <2> QED
    BY <2>1, <2>2
<1> QED
  BY <1>1, <1>2, <1>3, <1>4, <1>5, <1>6, <1>7

LEMMA ShapeStep ==
  ASSUME Shape, ModelNext
  PROVE  Shape'
<1>1. RowsShape'
  BY RowsFollowAll DEF RowsFollow
<1> QED
  BY <1>1, ProfilesShapeStep, RequestsShapeStep, SelectionsShapeStep, ScalarsStep DEF Shape

LEMMA ShapeInit == ModelInit => Shape
<1> SUFFICES ASSUME ModelInit PROVE Shape
  OBVIOUS
<1>1. IsSeq(rows) /\ DOMAIN rows = {} /\ IsSeq(profiles) /\ DOMAIN profiles = {}
  BY EmptyIsSeq DEF ModelInit
<1>2. /\ name \in [ShownBots -> Names]
      /\ DOMAIN called = Selections /\ \A s \in Selections : called[s] \in Names
  BY ModelAssumption DEF ModelInit
<1> QED
  BY <1>1, <1>2, BotListFacts DEF ModelInit, Shape, RowsShape, ProfilesShape, RequestsShape,
     SelectionsShape, Rebuilders

-----------------------------------------------------------------------------
(***************************************************************************)
(* Patches: the row that was checked is not the one that is written.       *)
(***************************************************************************)
Done(q) == where[q] \in {"written", "over"} /\ HasRead(q)

\* A patch that has read its row was right for it.
ReadInv ==
  \A q \in Patches :
    /\ where[q] \in {"new", "write", "written", "over"}
    /\ where[q] \in {"write", "written"} => HasRead(q)
    /\ where[q] = "new" => ~HasRead(q)
    /\ HasRead(q) => Valid(q, seen[q])

Cause(q, m) ==
  /\ Asked[q].row = m /\ Done(q)
  /\ Sets(q, "model") /\ ~Sets(q, "id") /\ seen[q].id = rows[m].model

MismatchInv ==
  \A m \in DOMAIN rows : rows[m].model # rows[m].id => \E q \in Patches : Cause(q, m)

BoundInv ==
  \A c \in Starters : bound[c] # NoOne =>
    /\ bound[c].owner \in {NoOne, Asked[c].by}
    /\ bound[c].model # Asked[c].id =>
         \E q \in Patches :
           Asked[q].row = bound[c].row /\ Done(q) /\ seen[q].id = bound[c].model

LEMMA Kinds ==
  /\ Server \notin ModelRequests
  /\ \A q \in Patches : q \notin Additions \cup Removals \cup Selections \cup Renames \cup Starters
  /\ \A s \in Selections : s \notin Additions \cup Removals \cup Patches \cup Renames \cup Starters
  /\ \A r \in Rebuilders : r \notin Additions \cup Removals \cup Patches \cup Renames \cup Starters
  /\ \A r \in Renames :
       r \notin Additions \cup Removals \cup Patches \cup Selections \cup Starters \cup {Server}
<1> DEFINE kinds == <<Additions, Patches, Removals, Selections, Renames, Starters>>
<1>1. \A i, j \in 1 .. 6 : i # j => kinds[i] \cap kinds[j] = {}
  BY ModelAssumption
<1>2. /\ kinds[1] = Additions /\ kinds[2] = Patches /\ kinds[3] = Removals
      /\ kinds[4] = Selections /\ kinds[5] = Renames /\ kinds[6] = Starters
  OBVIOUS
<1> HIDE DEF kinds
<1>3. /\ Patches \cap Additions = {} /\ Patches \cap Removals = {}
      /\ Patches \cap Selections = {} /\ Patches \cap Starters = {}
      /\ Selections \cap Additions = {} /\ Selections \cap Removals = {}
      /\ Selections \cap Starters = {}
      /\ \A k \in {Additions, Patches, Removals, Selections, Starters} : Renames \cap k = {}
  BY <1>1, <1>2
<1> QED
  BY <1>3, ModelAssumption DEF Rebuilders, ModelRequests

LEMMA PatchMoves ==
  ASSUME Shape, ModelNext, NEW q \in Patches
  PROVE  \/ where'[q] = where[q] /\ seen'[q] = seen[q]
         \/ Boot \/ ReadRow(q) \/ WriteRow(q)
<1>0. /\ q \in DOMAIN where /\ q \in DOMAIN seen
      /\ DOMAIN where = ModelRequests \cup {Server}
      /\ q # Server /\ q \notin Rebuilders \cup Additions \cup Removals \cup Renames \cup Starters
  BY Kinds DEF Shape, RequestsShape, ModelRequests
<1> USE <1>0
<1>1. CASE SeedEntry \/ BeginSync \/ SyncRow \/ BeginProfiles \/ Halt
  BY <1>1, Kinds DEF SeedEntry, BeginSync, SyncRow, BeginProfiles, Halt, Moves, ModelRequests
<1>2. ASSUME NEW w \in Rebuilders,
             RemoveProfile(w) \/ ListModels(w) \/ ListFails(w) \/ InsertProfile(w)
      PROVE  where'[q] = where[q] /\ seen'[q] = seen[q]
  BY <1>2 DEF RemoveProfile, ListModels, ListFails, InsertProfile, Moves
<1>3. ASSUME NEW p \in Patches, p # q, ReadRow(p) \/ WriteRow(p)
      PROVE  where'[q] = where[q] /\ seen'[q] = seen[q]
  BY <1>3 DEF ReadRow, WriteRow, Moves
<1>4. ASSUME NEW r, AddRow(r) \/ DeleteRow(r) \/ RenameBot(r) \/ BindChat(r),
             r \in Additions \cup Removals \cup Renames \cup Starters
      PROVE  where'[q] = where[q] /\ seen'[q] = seen[q]
  BY <1>4 DEF AddRow, DeleteRow, RenameBot, BindChat, Moves
<1>5. ASSUME NEW s \in Selections, NEW m, FindBot(s) \/ ReadBots(s, m) \/ WriteBots(s, m)
      PROVE  where'[q] = where[q] /\ seen'[q] = seen[q]
  BY <1>5 DEF FindBot, ReadBots, WriteBots, Moves, Rebuilders
<1> QED
  BY <1>1, <1>2, <1>3, <1>4, <1>5 DEF ModelNext

LEMMA ReadStep ==
  ASSUME Shape, ReadInv, ModelNext
  PROVE  ReadInv'
<1> SUFFICES ASSUME NEW q \in Patches
             PROVE  /\ where'[q] \in {"new", "write", "written", "over"}
                    /\ where'[q] \in {"write", "written"} => HasRead(q)'
                    /\ where'[q] = "new" => ~HasRead(q)'
                    /\ HasRead(q)' => Valid(q, seen'[q])
  BY DEF ReadInv, Valid, Sets
<1>0. /\ q \in DOMAIN where /\ q \in DOMAIN seen /\ q # Server
  BY Kinds DEF Shape, RequestsShape, ModelRequests
<1>1. CASE where'[q] = where[q] /\ seen'[q] = seen[q]
  BY <1>1 DEF ReadInv, HasRead
<1>2. CASE Boot
  <2>1. seen' = seen /\ where'[q] = IF where[q] = "new" THEN "new" ELSE "over"
    BY <1>0, <1>2 DEF Boot
  <2> QED
    BY <2>1 DEF ReadInv, HasRead
<1>3. CASE ReadRow(q)
  <2> DEFINE m == Asked[q].row
  <2>1. CASE Live(m) /\ MayWrite(Asked[q].by, m) /\ Valid(q, rows[m])
    <3>1. seen'[q] = rows[m] /\ where'[q] = "write"
      BY <1>0, <1>3, <2>1 DEF ReadRow, Moves
    <3>2. DOMAIN rows[m] = Columns /\ Columns # {}
      BY <2>1 DEF Shape, RowsShape, IsRow, Live, Columns
    <3> QED
      BY <2>1, <3>1, <3>2 DEF HasRead
  <2>2. CASE ~(Live(m) /\ MayWrite(Asked[q].by, m) /\ Valid(q, rows[m]))
    <3>1. seen'[q] = seen[q] /\ where'[q] = "over"
      BY <1>0, <1>3, <2>2 DEF ReadRow, Moves
    <3> QED
      BY <3>1 DEF HasRead, ReadInv
  <2> QED
    BY <2>1, <2>2
<1>4. CASE WriteRow(q)
  <2>1. seen'[q] = seen[q] /\ where[q] = "write" /\ where'[q] = "written"
    BY <1>0, <1>4 DEF WriteRow, Moves
  <2> QED
    BY <2>1 DEF HasRead, ReadInv
<1> QED
  BY <1>1, <1>2, <1>3, <1>4, PatchMoves

\* What a patch has read it keeps, and what is done stays done.
LEMMA DoneStays ==
  ASSUME Shape, ReadInv, ModelNext, NEW q \in Patches, Done(q)
  PROVE  Done(q)' /\ seen'[q] = seen[q]
<1>0. q \in DOMAIN where /\ q \in DOMAIN seen /\ q # Server
  BY Kinds DEF Shape, RequestsShape, ModelRequests
<1>1. ~ReadRow(q) /\ ~WriteRow(q)
  BY DEF Done, ReadInv, ReadRow, WriteRow, Comes
<1>2. CASE where'[q] = where[q] /\ seen'[q] = seen[q]
  BY <1>2 DEF Done, HasRead
<1>3. CASE Boot
  BY <1>0, <1>3 DEF Boot, Done, HasRead
<1> QED
  BY <1>1, <1>2, <1>3, PatchMoves

\* The actions that touch the rows.
LEMMA RowActions ==
  ASSUME ModelNext
  PROVE  \/ UNCHANGED rows \/ SeedEntry \/ SyncRow
         \/ \E a \in Additions : AddRow(a)
         \/ \E q \in Patches : WriteRow(q)
         \/ \E d \in Removals : DeleteRow(d)
         \/ \E s \in Selections : \E m \in Asked[s].rows : WriteBots(s, m)
BY DEF ModelNext, Boot, BeginSync, BeginProfiles, Halt, RemoveProfile, ListModels, ListFails,
       InsertProfile, ReadRow, FindBot, RenameBot, ReadBots, BindChat

\* Only a patch changes the model of a row or its configuration.
LEMMA ConfigurationKept ==
  ASSUME Shape, ModelNext, NEW m \in DOMAIN rows'
  PROVE  \/ /\ m \in DOMAIN rows
            /\ rows'[m].id = rows[m].id /\ rows'[m].model = rows[m].model
            /\ rows'[m].backend = rows[m].backend
         \/ m \notin DOMAIN rows /\ rows'[m].model = rows'[m].id
         \/ \E q \in Patches : WriteRow(q) /\ m = Asked[q].row /\ Live(m)
<1>0. "id" \in Columns /\ "model" \in Columns /\ "backend" \in Columns
  BY DEF Columns
<1>1. CASE UNCHANGED rows
  BY <1>1
<1>2. CASE SeedEntry
  BY <1>0, <1>2, SeedEntryRows
<1>3. CASE SyncRow
  BY <1>0, <1>3, SyncRowRows
<1>4. ASSUME NEW a \in Additions, AddRow(a)
      PROVE  \/ m \in DOMAIN rows /\ rows'[m] = rows[m]
             \/ m \notin DOMAIN rows /\ rows'[m].model = rows'[m].id
  BY <1>4, AddRowRows
<1>5. ASSUME NEW q \in Patches, WriteRow(q), ~(m = Asked[q].row /\ Live(m))
      PROVE  /\ m \in DOMAIN rows
             /\ rows'[m].id = rows[m].id /\ rows'[m].model = rows[m].model
             /\ rows'[m].backend = rows[m].backend
  BY <1>0, <1>5, WriteRowRows
<1>6. ASSUME NEW d \in Removals, DeleteRow(d)
      PROVE  /\ m \in DOMAIN rows
             /\ rows'[m].id = rows[m].id /\ rows'[m].model = rows[m].model
             /\ rows'[m].backend = rows[m].backend
  BY <1>0, <1>6, DeleteRowRows
<1>7. ASSUME NEW s \in Selections, NEW k, WriteBots(s, k)
      PROVE  /\ m \in DOMAIN rows
             /\ rows'[m].id = rows[m].id /\ rows'[m].model = rows[m].model
             /\ rows'[m].backend = rows[m].backend
  BY <1>0, <1>7, WriteBotsRows
<1> QED
  BY <1>1, <1>2, <1>3, <1>4, <1>5, <1>6, <1>7, RowActions

LEMMA MismatchStep ==
  ASSUME Shape, ReadInv, MismatchInv, ModelNext
  PROVE  MismatchInv'
<1> SUFFICES ASSUME NEW m \in DOMAIN rows', rows'[m].model # rows'[m].id
             PROVE  \E q \in Patches : Cause(q, m)'
  BY DEF MismatchInv, Cause, Sets
<1>1. CASE /\ m \in DOMAIN rows
           /\ rows'[m].id = rows[m].id /\ rows'[m].model = rows[m].model
  <2>1. PICK q \in Patches : Cause(q, m)
    BY <1>1 DEF MismatchInv
  <2>2. Done(q)' /\ seen'[q] = seen[q]
    BY <2>1, DoneStays DEF Cause
  <2> QED
    BY <1>1, <2>1, <2>2 DEF Cause, Sets
<1>2. ASSUME NEW q \in Patches, WriteRow(q), m = Asked[q].row, Live(m)
      PROVE  \E p \in Patches : Cause(p, m)'
  <2>0. m \in DOMAIN rows /\ "id" \in Columns /\ "model" \in Columns
    BY <1>2 DEF Live, Columns
  <2>1. /\ rows'[m]["id"] = IF Sets(q, "id") THEN Asked[q].sets["id"] ELSE rows[m]["id"]
        /\ rows'[m]["model"] = IF Sets(q, "model") THEN Asked[q].sets["model"] ELSE rows[m]["model"]
    BY <1>2, <2>0, WriteRowRows
  <2>2. HasRead(q) /\ Valid(q, seen[q])
    BY <1>2 DEF WriteRow, ReadInv
  <2>3. ~Sets(q, "id")
    BY <2>1, <2>2 DEF Valid
  <2>4. CASE Sets(q, "model")
    <3>1. Asked[q].sets["model"] = seen[q].id
      BY <2>2, <2>3, <2>4 DEF Valid
    <3>2. Done(q)' /\ seen'[q] = seen[q]
      BY <1>2, <2>2, Kinds DEF WriteRow, Moves, Done, HasRead, Shape, RequestsShape, ModelRequests
    <3> QED
      BY <1>2, <2>1, <2>3, <2>4, <3>1, <3>2 DEF Cause, Sets
  <2>5. CASE ~Sets(q, "model")
    BY <1>1, <2>0, <2>1, <2>3, <2>5
  <2> QED
    BY <2>4, <2>5
<1> QED
  BY <1>1, <1>2, ConfigurationKept

LEMMA BoundStep ==
  ASSUME Shape, ReadInv, MismatchInv, BoundInv, ModelNext
  PROVE  BoundInv'
<1> SUFFICES ASSUME NEW c \in Starters, bound'[c] # NoOne
             PROVE  /\ bound'[c].owner \in {NoOne, Asked[c].by}
                    /\ bound'[c].model # Asked[c].id =>
                         \E q \in Patches :
                           Asked[q].row = bound'[c].row /\ Done(q)' /\ seen'[q].id = bound'[c].model
  BY DEF BoundInv
<1>1. CASE bound'[c] = bound[c]
  BY <1>1, DoneStays DEF BoundInv
<1>2. CASE BindChat(c)
  <2> DEFINE found == Candidates(Asked[c].by, Asked[c].id)
             k     == Max(found)
  <2>0. c \in DOMAIN bound
    BY DEF Shape, RequestsShape
  <2>1. /\ found # {}
        /\ bound'[c] = [row |-> k, model |-> rows[k].model,
                        backend |-> rows[k].backend, owner |-> rows[k].owner]
    BY <1>2, <2>0 DEF BindChat
  <2>2. Len(rows) \in Nat /\ found \subseteq 1 .. Len(rows) /\ DOMAIN rows = 1 .. Len(rows)
    BY SeqDomain DEF Shape, RowsShape, Candidates
  <2>3. k \in found
    <3> HIDE DEF found
    <3>1. found \subseteq Nat /\ \A x \in found : x <= Len(rows)
      BY <2>2
    <3> QED
      BY <2>1, <2>2, <3>1, MaxOfNaturals
  <2>4. /\ k \in DOMAIN rows /\ rows[k].id = Asked[c].id
        /\ rows[k].owner \in {NoOne, Asked[c].by}
    BY <2>2, <2>3 DEF Candidates
  <2> HIDE DEF k, found
  <2>5. bound'[c].row = k /\ bound'[c].model = rows[k].model /\ bound'[c].owner = rows[k].owner
    BY <2>1
  <2>6. ASSUME bound'[c].model # Asked[c].id
        PROVE  \E q \in Patches :
                 Asked[q].row = bound'[c].row /\ Done(q)' /\ seen'[q].id = bound'[c].model
    <3>1. PICK q \in Patches : Cause(q, k)
      BY <2>4, <2>5, <2>6 DEF MismatchInv
    <3>2. Done(q)' /\ seen'[q] = seen[q]
      BY <3>1, DoneStays DEF Cause
    <3> QED
      BY <2>5, <3>1, <3>2 DEF Cause
  <2> QED
    BY <2>4, <2>5, <2>6
<1>3. bound'[c] = bound[c] \/ BindChat(c)
  <2>1. c \in DOMAIN bound
    BY DEF Shape, RequestsShape
  <2>2. ASSUME NEW d \in Starters, BindChat(d), d # c PROVE bound'[c] = bound[c]
    BY <2>1, <2>2 DEF BindChat
  <2>3. bound' = bound \/ \E d \in Starters : BindChat(d)
    BY DEF ModelNext, Boot, SeedEntry, BeginSync, SyncRow, BeginProfiles, Halt, RemoveProfile,
         ListModels, ListFails, InsertProfile, AddRow, ReadRow, WriteRow, DeleteRow, FindBot, RenameBot,
         ReadBots, WriteBots
  <2> QED
    BY <2>2, <2>3
<1> QED
  BY <1>1, <1>2, <1>3

-----------------------------------------------------------------------------
(***************************************************************************)
(* Where selections and renames are.                                       *)
(***************************************************************************)
LEMMA WhereFacts ==
  ASSUME Shape
  PROVE  /\ Server \in DOMAIN where /\ Selections \subseteq DOMAIN where
         /\ Rebuilders = Selections \cup {Server} /\ Server \notin Selections
BY Kinds DEF Shape, RequestsShape, ModelRequests, Rebuilders

\* Where a selection is changes by its own steps, or by a start.
LEMMA SelectionMoves ==
  ASSUME Shape, ModelNext, NEW s \in Selections
  PROVE  \/ where'[s] = where[s]
         \/ Boot /\ where'[s] \in {"new", "over"}
         \/ FindBot(s) /\ where[s] = "new" /\ where'[s] = "pick"
         \/ (\E m \in Asked[s].rows : ReadBots(s, m) \/ WriteBots(s, m)) /\ where'[s] \in {"pick", "assign"}
         \/ RemoveProfile(s) /\ where'[s] = "list"
         \/ ListModels(s) /\ where'[s] = "insert"
         \/ ListFails(s) /\ where'[s] = "failed"
         \/ InsertProfile(s) /\ where'[s] = "over"
<1>0. /\ s \in DOMAIN where /\ s # Server
      /\ s \notin Additions \cup Patches \cup Removals \cup Renames \cup Starters
  BY WhereFacts, Kinds
<1>1. CASE SeedEntry \/ BeginSync \/ SyncRow \/ BeginProfiles \/ Halt
  BY <1>0, <1>1 DEF SeedEntry, BeginSync, SyncRow, BeginProfiles, Halt, Moves
<1>2. CASE Boot
  BY <1>0, <1>2 DEF Boot
<1>3. ASSUME NEW r, AddRow(r) \/ DeleteRow(r) \/ BindChat(r) \/ ReadRow(r) \/ WriteRow(r) \/ RenameBot(r),
             r \in Additions \cup Patches \cup Removals \cup Renames \cup Starters
      PROVE  where'[s] = where[s]
  BY <1>0, <1>3 DEF AddRow, DeleteRow, BindChat, ReadRow, WriteRow, RenameBot, Moves
<1>4. ASSUME NEW t \in Selections, NEW m, ReadBots(t, m) \/ WriteBots(t, m)
      PROVE  (s # t => where'[s] = where[s]) /\ (s = t => where'[s] \in {"pick", "assign"})
  BY <1>0, <1>4 DEF ReadBots, WriteBots, Moves
<1>5. ASSUME NEW w \in Rebuilders, RemoveProfile(w) \/ ListModels(w) \/ ListFails(w) \/ InsertProfile(w), w # s
      PROVE  where'[s] = where[s]
  BY <1>0, <1>5 DEF RemoveProfile, ListModels, ListFails, InsertProfile, Moves
<1>6. /\ RemoveProfile(s) => where'[s] = "list"
      /\ ListModels(s) => where'[s] = "insert"
      /\ ListFails(s) => where'[s] = "failed"
      /\ InsertProfile(s) => where'[s] = "over"
  BY <1>0 DEF RemoveProfile, ListModels, ListFails, InsertProfile, Moves
<1>7. ASSUME NEW t \in Selections, FindBot(t)
      PROVE  (s # t => where'[s] = where[s]) /\ (s = t => where[s] = "new" /\ where'[s] = "pick")
  BY <1>0, <1>7 DEF FindBot, Moves, Comes
<1> QED
  BY <1>1, <1>2, <1>3, <1>4, <1>5, <1>6, <1>7 DEF ModelNext

\* A request that is over stays so.
LEMMA OverStays ==
  ASSUME Shape, ModelNext, NEW r \in Renames, where[r] = "over"
  PROVE  where'[r] = "over"
<1>0. /\ r \in DOMAIN where /\ r # Server
      /\ r \notin Rebuilders \cup Additions \cup Patches \cup Removals \cup Starters
  BY Kinds, WhereFacts DEF Shape, RequestsShape, ModelRequests
<1>1. CASE SeedEntry \/ BeginSync \/ SyncRow \/ BeginProfiles \/ Halt \/ Boot
  BY <1>0, <1>1 DEF SeedEntry, BeginSync, SyncRow, BeginProfiles, Halt, Boot, Moves
<1>2. ASSUME NEW w \in Rebuilders,
             RemoveProfile(w) \/ ListModels(w) \/ ListFails(w) \/ InsertProfile(w)
      PROVE  where'[r] = where[r]
  BY <1>0, <1>2 DEF RemoveProfile, ListModels, ListFails, InsertProfile, Moves
<1>3. ASSUME NEW q, q \in Additions \cup Patches \cup Removals \cup Starters,
             AddRow(q) \/ ReadRow(q) \/ WriteRow(q) \/ DeleteRow(q) \/ BindChat(q)
      PROVE  where'[r] = where[r]
  BY <1>0, <1>3 DEF AddRow, ReadRow, WriteRow, DeleteRow, BindChat, Moves
<1>4. ASSUME NEW s \in Selections, NEW m, FindBot(s) \/ ReadBots(s, m) \/ WriteBots(s, m)
      PROVE  where'[r] = where[r]
  BY <1>0, <1>4 DEF FindBot, ReadBots, WriteBots, Moves, Rebuilders
<1>5. ASSUME NEW q \in Renames, RenameBot(q) PROVE where'[r] = "over"
  BY <1>0, <1>5 DEF RenameBot, Moves
<1> QED
  BY <1>1, <1>2, <1>3, <1>4, <1>5 DEF ModelNext

-----------------------------------------------------------------------------
(***************************************************************************)
(* Selections: whoever takes a name from a row has not seen it there.      *)
(***************************************************************************)
Overwrites(t, s, m) ==
  /\ m \in wrote[t]
  /\ \/ called[t] = called[s] /\ ~Asked[t].add
     \/ called[s] \notin saw[t][m]

\* A name that a selection has added is in its row, or was taken from it.
LostInv ==
  \A s \in Selections : \A m \in wrote[s] :
    Asked[s].add /\ Live(m) /\ called[s] \notin rows[m].bots =>
      \/ called[s] \in HadNames(DefaultBot) /\ UpToKeys(m)
      \/ \E t \in Selections \ {s} : Overwrites(t, s, m)

\* A selection that has not begun has read no row; a bot's name is one it had.
FreshInv == \A s \in Selections : where[s] = "new" => DOMAIN saw[s] = {}

NameInv == \A b \in ShownBots : name[b] \in HadNames(b)

LEMMA FreshStep ==
  ASSUME Shape, FreshInv, ModelNext
  PROVE  FreshInv'
<1> SUFFICES ASSUME NEW s \in Selections, where'[s] = "new" PROVE DOMAIN saw'[s] = {}
  BY DEF FreshInv
<1>1. CASE Boot
  <2>1. saw' = saw /\ where[s] = "new"
    BY <1>1, WhereFacts DEF Boot, selectionVars
  <2> QED
    BY <2>1 DEF FreshInv
<1>2. CASE where'[s] = where[s]
  <2>1. ASSUME NEW t \in Selections, NEW m, ReadBots(t, m) PROVE saw'[s] = saw[s]
    <3>1. where[t] = "pick" /\ t # s
      BY <1>2, <2>1 DEF ReadBots
    <3> QED
      BY <2>1, <3>1 DEF ReadBots, Shape, SelectionsShape
  <2>2. saw' = saw \/ \E t \in Selections : \E m \in Asked[t].rows : ReadBots(t, m)
    BY DEF ModelNext, Boot, SeedEntry, BeginSync, SyncRow, BeginProfiles, Halt, RemoveProfile,
       ListModels, ListFails, InsertProfile, AddRow, ReadRow, WriteRow, DeleteRow, FindBot,
       RenameBot, WriteBots, BindChat, selectionVars
  <2> QED
    BY <1>2, <2>1, <2>2 DEF FreshInv
<1> QED
  BY <1>1, <1>2, SelectionMoves

LEMMA HadNamesStay ==
  ASSUME Shape, ModelNext, NEW b
  PROVE  HadNames(b) \subseteq HadNames(b)'
BY OverStays DEF HadNames

LEMMA NameStep ==
  ASSUME Shape, NameInv, ModelNext
  PROVE  NameInv'
<1> SUFFICES ASSUME NEW b \in ShownBots PROVE name'[b] \in HadNames(b)'
  BY DEF NameInv
<1>1. CASE name'[b] = name[b]
  BY <1>1, HadNamesStay DEF NameInv
<1>2. ASSUME NEW r \in Renames, RenameBot(r), name'[b] # name[b]
      PROVE  name'[b] \in HadNames(b)'
  <2>1. Asked[r].bot = b /\ name'[b] = Asked[r].name
    BY <1>2, ModelAssumption DEF RenameBot, Shape
  <2>2. where'[r] = "over"
    BY <1>2 DEF RenameBot, Moves, Shape, RequestsShape, ModelRequests
  <2> QED
    BY <2>1, <2>2 DEF HadNames
<1> QED
  BY <1>1, <1>2, NamesKept

\* What a selection has written it has seen, and sees no other.
LEMMA WroteStays ==
  ASSUME Shape, FreshInv, ModelNext, NEW t \in Selections, NEW m \in wrote[t]
  PROVE  m \in wrote'[t] /\ saw'[t][m] = saw[t][m] /\ called'[t] = called[t]
<1>0. /\ DOMAIN saw = Selections /\ DOMAIN wrote = Selections
      /\ m \in DOMAIN saw[t] /\ m \notin todo[t]
  BY DEF Shape, SelectionsShape
<1>1. CASE UNCHANGED selectionVars
  BY <1>1 DEF selectionVars
<1>2. ASSUME NEW s \in Selections, NEW k, ReadBots(s, k)
      PROVE  m \in wrote'[t] /\ saw'[t][m] = saw[t][m] /\ called'[t] = called[t]
  <2>1. wrote' = wrote /\ k \in todo[s] /\ called' = called
    BY <1>2 DEF ReadBots
  <2>2. CASE UNCHANGED saw
    BY <2>1, <2>2
  <2>3. CASE saw' = [saw EXCEPT ![s] = [n \in DOMAIN @ \cup {k} |->
                       IF n = k THEN rows[k].bots ELSE @[n]]]
    <3>1. CASE t = s
      BY <1>0, <2>1, <2>3, <3>1
    <3>2. CASE t # s
      BY <1>0, <2>1, <2>3, <3>2
    <3> QED
      BY <3>1, <3>2
  <2> QED
    BY <1>2, <2>2, <2>3 DEF ReadBots
<1>3. ASSUME NEW s \in Selections, NEW k, WriteBots(s, k)
      PROVE  m \in wrote'[t] /\ saw'[t][m] = saw[t][m] /\ called'[t] = called[t]
  BY <1>0, <1>3 DEF WriteBots
<1>4. ASSUME NEW s \in Selections, FindBot(s)
      PROVE  m \in wrote'[t] /\ saw'[t][m] = saw[t][m] /\ called'[t] = called[t]
  <2>1. s # t
    BY <1>0, <1>4 DEF FindBot, Comes, FreshInv
  <2>2. called' = [called EXCEPT ![s] = name[Asked[s].bot]] /\ saw' = saw /\ wrote' = wrote
    BY <1>4 DEF FindBot
  <2> QED
    BY <2>1, <2>2 DEF Shape, SelectionsShape
<1>5. \/ UNCHANGED selectionVars
      \/ \E s \in Selections : FindBot(s) \/ \E k \in Asked[s].rows : ReadBots(s, k) \/ WriteBots(s, k)
  BY DEF ModelNext, Boot, SeedEntry, BeginSync, SyncRow, BeginProfiles, Halt, RemoveProfile,
         ListModels, ListFails, InsertProfile, AddRow, ReadRow, WriteRow, DeleteRow, RenameBot,
         BindChat
<1> QED
  BY <1>1, <1>2, <1>3, <1>4, <1>5

\* A row leaves the keys' hands only with its backend, or by being deleted.
LEMMA UpToKeysStays ==
  ASSUME Shape, ReadInv, ModelNext, NEW m \in DOMAIN rows, UpToKeys(m), rows'[m].live
  PROVE  UpToKeys(m)'
<1>0. /\ m \in DOMAIN rows' /\ rows'[m].owner = rows[m].owner
      /\ rows[m].default => rows'[m].default
  BY RowsFollowAll DEF RowsFollow
<1>1. ASSUME NEW q \in Patches, Asked[q].row = m, Sets(q, "backend"), Done(q)
      PROVE  UpToKeys(m)'
  <2>1. Done(q)'
    BY <1>1, DoneStays
  <2> QED
    BY <1>1, <2>1 DEF UpToKeys, Done, Sets, HasRead
<1>2. CASE Managed(rows[m])
  <2>1. CASE rows'[m].backend = rows[m].backend
    BY <1>0, <1>2, <2>1 DEF Managed, UpToKeys
  <2>2. ASSUME NEW q \in Patches, WriteRow(q), m = Asked[q].row, Live(m),
               rows'[m].backend # rows[m].backend
        PROVE  UpToKeys(m)'
    <3>1. "backend" \in Columns
      BY DEF Columns
    <3>2. Sets(q, "backend")
      BY <2>2, <3>1, WriteRowRows
    <3>3. HasRead(q)' /\ where'[q] = "written"
      BY <2>2, Kinds DEF WriteRow, ReadInv, Moves, HasRead, Shape, RequestsShape, ModelRequests
    <3> QED
      BY <2>2, <3>2, <3>3 DEF UpToKeys, Sets, HasRead
  <2> QED
    BY <1>0, <2>1, <2>2, ConfigurationKept
<1> QED
  BY <1>1, <1>2 DEF UpToKeys, Done

LEMMA LostStep ==
  ASSUME Shape, ReadInv, FreshInv, NameInv, LostInv, ModelNext
  PROVE  LostInv'
<1> SUFFICES ASSUME NEW s \in Selections, NEW m \in wrote'[s],
                    Asked[s].add, m \in DOMAIN rows', rows'[m].live,
                    called'[s] \notin rows'[m].bots,
                    ~(called'[s] \in HadNames(DefaultBot)' /\ UpToKeys(m)')
             PROVE  \E t \in Selections \ {s} : Overwrites(t, s, m)'
  BY DEF LostInv, Overwrites, Live, UpToKeys, HadNames, Managed, HasRead
<1>0. /\ DOMAIN wrote = Selections
      /\ \A t \in Selections : wrote[t] \subseteq DOMAIN rows
  BY DEF Shape, SelectionsShape
<1>1. ASSUME NEW t \in Selections \ {s}, m \in wrote[s], Overwrites(t, s, m)
      PROVE  Overwrites(t, s, m)'
  BY <1>1, WroteStays DEF Overwrites
<1>2. CASE m \notin wrote[s]
  <2>1. WriteBots(s, m)
    <3>1. CASE wrote' = wrote
      BY <1>2, <3>1
    <3>2. ASSUME NEW t \in Selections, NEW k, WriteBots(t, k) PROVE t = s /\ k = m
      BY <1>0, <1>2, <3>2 DEF WriteBots
    <3>3. wrote' = wrote \/ \E t \in Selections : \E k \in Asked[t].rows : WriteBots(t, k)
      BY DEF ModelNext, Boot, SeedEntry, BeginSync, SyncRow, BeginProfiles, Halt, RemoveProfile,
             ListModels, ListFails, InsertProfile, AddRow, ReadRow, WriteRow, DeleteRow, BindChat,
             FindBot, RenameBot, ReadBots, selectionVars
    <3> QED
      BY <3>1, <3>2, <3>3
  <2>2. /\ DOMAIN rows' = DOMAIN rows /\ rows'[m]["live"] = rows[m]["live"]
        /\ rows'[m].bots = IF Live(m) THEN WriteOf(s, m) ELSE rows[m].bots
    BY <2>1, WriteBotsRows DEF Columns
  <2>3. called' = called
    BY <2>1 DEF WriteBots
  <2> QED
    BY <2>2, <2>3 DEF Live, WriteOf
<1>3. CASE m \in wrote[s]
  <2>1. m \in DOMAIN rows /\ rows[m].live
    BY <1>0, <1>3, RowsFollowAll DEF RowsFollow
  <2>0. called'[s] = called[s]
    BY <1>3, WroteStays
  <2>2. ~(called[s] \in HadNames(DefaultBot) /\ UpToKeys(m))
    BY <2>0, <2>1, UpToKeysStays, HadNamesStay
  <2>3. CASE called[s] \notin rows[m].bots
    <3>1. PICK t \in Selections \ {s} : Overwrites(t, s, m)
      BY <1>3, <2>1, <2>2, <2>3 DEF LostInv, Live
    <3> QED
      BY <1>1, <1>3, <3>1
  <2>4. CASE called[s] \in rows[m].bots
    <3>1. ASSUME NEW t \in Selections, NEW k, WriteBots(t, k) PROVE t # s /\ Overwrites(t, s, m)'
      <4>1. m = k /\ called[s] \notin WriteOf(t, m)
        BY <2>0, <2>1, <2>4, <3>1, WriteBotsRows
      <4>2. m \notin wrote[t] /\ wrote' = [wrote EXCEPT ![t] = @ \cup {m}] /\ saw' = saw /\ called' = called
        BY <3>1, <4>1 DEF WriteBots
      <4>3. t # s
        BY <1>3, <4>2
      <4> QED
        BY <1>0, <4>1, <4>2, <4>3 DEF Overwrites, WriteOf
    <3>2. CASE SyncRow
      <4>1. m = step /\ Managed(rows[m]) /\ called[s] = name[DefaultBot]
        BY <2>0, <2>1, <2>4, <3>2, SyncRowRows
      <4> QED
        BY <2>2, <4>1, ModelAssumption DEF UpToKeys, NameInv
    <3>3. ASSUME rows'[m].bots = rows[m].bots PROVE FALSE
      BY <2>0, <2>4, <3>3
    <3>4. \/ rows'[m].bots = rows[m].bots \/ SyncRow
          \/ \E t \in Selections : \E k \in Asked[t].rows : WriteBots(t, k)
      <4>1. "bots" \in Columns /\ "bots" \notin {"default", "public", "live"}
        BY DEF Columns
      <4>2. CASE UNCHANGED rows
        BY <4>2
      <4>3. CASE SeedEntry
        BY <2>1, <4>1, <4>3, SeedEntryRows
      <4>4. ASSUME NEW a \in Additions, AddRow(a) PROVE rows'[m].bots = rows[m].bots
        BY <2>1, <4>4, AddRowRows
      <4>5. ASSUME NEW q \in Patches, WriteRow(q) PROVE rows'[m].bots = rows[m].bots
        <5>1. ~Sets(q, "bots")
          BY ModelAssumption DEF Sets
        <5> QED
          BY <2>1, <4>1, <4>5, <5>1, WriteRowRows
      <4>6. ASSUME NEW d \in Removals, DeleteRow(d) PROVE rows'[m].bots = rows[m].bots
        BY <2>1, <4>1, <4>6, DeleteRowRows
      <4> QED
        BY <4>2, <4>3, <4>4, <4>5, <4>6, RowActions
    <3> QED
      BY <3>1, <3>2, <3>3, <3>4
  <2> QED
    BY <2>3, <2>4
<1> QED
  BY <1>2, <1>3

-----------------------------------------------------------------------------
(***************************************************************************)
(* Profiles: a rebuild that has removed one and not yet made another.      *)
(***************************************************************************)
Between(w, b) == Rebuilding(w) /\ where[w] # "pick" /\ BotOf(w) = b

\* While the server starts no request rebuilds a profile.
QuietInv ==
  stage \in {"seeding", "syncing", "profiles"} =>
    \A s \in Selections : where[s] \notin {"list", "insert"}

\* A bot whose rebuilds did not overlap has one profile or a rebuild under way.
OneInv ==
  \A b \in ShownBots \ overlapped :
    /\ OneOf(b)
    /\ \A w \in Rebuilders : Between(w, b) =>
         ProfilesOf(b) = {} /\ \A v \in Rebuilders : Between(v, b) => v = w

LEMMA QuietStep ==
  ASSUME Shape, QuietInv, ModelNext
  PROVE  QuietInv'
<1> SUFFICES ASSUME NEW s \in Selections, stage' \in {"seeding", "syncing", "profiles"},
                    where'[s] \in {"list", "insert"}
             PROVE  FALSE
  BY DEF QuietInv
<1>0. s # Server
  BY WhereFacts
<1>1. CASE where'[s] = where[s] /\ ~Boot
  <2>1. stage = "down" \/ stage = "up"
    BY <1>1 DEF QuietInv, Shape
  <2>2. CASE UNCHANGED stage
    BY <2>1, <2>2
  <2>3. ~ UNCHANGED stage => stage' \in {"down", "up"}
    BY <1>1, <2>1 DEF ModelNext, bootVars, SeedEntry, BeginSync, SyncRow, BeginProfiles, Halt,
       RemoveProfile, ListModels, ListFails, InsertProfile, AddRow, ReadRow, WriteRow, DeleteRow,
       FindBot, RenameBot, ReadBots, WriteBots, BindChat
  <2> QED
    BY <2>1, <2>2, <2>3
<1>2. CASE Boot
  <2>1. s \in DOMAIN where
    BY WhereFacts
  <2> QED
    BY <1>0, <1>2, <2>1 DEF Boot
<1>3. CASE RemoveProfile(s)
  BY <1>0, <1>3 DEF RemoveProfile, Rebuilding, bootVars
<1>4. CASE ListModels(s)
  BY <1>0, <1>4 DEF ListModels, Rebuilding, bootVars
<1> QED
  BY <1>1, <1>2, <1>3, <1>4, SelectionMoves

\* Where the server's own rebuild is, and which start it belongs to.
LEMMA ServerMoves ==
  ASSUME Shape, ModelNext
  PROVE  \/ UNCHANGED <<stage, step>> /\ where'[Server] = where[Server]
         \/ stage' \in {"down", "seeding", "syncing"}
         \/ BeginProfiles /\ where'[Server] = "pick"
         \/ RemoveProfile(Server) /\ where'[Server] = "list" /\ UNCHANGED <<stage, step>>
         \/ ListModels(Server) /\ where'[Server] = "insert" /\ UNCHANGED <<stage, step>>
         \/ InsertProfile(Server) /\ where'[Server] \in {"pick", "over"}
<1>0. Server \in DOMAIN where /\ Server \notin ModelRequests /\ Rebuilders = Selections \cup {Server}
  BY WhereFacts, Kinds
<1>1. CASE Boot \/ SeedEntry \/ BeginSync \/ SyncRow \/ Halt
  BY <1>1 DEF Boot, SeedEntry, BeginSync, SyncRow, Halt
<1>2. CASE BeginProfiles
  BY <1>0, <1>2 DEF BeginProfiles, Moves
<1>3. ASSUME NEW r \in ModelRequests,
             \/ AddRow(r) \/ DeleteRow(r) \/ BindChat(r) \/ ReadRow(r) \/ WriteRow(r)
             \/ FindBot(r) \/ RenameBot(r)
             \/ \E m \in Asked[r].rows : ReadBots(r, m) \/ WriteBots(r, m)
      PROVE  UNCHANGED <<stage, step>> /\ where'[Server] = where[Server]
  BY <1>0, <1>3 DEF AddRow, DeleteRow, BindChat, ReadRow, WriteRow, FindBot, RenameBot, ReadBots, WriteBots, Moves, bootVars
<1>4. ASSUME NEW w \in Selections,
             RemoveProfile(w) \/ ListModels(w) \/ ListFails(w) \/ InsertProfile(w)
      PROVE  UNCHANGED <<stage, step>> /\ where'[Server] = where[Server]
  <2>1. w # Server
    BY WhereFacts
  <2> QED
    BY <1>0, <1>4, <2>1 DEF RemoveProfile, ListModels, ListFails, InsertProfile, Moves, bootVars
<1>5. /\ RemoveProfile(Server) => where'[Server] = "list" /\ UNCHANGED <<stage, step>>
      /\ ListModels(Server) => where'[Server] = "insert" /\ UNCHANGED <<stage, step>>
      /\ ListFails(Server) => stage' = "down"
      /\ InsertProfile(Server) => where'[Server] \in {"pick", "over"}
  BY <1>0 DEF RemoveProfile, ListModels, ListFails, InsertProfile, Moves, bootVars
<1> QED
  BY <1>0, <1>1, <1>2, <1>3, <1>4, <1>5 DEF ModelNext, ModelRequests

\* A rebuild is between its steps only after its first one.
LEMMA BetweenStep ==
  ASSUME Shape, QuietInv, ModelNext, NEW v \in Rebuilders, NEW b, Between(v, b)'
  PROVE  /\ Between(v, b) \/ (RemoveProfile(v) /\ BotOf(v) = b)
         /\ ~InsertProfile(v)
<1>1. CASE v = Server
  <2>1. stage' = "profiles" /\ where'[Server] \in {"list", "insert"} /\ BotList[step'] = b
    BY <1>1 DEF Between, Rebuilding, BotOf
  <2>2. CASE UNCHANGED <<stage, step>> /\ where'[Server] = where[Server]
    <3>1. Between(v, b)
      BY <1>1, <2>1, <2>2 DEF Between, Rebuilding, BotOf
    <3>2. ~InsertProfile(v)
      <4>1. Server \in DOMAIN where
        BY WhereFacts
      <4> QED
        BY <1>1, <2>1, <2>2, <4>1 DEF InsertProfile, Moves
    <3> QED
      BY <3>1, <3>2
  <2>3. CASE RemoveProfile(Server) /\ UNCHANGED <<stage, step>>
    BY <1>1, <2>1, <2>3 DEF BotOf, RemoveProfile, InsertProfile
  <2>4. CASE ListModels(Server) /\ UNCHANGED <<stage, step>>
    BY <1>1, <2>1, <2>4 DEF Between, Rebuilding, BotOf, ListModels, InsertProfile
  <2> QED
    BY <2>1, <2>2, <2>3, <2>4, ServerMoves
<1>2. CASE v # Server
  <2>0. v \in Selections /\ v \in DOMAIN where
    BY <1>2, WhereFacts
  <2>1. stage' = "up" /\ where'[v] \in {"list", "insert"} /\ Asked[v].bot = b /\ BotOf(v) = b
    BY <1>2 DEF Between, Rebuilding, BotOf
  <2>2. CASE where'[v] = where[v]
    <3>1. ~InsertProfile(v)
      BY <1>2, <2>0, <2>1, <2>2 DEF InsertProfile, Moves
    <3>2. stage \notin {"down", "seeding", "syncing", "profiles"}
      <4>1. stage # "down" /\ stage # "seeding" /\ stage # "syncing"
        BY <2>1 DEF ModelNext, bootVars, Boot, SeedEntry, BeginSync, SyncRow, BeginProfiles, Halt,
           RemoveProfile, ListModels, ListFails, InsertProfile, AddRow, ReadRow, WriteRow,
           DeleteRow, FindBot, RenameBot, ReadBots, WriteBots, BindChat, Comes, Rebuilding
      <4> QED
        BY <2>0, <2>1, <2>2, <4>1 DEF QuietInv
    <3> QED
      BY <1>2, <2>1, <2>2, <3>1, <3>2 DEF Between, Rebuilding, Shape
  <2>3. CASE RemoveProfile(v)
    BY <2>1, <2>3 DEF RemoveProfile, InsertProfile
  <2>4. CASE ListModels(v)
    BY <1>2, <2>1, <2>4 DEF Between, Rebuilding, ListModels, InsertProfile
  <2>5. ~(Boot /\ where'[v] \in {"new", "over"})
    BY <2>1
  <2> QED
    BY <2>0, <2>1, <2>2, <2>3, <2>4, <2>5, SelectionMoves
<1> QED
  BY <1>1, <1>2

LEMMA ProfilesKept ==
  ASSUME ModelNext
  PROVE  UNCHANGED profiles \/ \E w \in Rebuilders : RemoveProfile(w) \/ InsertProfile(w)
BY DEF ModelNext, Boot, SeedEntry, BeginSync, SyncRow, BeginProfiles, Halt, ListModels, ListFails,
       AddRow, ReadRow, WriteRow, DeleteRow, FindBot, RenameBot, ReadBots, WriteBots, BindChat

LEMMA OneStep ==
  ASSUME Shape, QuietInv, OneInv, ModelNext
  PROVE  OneInv'
<1> SUFFICES ASSUME NEW b \in ShownBots, b \notin overlapped'
             PROVE  /\ OneOf(b)'
                    /\ \A w \in Rebuilders : Between(w, b)' =>
                         ProfilesOf(b)' = {} /\ \A v \in Rebuilders : Between(v, b)' => v = w
  BY DEF OneInv, OneOf, ProfilesOf
<1>0. overlapped \subseteq overlapped'
  BY DEF ModelNext, Boot, SeedEntry, BeginSync, SyncRow, BeginProfiles, Halt, RemoveProfile,
     ListModels, ListFails, InsertProfile, AddRow, ReadRow, WriteRow, DeleteRow, FindBot, RenameBot,
     ReadBots, WriteBots, BindChat
<1>1. /\ OneOf(b)
      /\ \A w \in Rebuilders : Between(w, b) =>
           ProfilesOf(b) = {} /\ \A v \in Rebuilders : Between(v, b) => v = w
  BY <1>0 DEF OneInv
<1>2. CASE \A w \in Rebuilders : ~RemoveProfile(w) /\ ~InsertProfile(w)
  <2>1. UNCHANGED profiles
    BY <1>2, ProfilesKept
  <2>2. \A v \in Rebuilders : Between(v, b)' => Between(v, b)
    BY <1>2, BetweenStep
  <2> QED
    BY <1>1, <2>1, <2>2 DEF OneOf, ProfilesOf
<1>3. ASSUME NEW w \in Rebuilders, RemoveProfile(w)
      PROVE  /\ OneOf(b)'
             /\ \A x \in Rebuilders : Between(x, b)' =>
                  ProfilesOf(b)' = {} /\ \A v \in Rebuilders : Between(v, b)' => v = x
  <2>1. \A v \in Rebuilders : RemoveProfile(v) => v = w
    <3>1. \A v \in Rebuilders : v \in DOMAIN where
      BY WhereFacts
    <3> QED
      BY <1>3, <3>1 DEF RemoveProfile, Moves
  <2>2. \A v \in Rebuilders : Between(v, b)' => Between(v, b) \/ v = w
    BY <2>1, BetweenStep
  <2>3. OneOf(b)' /\ (b = BotOf(w) => ProfilesOf(b)' = {})
    BY <1>1, <1>3, RemoveProfileProfiles
  <2>4. CASE b = BotOf(w)
    <3>1. \A v \in Rebuilders : Between(v, b) => v = w
      BY <1>3, <2>4 DEF RemoveProfile, Between
    <3> QED
      BY <2>2, <2>3, <2>4, <3>1
  <2>5. CASE b # BotOf(w)
    <3>1. \A v \in Rebuilders : Between(v, b)' => Between(v, b)
      BY <2>1, <2>5, BetweenStep
    <3>2. ProfilesOf(b) = {} => ProfilesOf(b)' = {}
      BY <1>3, RemoveProfileProfiles DEF ProfilesOf
    <3> QED
      BY <1>1, <2>3, <3>1, <3>2
  <2> QED
    BY <2>4, <2>5
<1>4. ASSUME NEW w \in Rebuilders, InsertProfile(w)
      PROVE  /\ OneOf(b)'
             /\ \A x \in Rebuilders : Between(x, b)' =>
                  ProfilesOf(b)' = {} /\ \A v \in Rebuilders : Between(v, b)' => v = x
  <2> DEFINE n == Len(profiles) + 1
  <2>1. Between(w, BotOf(w))
    BY <1>4 DEF InsertProfile, Between
  <2>2. \A v \in Rebuilders : Between(v, b)' => Between(v, b) /\ v # w
    <3>1. \A v \in Rebuilders : v \in DOMAIN where
      BY WhereFacts
    <3>2. \A v \in Rebuilders \ {w} : ~RemoveProfile(v)
      BY <1>4, <3>1 DEF RemoveProfile, InsertProfile, Moves
    <3> QED
      BY <1>4, <3>2, BetweenStep
  <2>3. /\ n \in DOMAIN profiles' /\ profiles'[n].bot = BotOf(w)
        /\ \A j \in DOMAIN profiles' :
             (j \in DOMAIN profiles /\ profiles'[j] = profiles[j]) \/ j = n
    <3>1. /\ n \in DOMAIN profiles' /\ profiles'[n] = [bot |-> BotOf(w), models |-> listed[w]]
          /\ \A j \in DOMAIN profiles' :
               (j \in DOMAIN profiles /\ profiles'[j] = profiles[j]) \/ j = n
      BY <1>4, InsertProfileProfiles
    <3> QED
      BY <3>1
  <2> HIDE DEF n
  <2>4. CASE b = BotOf(w)
    <3>1. ProfilesOf(b) = {} /\ \A v \in Rebuilders : ~Between(v, b)'
      BY <1>1, <2>1, <2>2, <2>4
    <3>2. OneOf(b)'
      BY <2>3, <3>1 DEF OneOf, ProfilesOf
    <3> QED
      BY <3>1, <3>2
  <2>5. CASE b # BotOf(w)
    <3>1. ProfilesOf(b)' \subseteq ProfilesOf(b)
      BY <2>3, <2>5 DEF ProfilesOf
    <3> QED
      BY <1>1, <2>2, <3>1 DEF OneOf
  <2> QED
    BY <2>4, <2>5
<1> QED
  BY <1>2, <1>3, <1>4

-----------------------------------------------------------------------------
(***************************************************************************)
(* Starts: what is done when the server comes to the entry, row or bot     *)
(* that it is at.                                                          *)
(***************************************************************************)
Ready(i) ==
  \E m \in Seeded(Catalogue[i]) : rows[m].default /\ (rows[m].public \/ ~Catalogue[i].public)

KeysHold(m) ==
  Managed(rows[m]) => (name[DefaultBot] \in rows[m].bots <=> rows[m].backend \in keys)

Shows(b) ==
  \E i \in DOMAIN profiles :
    profiles[i].bot = b /\ profiles[i].models \cap DOMAIN rows = AssignedTo(name[b])

CatalogueInv ==
  /\ stage = "seeding" => \A i \in DOMAIN Catalogue : i < step => Ready(i)
  /\ stage \in {"syncing", "profiles"} => \A i \in DOMAIN Catalogue : Ready(i)
  /\ stage = "syncing" => \A m \in DOMAIN rows : m < step => KeysHold(m)
  /\ stage = "profiles" => \A m \in DOMAIN rows : KeysHold(m)

ShownInv ==
  stage = "profiles" =>
    /\ \A i \in DOMAIN BotList : i < step =>
         \/ Shows(BotList[i])
         \/ BotList[i] = BotList[step] /\ where[Server] \in {"list", "insert"}
    /\ where[Server] = "insert" => listed[Server] \cap DOMAIN rows = AssignedTo(name[BotList[step]])

\* What the server does in each stage.
LEMMA StageActions ==
  ASSUME Shape, ModelNext, stage \notin {"down", "up"}
  PROVE  \/ SeedEntry \/ BeginSync \/ SyncRow \/ BeginProfiles \/ Halt
         \/ RemoveProfile(Server) \/ ListModels(Server) \/ ListFails(Server) \/ InsertProfile(Server)
<1>1. \A w \in Selections : ~Rebuilding(w)
  BY WhereFacts DEF Rebuilding
<1> QED
  <2>1. /\ ~Boot
        /\ \A r : /\ ~AddRow(r) /\ ~ReadRow(r) /\ ~WriteRow(r) /\ ~DeleteRow(r) /\ ~BindChat(r)
                  /\ ~FindBot(r) /\ ~RenameBot(r)
                  /\ \A m : ~ReadBots(r, m) /\ ~WriteBots(r, m)
    BY DEF Boot, AddRow, ReadRow, WriteRow, DeleteRow, BindChat, FindBot, RenameBot, ReadBots, WriteBots, Comes
  <2>2. \A w \in Selections :
          ~RemoveProfile(w) /\ ~ListModels(w) /\ ~ListFails(w) /\ ~InsertProfile(w)
    BY <1>1 DEF RemoveProfile, ListModels, ListFails, InsertProfile
  <2> QED
    BY <2>1, <2>2 DEF ModelNext, Rebuilders

LEMMA CatalogueStep ==
  ASSUME Shape, CatalogueInv, ModelNext
  PROVE  CatalogueInv'
<1>0. /\ stage' \in {"down", "up"} \/ Boot \/ stage \notin {"down", "up"}
  BY DEF ModelNext, bootVars, SeedEntry, BeginSync, SyncRow, BeginProfiles, Halt,
     RemoveProfile, ListModels, ListFails, InsertProfile, AddRow, ReadRow, WriteRow, DeleteRow,
     FindBot, RenameBot, ReadBots, WriteBots, BindChat, Shape
<1>1. CASE stage' \in {"down", "up"}
  BY <1>1 DEF CatalogueInv
<1>2. CASE Boot
  <2>1. stage' = "seeding" /\ step' = 1
    BY <1>2 DEF Boot
  <2> QED
    BY <2>1, CatalogueFacts DEF CatalogueInv
<1>3. CASE stage = "seeding" /\ SeedEntry
  <2>1. stage' = "seeding" /\ step' = step + 1 /\ step \in 1 .. Len(Catalogue)
    BY <1>3, CatalogueFacts DEF SeedEntry, Shape
  <2>2. ASSUME NEW i \in DOMAIN Catalogue, i = step PROVE Ready(i)'
    BY <1>3, <2>2, SeedEntryRows DEF Ready, Seeded, Live
  <2>3. ASSUME NEW i \in DOMAIN Catalogue, i < step PROVE Ready(i)'
    <3>1. PICK m \in Seeded(Catalogue[i]) :
            rows[m].default /\ (rows[m].public \/ ~Catalogue[i].public)
      BY <1>3, <2>3 DEF CatalogueInv, Ready
    <3>2. /\ m \in DOMAIN rows /\ "live" \in Columns \ {"default", "public"}
          /\ "owner" \in Columns \ {"default", "public"} /\ "id" \in Columns \ {"default", "public"}
      BY <3>1 DEF Seeded, Live, Columns
    <3>3. /\ m \in DOMAIN rows' /\ rows'[m].live = rows[m].live /\ rows'[m].owner = rows[m].owner
          /\ rows'[m].id = rows[m].id /\ (rows[m].default => rows'[m].default)
          /\ rows[m].public => rows'[m].public
      BY <1>3, <3>2, SeedEntryRows
    <3> QED
      BY <3>1, <3>3 DEF Ready, Seeded, Live
  <2>4. \A i \in DOMAIN Catalogue : i < step' => i < step \/ i = step
    BY <2>1, CatalogueFacts
  <2> QED
    BY <2>1, <2>2, <2>3, <2>4 DEF CatalogueInv
<1>4. CASE stage = "seeding" /\ BeginSync
  <2>1. /\ stage' = "syncing" /\ step' = 1 /\ step > Len(Catalogue) /\ rows' = rows
        /\ step \in Nat
    BY <1>4 DEF BeginSync, Shape
  <2>2. \A i \in DOMAIN Catalogue : i < step
    BY <2>1, CatalogueFacts
  <2>3. DOMAIN rows \subseteq Nat \ {0}
    BY SeqDomain DEF Shape, RowsShape
  <2> QED
    BY <1>4, <2>1, <2>2, <2>3 DEF CatalogueInv, Ready, Seeded, Live
<1>5. CASE stage = "syncing" /\ SyncRow
  <2>0. /\ stage' = "syncing" /\ step' = step + 1 /\ keys' = keys
        /\ name' = name /\ DOMAIN rows' = DOMAIN rows /\ step \in DOMAIN rows
    BY <1>5, SyncRowRows DEF SyncRow
  <2>1. \A m \in DOMAIN rows :
          /\ rows'[m].live = rows[m].live /\ rows'[m].owner = rows[m].owner
          /\ rows'[m].id = rows[m].id /\ rows'[m].default = rows[m].default
          /\ rows'[m].public = rows[m].public /\ rows'[m].backend = rows[m].backend
    <3>1. {"live", "owner", "id", "default", "public", "backend"} \subseteq Columns \ {"bots"}
      BY DEF Columns
    <3> QED
      BY <1>5, <3>1, SyncRowRows
  <2>2. \A i \in DOMAIN Catalogue : Ready(i)'
    BY <1>5, <2>0, <2>1 DEF CatalogueInv, Ready, Seeded, Live
  <2>3. ASSUME NEW m \in DOMAIN rows, m # step, KeysHold(m) PROVE KeysHold(m)'
    <3>1. rows'[m].bots = rows[m].bots
      BY <1>5, <2>3, SyncRowRows
    <3> QED
      BY <2>0, <2>1, <2>3, <3>1 DEF KeysHold, Managed
  <2>4. ASSUME NEW m \in DOMAIN rows, m = step PROVE KeysHold(m)'
    <3>1. Managed(rows[m]) => rows'[m].bots = IF rows[m].backend \in keys
                                              THEN rows[m].bots \cup {name[DefaultBot]}
                                              ELSE rows[m].bots \ {name[DefaultBot]}
      BY <1>5, <2>4, SyncRowRows
    <3> QED
      BY <2>0, <2>1, <3>1 DEF KeysHold, Managed
  <2>5. \A m \in DOMAIN rows : m < step' => m < step \/ m = step
    <3>1. step \in Nat /\ DOMAIN rows \subseteq Nat
      BY SeqDomain DEF Shape, RowsShape
    <3> QED
      BY <2>0, <3>1
  <2>6. \A m \in DOMAIN rows' : m < step' => KeysHold(m)'
    BY <1>5, <2>0, <2>3, <2>4, <2>5 DEF CatalogueInv, Shape
  <2> QED
    BY <2>0, <2>2, <2>6 DEF CatalogueInv
<1>6. CASE stage = "syncing" /\ BeginProfiles
  <2>1. /\ stage' = "profiles" /\ step > Len(rows) /\ rows' = rows /\ keys' = keys
        /\ name' = name /\ step \in Nat
    BY <1>6 DEF BeginProfiles, Shape
  <2>2. \A m \in DOMAIN rows : m < step
    BY <2>1, SeqDomain DEF Shape, RowsShape
  <2> QED
    BY <1>6, <2>1, <2>2 DEF CatalogueInv, Ready, Seeded, Live, KeysHold, Managed
<1>7. CASE stage = "profiles" /\ (RemoveProfile(Server) \/ ListModels(Server) \/ InsertProfile(Server))
  <2>1. rows' = rows /\ keys' = keys /\ name' = name /\ stage' \in {"profiles", "up"}
    BY <1>7 DEF RemoveProfile, ListModels, InsertProfile, bootVars
  <2> QED
    BY <1>7, <2>1 DEF CatalogueInv, Ready, Seeded, Live, KeysHold, Managed
<1>8. CASE stage \notin {"down", "up"} /\ stage' \notin {"down", "up"}
  <2>1. ~Halt /\ ~ListFails(Server)
    BY <1>8 DEF Halt, ListFails
  <2>2. /\ SeedEntry => stage = "seeding"
        /\ BeginSync => stage = "seeding"
        /\ SyncRow => stage = "syncing"
        /\ BeginProfiles => stage = "syncing"
        /\ RemoveProfile(Server) \/ ListModels(Server) \/ InsertProfile(Server) => stage = "profiles"
    BY DEF SeedEntry, BeginSync, SyncRow, BeginProfiles, RemoveProfile, ListModels, InsertProfile,
       Rebuilding
  <2> QED
    BY <1>3, <1>4, <1>5, <1>6, <1>7, <1>8, <2>1, <2>2, StageActions
<1> QED
  BY <1>0, <1>1, <1>2, <1>8

\* The server's own rebuild gives its bot a profile of what it is assigned.
LEMMA ServerInserts ==
  ASSUME Shape, ShownInv, InsertProfile(Server)
  PROVE  \A i \in DOMAIN BotList : i <= step => Shows(BotList[i])'
<1> DEFINE b == BotList[step]
           n == Len(profiles) + 1
           Same(c) == \E j \in DOMAIN profiles' :
                        profiles'[j].bot = c /\ profiles'[j].models \cap DOMAIN rows = AssignedTo(name[c])
<1>0. Server \in Rebuilders
  BY DEF Rebuilders
<1>1. /\ stage = "profiles" /\ where[Server] = "insert" /\ BotOf(Server) = b
      /\ rows' = rows /\ name' = name
  BY DEF InsertProfile, Rebuilding, BotOf
<1>2. listed[Server] \cap DOMAIN rows = AssignedTo(name[b])
  BY <1>1 DEF ShownInv
<1>3. /\ n \in DOMAIN profiles' /\ profiles'[n].bot = b /\ profiles'[n].models = listed[Server]
      /\ \A i \in DOMAIN profiles : \E j \in DOMAIN profiles' : profiles'[j] = profiles[i]
  <2>1. n \in DOMAIN profiles' /\ profiles'[n] = [bot |-> BotOf(Server), models |-> listed[Server]]
    BY <1>0, InsertProfileProfiles
  <2> QED
    BY <1>0, <1>1, <2>1, InsertProfileProfiles DEF StillThere
<1> HIDE DEF n
<1>4. Same(b)
  BY <1>2, <1>3
<1>5. ASSUME NEW i \in DOMAIN BotList, i <= step PROVE Same(BotList[i])
  <2>1. i = step \/ i < step
    BY <1>5, BotListFacts DEF Shape
  <2>2. CASE i = step
    BY <1>4, <2>2
  <2>3. CASE i < step
    <3>1. Shows(BotList[i]) \/ BotList[i] = b
      BY <1>1, <2>3 DEF ShownInv
    <3> QED
      BY <1>3, <1>4, <3>1 DEF Shows
  <2> QED
    BY <2>1, <2>2, <2>3
<1> QED
  BY <1>1, <1>5 DEF Shows, AssignedTo, Live

LEMMA ShownStep ==
  ASSUME Shape, ShownInv, ModelNext
  PROVE  ShownInv'
<1> SUFFICES ASSUME stage' = "profiles" PROVE ShownInv'
  BY DEF ShownInv
<1>0. Server \in Rebuilders /\ Server \in DOMAIN where
  BY WhereFacts
<1>1. CASE BeginProfiles
  <2>1. step' = 1 /\ where'[Server] = "pick"
    BY <1>0, <1>1 DEF BeginProfiles, Moves
  <2> QED
    BY <2>1, BotListFacts DEF ShownInv
<1>2. CASE stage = "profiles" /\ RemoveProfile(Server)
  <2>1. /\ rows' = rows /\ name' = name /\ step' = step /\ where[Server] = "pick" /\ where'[Server] = "list"
        /\ BotOf(Server) = BotList[step]
    BY <1>0, <1>2 DEF RemoveProfile, Moves, bootVars, BotOf
  <2>2. ASSUME NEW i \in DOMAIN BotList, i < step, BotList[i] # BotList[step]
        PROVE  Shows(BotList[i])'
    <3>1. PICK k \in DOMAIN profiles :
            /\ profiles[k].bot = BotList[i]
            /\ profiles[k].models \cap DOMAIN rows = AssignedTo(name[BotList[i]])
      BY <1>2, <2>1, <2>2 DEF ShownInv, Shows
    <3>2. PICK j \in DOMAIN profiles' : profiles'[j] = profiles[k]
      BY <1>0, <1>2, <2>1, <2>2, <3>1, RemoveProfileProfiles
    <3> QED
      BY <2>1, <3>1, <3>2 DEF Shows, AssignedTo, Live
  <2> QED
    BY <2>1, <2>2 DEF ShownInv
<1>3. CASE stage = "profiles" /\ ListModels(Server)
  <2>1. /\ rows' = rows /\ name' = name /\ step' = step /\ profiles' = profiles /\ where[Server] = "list"
        /\ where'[Server] = "insert" /\ BotOf(Server) = BotList[step]
    BY <1>0, <1>3 DEF ListModels, Moves, bootVars, BotOf
  <2>2. listed'[Server] \cap DOMAIN rows = AssignedTo(name[BotList[step]])
    <3>1. \/ listed'[Server] = {0} /\ AssignedTo(name[BotList[step]]) = {}
          \/ listed'[Server] = AssignedTo(name[BotList[step]])
      BY <1>0, <1>3, <2>1 DEF ListModels, NameFor, Shape, ProfilesShape
    <3>2. 0 \notin DOMAIN rows /\ AssignedTo(name[BotList[step]]) \subseteq DOMAIN rows
      BY SeqDomain DEF Shape, RowsShape, AssignedTo, Live
    <3> QED
      BY <3>1, <3>2
  <2> QED
    BY <1>3, <2>1, <2>2 DEF ShownInv, Shows, AssignedTo, Live
<1>4. CASE stage = "profiles" /\ InsertProfile(Server)
  <2>1. step' = step + 1 /\ where'[Server] \in {"pick", "over"}
    BY <1>0, <1>4 DEF InsertProfile, Moves
  <2>2. \A i \in DOMAIN BotList : i < step' => i <= step
    BY <2>1, BotListFacts DEF Shape
  <2>3. \A i \in DOMAIN BotList : i < step' => Shows(BotList[i])'
    BY <1>4, <2>2, ServerInserts
  <2> QED
    BY <2>1, <2>3 DEF ShownInv
<1>5. \/ BeginProfiles
      \/ stage = "profiles" /\ (RemoveProfile(Server) \/ ListModels(Server) \/ InsertProfile(Server))
  <2>1. stage \notin {"down", "up"}
    BY DEF ModelNext, bootVars, Boot, SeedEntry, BeginSync, SyncRow, BeginProfiles, Halt,
     RemoveProfile, ListModels, ListFails, InsertProfile, AddRow, ReadRow, WriteRow, DeleteRow,
     FindBot, RenameBot, ReadBots, WriteBots, BindChat, Comes, Rebuilding
  <2>2. ~SeedEntry /\ ~BeginSync /\ ~SyncRow /\ ~Halt /\ ~ListFails(Server)
    BY DEF SeedEntry, BeginSync, SyncRow, Halt, ListFails
  <2>3. RemoveProfile(Server) \/ ListModels(Server) \/ InsertProfile(Server) => stage = "profiles"
    BY DEF RemoveProfile, ListModels, InsertProfile, Rebuilding
  <2> QED
    BY <2>1, <2>2, <2>3, StageActions
<1> QED
  BY <1>1, <1>2, <1>3, <1>4, <1>5

\* A bot whose profile is gone has a rebuild that is to make another.
LEMMA ThereStep ==
  ASSUME Shape, ShownInv, ProfileThere, ModelNext
  PROVE  ProfileThere'
<1> DEFINE Waits(s, b) == Asked[s].bot = b /\ where[s] \in {"list", "insert", "failed"}
<1> SUFFICES ASSUME stage' = "up", NEW b \in ShownBots
             PROVE  ProfilesOf(b)' # {} \/ \E s \in Selections : Waits(s, b)'
  BY DEF ProfileThere, ProfilesOf
<1>0. Server \in Rebuilders /\ Selections \subseteq Rebuilders /\ Server \notin Selections
  BY WhereFacts
<1>1. CASE stage # "up"
  <2>1. InsertProfile(Server) /\ step = Len(BotList)
    BY <1>1 DEF ModelNext, bootVars, Boot, SeedEntry, BeginSync, SyncRow, BeginProfiles, Halt,
     RemoveProfile, ListModels, ListFails, InsertProfile, AddRow, ReadRow, WriteRow, DeleteRow,
     FindBot, RenameBot, ReadBots, WriteBots, BindChat
  <2>2. PICK i \in DOMAIN BotList : BotList[i] = b
    BY DEF ShownBots
  <2>3. Shows(BotList[i])'
    BY <2>1, <2>2, BotListFacts, ServerInserts
  <2>4. \E j \in DOMAIN profiles' : profiles'[j].bot = b
    BY <2>2, <2>3 DEF Shows
  <2> QED
    BY <2>4 DEF ProfilesOf
<1>2. CASE stage = "up"
  <2>1. ~Boot /\ \A w \in Rebuilders : RemoveProfile(w) \/ InsertProfile(w) => w \in Selections
    BY <1>0, <1>2 DEF Boot, RemoveProfile, InsertProfile, Rebuilding, Rebuilders
  <2>2. ASSUME NEW s \in Selections, Waits(s, b), ~InsertProfile(s) PROVE Waits(s, b)'
    <3>1. ~RemoveProfile(s) /\ ~FindBot(s) /\ \A m : ~ReadBots(s, m) /\ ~WriteBots(s, m)
        BY <2>2 DEF RemoveProfile, FindBot, ReadBots, WriteBots, Comes
    <3> QED
      BY <2>1, <2>2, <3>1, SelectionMoves
  <2>3. ASSUME NEW s \in Selections, InsertProfile(s), Asked[s].bot = b PROVE ProfilesOf(b)' # {}
    <3>1. BotOf(s) = b
      BY <1>0, <2>3 DEF BotOf
    <3>2. profiles'[Len(profiles) + 1].bot = b /\ Len(profiles) + 1 \in DOMAIN profiles'
      <4>1. /\ Len(profiles) + 1 \in DOMAIN profiles'
            /\ profiles'[Len(profiles) + 1] = [bot |-> BotOf(s), models |-> listed[s]]
        BY <1>0, <2>3, InsertProfileProfiles
      <4> QED
        BY <3>1, <4>1
    <3> QED
      BY <3>2 DEF ProfilesOf
  <2>4. CASE \E s \in Selections : Waits(s, b)
    BY <2>2, <2>3, <2>4
  <2>5. ASSUME NEW s \in Selections, RemoveProfile(s), ProfilesOf(b) # {}
        PROVE  ProfilesOf(b)' # {} \/ \E t \in Selections : Waits(t, b)'
    <3>1. CASE BotOf(s) = b
      <4>1. where'[s] = "list" /\ Asked[s].bot = b
        BY <1>0, <2>5, <3>1, WhereFacts DEF RemoveProfile, Moves, BotOf
      <4> QED
        BY <4>1
    <3>2. CASE BotOf(s) # b
      <4>1. PICK i \in DOMAIN profiles : profiles[i].bot = b
        BY <2>5 DEF ProfilesOf
      <4>2. \E j \in DOMAIN profiles' : profiles'[j] = profiles[i]
        BY <1>0, <2>5, <3>2, <4>1, RemoveProfileProfiles
      <4> QED
        BY <4>1, <4>2 DEF ProfilesOf
    <3> QED
      BY <3>1, <3>2
  <2>6. ASSUME NEW s \in Selections, InsertProfile(s), ProfilesOf(b) # {} PROVE ProfilesOf(b)' # {}
    <3>1. PICK i \in DOMAIN profiles : profiles[i].bot = b
      BY <2>6 DEF ProfilesOf
    <3>2. \E j \in DOMAIN profiles' : profiles'[j] = profiles[i]
      BY <1>0, <2>6, InsertProfileProfiles DEF StillThere
    <3> QED
      BY <3>1, <3>2 DEF ProfilesOf
  <2>7. CASE ProfilesOf(b) # {}
    <3>1. CASE UNCHANGED profiles
      BY <2>7, <3>1 DEF ProfilesOf
    <3> QED
      BY <2>1, <2>5, <2>6, <2>7, <3>1, ProfilesKept
  <2> QED
    BY <1>2, <2>4, <2>7 DEF ProfileThere
<1> QED
  BY <1>1, <1>2

-----------------------------------------------------------------------------
(***************************************************************************)
(* Together.                                                               *)
(***************************************************************************)
ModelInv ==
  /\ Shape
  /\ ReadInv /\ MismatchInv /\ BoundInv
  /\ FreshInv /\ NameInv /\ LostInv
  /\ QuietInv /\ OneInv
  /\ CatalogueInv /\ ShownInv /\ ProfileThere

LEMMA ModelInvInit == ModelInit => ModelInv
<1> SUFFICES ASSUME ModelInit PROVE ModelInv
  OBVIOUS
<1>1. DOMAIN rows = {} /\ DOMAIN profiles = {} /\ stage = "down"
  BY EmptyIsSeq DEF ModelInit
<1>2. \A q \in Patches : where[q] = "new" /\ ~HasRead(q)
  BY Kinds DEF ModelInit, HasRead, ModelRequests
<1>3. /\ \A c \in Starters : bound[c] = NoOne
      /\ \A s \in Selections : wrote[s] = {}
  BY DEF ModelInit
<1>4. \A w \in Rebuilders : ~Rebuilding(w)
  BY <1>1 DEF Rebuilding
<1>5. FreshInv /\ NameInv
  BY DEF ModelInit, FreshInv, NameInv, HadNames
<1> QED
  BY <1>1, <1>2, <1>3, <1>4, <1>5, ShapeInit DEF ModelInv, ReadInv, MismatchInv, BoundInv, LostInv,
     QuietInv, OneInv, OneOf, ProfilesOf, Between, CatalogueInv, ShownInv, ProfileThere

LEMMA ModelInvStep == ModelInv /\ [ModelNext]_modelVars => ModelInv'
<1> SUFFICES ASSUME ModelInv, [ModelNext]_modelVars PROVE ModelInv'
  OBVIOUS
<1>1. CASE ModelNext
  BY <1>1, ShapeStep, ReadStep, MismatchStep, BoundStep, FreshStep, NameStep, LostStep, QuietStep, OneStep,
     CatalogueStep, ShownStep, ThereStep DEF ModelInv
<1>2. CASE UNCHANGED modelVars
  <2> USE <1>2 DEF ModelInv, modelVars
  <2>1. Shape' = Shape
    BY DEF Shape, RowsShape, ProfilesShape, RequestsShape, SelectionsShape
  <2>2. ReadInv'
    BY DEF ReadInv, HasRead
  <2>3. MismatchInv'
    BY DEF MismatchInv, Cause, Done, HasRead
  <2>4. BoundInv'
    BY DEF BoundInv, Done, HasRead
  <2>5. LostInv' /\ FreshInv' /\ NameInv'
    BY DEF LostInv, FreshInv, NameInv, Overwrites, HadNames, UpToKeys, HasRead, Live
  <2>6. QuietInv'
    BY DEF QuietInv
  <2>7. OneInv'
    BY DEF OneInv, OneOf, ProfilesOf, Between, Rebuilding, BotOf
  <2>8. CatalogueInv' /\ ShownInv' /\ ProfileThere'
    BY DEF CatalogueInv, Ready, Seeded, Live, KeysHold, Managed, ShownInv, Shows, AssignedTo,
       ProfileThere, ProfilesOf
  <2> QED
    BY <2>1, <2>2, <2>3, <2>4, <2>5, <2>6, <2>7, <2>8
<1> QED
  BY <1>1, <1>2

\* Every step of a start or of a request (SeedModelCatalogue, ModelsHandler)
\* keeps the invariant.
THEOREM ModelInvariant == ModelSpec => []ModelInv
<1> QED
  BY ModelInvInit, ModelInvStep, PTL DEF ModelSpec

LEMMA InvLoses == ModelInv => OnlyOverlapLoses
<1> SUFFICES ASSUME ModelInv PROVE OnlyOverlapLoses
  OBVIOUS
<1> USE DEF ModelInv
<1>1. ModelTypeOK
  BY DEF ModelTypeOK, Shape, RowsShape, ProfilesShape
<1>2. MismatchNeedsOverlap
  <2> SUFFICES ASSUME NEW m \in DOMAIN rows, rows[m].model # rows[m].id
               PROVE  CheckedAgainst(rows[m], rows[m].model)
    BY DEF MismatchNeedsOverlap
  <2>1. PICK q \in Patches : Cause(q, m)
    BY DEF MismatchInv
  <2> QED
    BY <2>1 DEF Cause, Done, CheckedAgainst
<1>3. BoundAsAsked
  BY DEF BoundInv, BoundAsAsked, Done
<1>4. OneProfile
  <2> SUFFICES ASSUME NEW b \in ShownBots, b \notin overlapped
               PROVE  Cardinality(ProfilesOf(b)) <= 1
    BY DEF OneProfile
  <2>1. OneOf(b)
    BY DEF OneInv
  <2>2. CASE ProfilesOf(b) = {}
    BY <2>2, FS_EmptySet
  <2>3. CASE ProfilesOf(b) # {}
    <3>1. PICK i : ProfilesOf(b) = {i}
      BY <2>1, <2>3 DEF OneOf
    <3> QED
      BY <3>1, FS_Singleton
  <2> QED
    BY <2>2, <2>3
<1>5. LostToOverlap
  BY DEF LostToOverlap, LostInv, Overwrites, AssignedTo, Live
<1> QED
  BY <1>1, <1>2, <1>3, <1>4, <1>5 DEF OnlyOverlapLoses

\* Rows, lists and profiles are as they were asked for, but for what requests
\* that overlapped did to each other (ModelsHandler, CreateOrUpdateBotProfile)
\* and what goes by a bot's name (AssignedToBot, BotsHandler.Update), for any
\* number of models, bots, names, requests and starts.
THEOREM OnlyOverlaps == ModelSpec => []OnlyOverlapLoses
<1> QED
  BY ModelInvariant, InvLoses, PTL

\* A start, whatever it found and however many before it were cut off, ends
\* with the catalogue seeded, the default bot's models as the keys say, and a
\* profile of every bot (SeedModelCatalogue and what server.go does after it).
THEOREM StartsReady == ModelSpec => CatalogueReady
<1> DEFINE A == (stage = "profiles" /\ stage' = "up") =>
     /\ \A i \in DOMAIN Catalogue : \E m \in Seeded(Catalogue[i]) :
          rows[m].default /\ (rows[m].public \/ ~Catalogue[i].public)
     /\ \A m \in DOMAIN rows :
          Managed(rows[m]) => (name[DefaultBot] \in rows[m].bots <=> rows[m].backend \in keys)
     /\ \A b \in ShownBots : \E i \in DOMAIN profiles' :
          /\ profiles'[i].bot = b
          /\ profiles'[i].models \cap DOMAIN rows = AssignedTo(name[b])
<1>1. ModelInv /\ [ModelNext]_modelVars => [A]_modelVars
  <2> SUFFICES ASSUME ModelInv, ModelNext, stage = "profiles", stage' = "up" PROVE A
    BY DEF modelVars
  <2> USE DEF ModelInv
  <2>1. InsertProfile(Server) /\ step = Len(BotList)
    BY DEF ModelNext, bootVars, Boot, SeedEntry, BeginSync, SyncRow, BeginProfiles, Halt,
     RemoveProfile, ListModels, ListFails, InsertProfile, AddRow, ReadRow, WriteRow, DeleteRow,
     FindBot, RenameBot, ReadBots, WriteBots, BindChat
  <2>2. rows' = rows /\ name' = name
    BY <2>1 DEF InsertProfile
  <2>3. ASSUME NEW b \in ShownBots
        PROVE  \E i \in DOMAIN profiles' :
                 profiles'[i].bot = b /\ profiles'[i].models \cap DOMAIN rows = AssignedTo(name[b])
    <3>1. PICK i \in DOMAIN BotList : BotList[i] = b
      BY DEF ShownBots
    <3>2. Shows(BotList[i])'
      BY <2>1, <3>1, BotListFacts, ServerInserts
    <3>3. Shows(b)' => \E j \in DOMAIN profiles' :
                 profiles'[j].bot = b /\ profiles'[j].models \cap DOMAIN rows = AssignedTo(name[b])
      BY <2>2 DEF Shows, AssignedTo, Live
    <3>4. Shows(b)'
      BY <3>1, <3>2 DEF Shows, AssignedTo, Live
    <3> QED
      BY <3>3, <3>4
  <2> QED
    BY <2>3 DEF CatalogueInv, Ready, KeysHold
<1> QED
  BY <1>1, ModelInvariant, PTL DEF ModelSpec, CatalogueReady
=============================================================================
