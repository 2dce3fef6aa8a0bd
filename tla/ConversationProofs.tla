------------------------- MODULE ConversationProofs -------------------------
(***************************************************************************)
(* What belongs to a conversation besides its messages, for any number of  *)
(* requests: the data its tools are given (ToolInit), its rows and its     *)
(* links (Chats), and files (Files).                                       *)
(***************************************************************************)
EXTENDS ToolInit, Chats, Files, FiniteSetTheorems, TLAPS

(***************************************************************************)
(* Tool data.  Data that a disposal has removed does not come back.  What  *)
(* has to be known besides is what the transactions under way have read: a *)
(* document that still holds removed data was read by a store that a       *)
(* disposal has crossed, and the live rows with data a disposal found      *)
(* stored are rows it deletes.                                             *)
(***************************************************************************)

\* Removed data in a document, seen from a tool: a store for another tool was
\* crossed.
Explained(t) == \E c \in crossed : StoreTool[c] # t

ConfigInv ==
  \A s \in Stores, t \in Tools :
    pc[s] = "saved" /\ config[s][t] \in gone /\ t # StoreTool[s] => Explained(t)

\* A store that has not committed is neither removed nor known to a disposal.
StoredInv ==
  /\ gone \subseteq Stored \cup {Created}
  /\ \A d \in Disposals : before[d] \subseteq Stored

DoomedInv ==
  \A d \in Deleting, x \in Stores :
    row[x] = "live" /\ data[x] \in before[d] => x \in doomed[d]

\* The row a store has found is one of its tool.
TargetInv ==
  \A s \in Stores : target[s] # NoRow => StoreTool[target[s]] = StoreTool[s]

IInv ==
  /\ TypeOK
  /\ DisposedStaysGone
  /\ ConfigInv
  /\ StoredInv
  /\ DoomedInv
  /\ TargetInv

(***************************************************************************)
(* What keeps row and mirror together besides: two stores for a tool that  *)
(* are under way at once have been seen, and so have any two writers; a    *)
(* store has found every live row of its tool; and what a writer alone has *)
(* read is still there when it commits.                                    *)
(***************************************************************************)

DoubledInv ==
  \A s, u \in Storing :
    s # u /\ StoreTool[s] = StoreTool[u] => StoreTool[s] \in doubled

FoundInv ==
  \A s \in Storing, x \in Stores :
    row[x] = "live" /\ StoreTool[x] = StoreTool[s] /\ x # target[s]
      => StoreTool[s] \in doubled

AloneInv ==
  ~overlapped =>
    /\ doubled = {}
    /\ \A s, u \in Storing : s = u
    /\ Storing # {} => Deleting = {}
    /\ \A d, e \in Deleting : d = e

SeenInv ==
  ~overlapped =>
    /\ \A s \in Stores : pc[s] = "saved" => config[s] = mirror
    /\ \A d \in Deleting, x \in Stores : row[x] = "live" => x \in doomed[d]

Reading(q) == res[q] \in {"loaded", "expired"}

CurrentInv ==
  ~overlapped =>
    /\ last = mirror
    /\ \A q \in Readers :
         Reading(q) => {loaded[q], last[ReaderTool[q]]} \subseteq recent[q]

RInv ==
  /\ IInv
  /\ RowsHold
  /\ DoubledInv
  /\ FoundInv
  /\ AloneInv
  /\ SeenInv
  /\ CurrentInv

LEMMA InitInv == Init => IInv
<1> SUFFICES ASSUME Init PROVE IInv
  OBVIOUS
<1> USE ConstantsAssumption DEF Init
<1>1. mirror \in [Tools -> Values]
  BY DEF Values
<1>2. TypeOK
  BY <1>1 DEF TypeOK, Values
<1>3. DisposedStaysGone /\ ConfigInv /\ StoredInv /\ TargetInv
  BY DEF DisposedStaysGone, ConfigInv, StoredInv, TargetInv
<1>4. DoomedInv
  BY DEF DoomedInv, Deleting
<1> QED
  BY <1>2, <1>3, <1>4 DEF IInv

\* First picks among the rows it is given.
LEMMA FirstIsLive ==
  ASSUME NEW t, NEW x \in First(LiveRows(t))
  PROVE  x \in Stores /\ row[x] = "live" /\ StoreTool[x] = t
BY DEF First, LiveRows

\* Data in use are stores' numbers or the two other values.
LEMMA WitnessType ==
  ASSUME TypeOK, NEW T, NEW v \in Values, Witness(T, v)
  PROVE  recent' \in [Readers -> SUBSET Values]
BY DEF Witness, TypeOK

(***************************************************************************)
(* A store.                                                                *)
(***************************************************************************)

LEMMA FindInv ==
  ASSUME IInv, NEW s \in Stores, Find(s)
  PROVE  IInv'
<1> USE DEF IInv
<1>1. /\ target' \in [Stores -> Stores \cup {NoRow}]
      /\ keep' \in [Stores -> {"never", "later", "past"}]
      /\ TargetInv'
  <2>1. CASE UNCHANGED <<target, keep>>
    BY <2>1 DEF TypeOK, TargetInv
  <2>2. ASSUME NEW x \in First(LiveRows(StoreTool[s])),
               target' = [target EXCEPT ![s] = x],
               keep' = [keep EXCEPT ![s] = expiry[x]]
        PROVE  <1>1
    BY <2>2, FirstIsLive DEF TypeOK, TargetInv
  <2> QED
    BY <2>1, <2>2 DEF Find
<1>2. /\ pc' = [pc EXCEPT ![s] = "found"]
      /\ pc[s] = "new"
      /\ UNCHANGED <<rowVars, mirror, config, endVars, resVars, last, recent,
                     gone, crossed>>
  BY DEF Find
<1>3. doubled' \subseteq Tools /\ overlapped' \in BOOLEAN
  <2>1. StoreTool[s] \in Tools
    BY ConstantsAssumption
  <2>2. Begin(s)
    BY DEF Find
  <2>3. doubled' = doubled \cup {StoreTool[s]} \/ doubled' = doubled
    BY <2>2 DEF Begin
  <2>4. doubled' \subseteq Tools
    BY <2>1, <2>3 DEF TypeOK
  <2>5. overlapped' = (overlapped \/ Storing # {} \/ Deleting # {})
    BY <2>2 DEF Begin
  <2>6. overlapped' \in BOOLEAN
    BY <2>5
  <2> QED
    BY <2>4, <2>6
<1>4. TypeOK'
  BY <1>1, <1>2, <1>3 DEF TypeOK, rowVars, endVars, resVars
<1>5. Stored' = Stored /\ Deleting' = Deleting
  BY <1>2 DEF Stored, Deleting, TypeOK, endVars
<1>6. DisposedStaysGone' /\ ConfigInv' /\ StoredInv' /\ DoomedInv'
  BY <1>2, <1>5 DEF DisposedStaysGone, ConfigInv, StoredInv, DoomedInv, Explained,
     rowVars, endVars, TypeOK
<1> QED
  BY <1>1, <1>4, <1>6

LEMMA SaveInv ==
  ASSUME IInv, NEW s \in Stores, Save(s)
  PROVE  IInv'
<1> USE DEF IInv
<1>1. /\ row' \in [Stores -> {"none", "pending", "live", "deleted"}]
      /\ id' \in [Stores -> Nat]
      /\ \A x \in Stores : row'[x] = "live" => row[x] = "live"
  <2>1. 1 + Cardinality({x \in Stores : id[x] # 0}) \in Nat
    <3>1. IsFiniteSet({x \in Stores : id[x] # 0})
      BY ConstantsAssumption, FS_Subset, {x \in Stores : id[x] # 0} \subseteq Stores
    <3> QED
      BY <3>1, FS_CardinalityType
  <2>2. CASE /\ row' = [row EXCEPT ![s] = "pending"]
             /\ id' = [id EXCEPT ![s] = 1 + Cardinality({x \in Stores : id[x] # 0})]
    BY <2>1, <2>2 DEF TypeOK
  <2>3. CASE UNCHANGED <<row, id>>
    BY <2>3 DEF TypeOK
  <2> QED
    BY <2>2, <2>3 DEF Save
<1>2. /\ pc' = [pc EXCEPT ![s] = "saved"]
      /\ pc[s] = "found"
      /\ config' = [config EXCEPT ![s] = mirror]
      /\ UNCHANGED <<data, expiry, mirror, target, keep, endVars, resVars, last,
                     recent, gone, crossed, doubled, overlapped>>
  BY DEF Save
<1>3. TypeOK'
  BY <1>1, <1>2 DEF TypeOK, endVars, resVars
<1>4. Stored' = Stored /\ Deleting' = Deleting
  BY <1>2 DEF Stored, Deleting, TypeOK, endVars
<1>5. DisposedStaysGone' /\ StoredInv' /\ DoomedInv' /\ TargetInv'
  BY <1>1, <1>2, <1>4 DEF DisposedStaysGone, StoredInv, DoomedInv, TargetInv, endVars
<1>6. ConfigInv'
  BY <1>2 DEF ConfigInv, DisposedStaysGone, Explained, TypeOK
<1> QED
  BY <1>3, <1>5, <1>6

LEMMA CommitInv ==
  ASSUME IInv, NEW s \in Stores, Commit(s)
  PROVE  IInv'
<1> USE DEF IInv
<1> DEFINE x == RowOf(s)
<1>1. x \in Stores /\ StoreTool[x] = StoreTool[s] /\ StoreTool[s] \in Tools
  BY ConstantsAssumption DEF RowOf, TypeOK, TargetInv
<1> HIDE DEF x
<1>2. /\ pc[s] = "saved"
      /\ pc' = [pc EXCEPT ![s] = IF s \in Expiring THEN "stored" ELSE "done"]
      /\ row' = [row EXCEPT ![x] = "live"]
      /\ data' = [data EXCEPT ![x] = s]
      /\ expiry' = [expiry EXCEPT ![x] = keep[s]]
      /\ mirror' = [config[s] EXCEPT ![StoreTool[s]] = s]
      /\ last' = [last EXCEPT ![StoreTool[s]] = s]
      /\ UNCHANGED <<id, endVars, resVars, gone, crossed, doubled, overlapped>>
  BY DEF Commit, x
<1>3. /\ target' = [target EXCEPT ![s] = NoRow]
      /\ keep' = [keep EXCEPT ![s] = "never"]
      /\ config' = [config EXCEPT ![s] = [t \in Tools |-> Empty]]
  BY DEF Commit, Forget
<1>4. recent' \in [Readers -> SUBSET Values]
  BY WitnessType DEF Commit, Values
<1>5. TypeOK'
  BY <1>1, <1>2, <1>3, <1>4 DEF TypeOK, endVars, resVars, Values
<1>6. Stored' = Stored \cup {s} /\ Deleting' = Deleting
  BY <1>2 DEF Stored, Deleting, TypeOK, endVars
<1>7. s \notin gone /\ \A d \in Disposals : s \notin before[d]
  BY <1>2, ConstantsAssumption DEF StoredInv, Stored
<1>8. DisposedStaysGone'
  <2>1. ASSUME NEW y \in Stores, row'[y] = "live"
        PROVE  data'[y] \notin gone'
    BY <1>1, <1>2, <1>7, <2>1 DEF DisposedStaysGone, TypeOK
  <2>2. ASSUME NEW t \in Tools, mirror'[t] \in gone'
        PROVE  Explained(t)'
    <3>1. t # StoreTool[s] /\ config[s][t] \in gone
      BY <1>1, <1>2, <1>7, <2>2 DEF TypeOK
    <3> QED
      BY <1>2, <3>1 DEF ConfigInv, Explained
  <2> QED
    BY <2>1, <2>2 DEF DisposedStaysGone, Explained
<1>9. ConfigInv'
  BY <1>2, <1>3 DEF ConfigInv, Explained, TypeOK
<1>10. StoredInv'
  BY <1>2, <1>6 DEF StoredInv, endVars
<1>11. DoomedInv'
  BY <1>1, <1>2, <1>6, <1>7 DEF DoomedInv, Deleting, TypeOK, endVars
<1>12. TargetInv'
  BY <1>3 DEF TargetInv, TypeOK
<1> QED
  BY <1>5, <1>8, <1>9, <1>10, <1>11, <1>12

LEMMA FailInv ==
  ASSUME IInv, NEW s \in Stores, Fail(s)
  PROVE  IInv'
<1> USE DEF IInv
<1>1. /\ pc[s] \in {"found", "saved"}
      /\ pc' = [pc EXCEPT ![s] = "failed"]
      /\ row' = [row EXCEPT ![s] = IF row[s] = "pending" THEN "none" ELSE row[s]]
      /\ UNCHANGED <<id, data, expiry, mirror, endVars, resVars, last, recent,
                     gone, crossed, doubled, overlapped>>
  BY DEF Fail
<1>2. /\ target' = [target EXCEPT ![s] = NoRow]
      /\ keep' = [keep EXCEPT ![s] = "never"]
      /\ config' = [config EXCEPT ![s] = [t \in Tools |-> Empty]]
  BY DEF Fail, Forget
<1>3. TypeOK'
  BY <1>1, <1>2 DEF TypeOK, endVars, resVars, Values
<1>4. Stored' = Stored /\ Deleting' = Deleting
  BY <1>1 DEF Stored, Deleting, TypeOK, endVars
<1>5. \A y \in Stores : row'[y] = "live" => row[y] = "live"
  BY <1>1 DEF TypeOK
<1>6. DisposedStaysGone' /\ StoredInv' /\ DoomedInv'
  BY <1>1, <1>4, <1>5 DEF DisposedStaysGone, StoredInv, DoomedInv, endVars
<1>7. ConfigInv' /\ TargetInv'
  BY <1>1, <1>2 DEF ConfigInv, TargetInv, Explained, TypeOK
<1> QED
  BY <1>3, <1>6, <1>7

\* Expiries say nothing about data.
LEMMA ExpiryInv ==
  ASSUME IInv, NEW s \in Stores, SetExpiration(s) \/ Expire(s)
  PROVE  IInv'
<1> USE DEF IInv
<1>1. /\ expiry' \in [Stores -> {"never", "later", "past"}]
      /\ pc' \in [Stores -> {"new", "found", "saved", "stored", "done", "failed"}]
      /\ \A u \in Stores : /\ pc'[u] = "saved" => pc[u] = "saved"
                           /\ pc[u] \in {"stored", "done"} =>
                                pc'[u] \in {"stored", "done"}
  <2>1. CASE SetExpiration(s)
    <3>1. pc[s] = "stored" /\ pc' = [pc EXCEPT ![s] = "done"]
      BY <2>1 DEF SetExpiration
    <3>2. expiry' \in [Stores -> {"never", "later", "past"}]
      BY <2>1 DEF SetExpiration, TypeOK
    <3> QED
      BY <3>1, <3>2 DEF TypeOK
  <2>2. CASE Expire(s)
    <3>1. expiry' = [expiry EXCEPT ![s] = "past"] /\ UNCHANGED pc
      BY <2>2 DEF Expire, pcVars
    <3> QED
      BY <3>1 DEF TypeOK
  <2> QED
    BY <2>1, <2>2
<1>2. UNCHANGED <<row, id, data, mirror, target, keep, config, endVars, resVars,
                  last, recent, gone, crossed, doubled, overlapped>>
  BY DEF SetExpiration, Expire, pcVars
<1>3. TypeOK'
  BY <1>1, <1>2 DEF TypeOK, endVars, resVars
<1>4. Stored \subseteq Stored' /\ Deleting' = Deleting
  BY <1>1, <1>2 DEF Stored, Deleting, endVars
<1>5. DisposedStaysGone' /\ ConfigInv' /\ DoomedInv' /\ TargetInv'
  BY <1>1, <1>2, <1>4 DEF DisposedStaysGone, ConfigInv, DoomedInv, TargetInv,
     Explained, endVars
<1>6. StoredInv'
  BY <1>2, <1>4 DEF StoredInv, endVars
<1> QED
  BY <1>3, <1>5, <1>6

(***************************************************************************)
(* A disposal.                                                             *)
(***************************************************************************)

LEMMA DeleteRowsInv ==
  ASSUME IInv, NEW d \in Disposals, DeleteRows(d)
  PROVE  IInv'
<1> USE DEF IInv
<1>1. /\ end[d] = "new"
      /\ end' = [end EXCEPT ![d] = "deleting"]
      /\ doomed' = [doomed EXCEPT ![d] = {x \in Stores : row[x] = "live"}]
      /\ before' = [before EXCEPT ![d] = Stored]
      /\ overlapped' \in BOOLEAN
      /\ UNCHANGED <<rowVars, mirror, pcVars, resVars, last, recent, gone,
                     crossed, doubled>>
  BY DEF DeleteRows, TypeOK
<1>2. TypeOK'
  BY <1>1 DEF TypeOK, rowVars, pcVars, resVars, Stored
<1>3. Stored' = Stored
  BY <1>1 DEF Stored, pcVars
<1>4. DisposedStaysGone' /\ ConfigInv' /\ StoredInv' /\ TargetInv'
  BY <1>1, <1>3 DEF DisposedStaysGone, ConfigInv, StoredInv, TargetInv, Explained,
     rowVars, pcVars, TypeOK
<1>5. DoomedInv'
  BY <1>1 DEF DoomedInv, Deleting, rowVars, TypeOK
<1> QED
  BY <1>2, <1>4, <1>5

LEMMA DisposeInv ==
  ASSUME IInv, NEW d \in Disposals, Dispose(d)
  PROVE  IInv'
<1> USE DEF IInv
<1>1. /\ end[d] = "deleting"
      /\ end' = [end EXCEPT ![d] = "done"]
      /\ row' = [x \in Stores |-> IF x \in doomed[d] THEN "deleted" ELSE row[x]]
      /\ mirror' = [t \in Tools |-> Empty]
      /\ last' = [t \in Tools |-> Empty]
      /\ gone' = gone \cup before[d] \cup {Created}
      /\ crossed' = crossed \cup {s \in Stores : pc[s] = "saved"}
      /\ doomed' = [doomed EXCEPT ![d] = {}]
      /\ before' = [before EXCEPT ![d] = {}]
      /\ UNCHANGED <<id, data, expiry, pcVars, resVars, doubled, overlapped>>
  BY DEF Dispose, ForgetRows
<1>2. recent' \in [Readers -> SUBSET Values]
  BY WitnessType DEF Dispose, Values
<1>3. TypeOK'
  BY <1>1, <1>2 DEF TypeOK, pcVars, resVars, Values
<1>4. Stored' = Stored /\ Deleting' = Deleting \ {d}
  BY <1>1 DEF Stored, Deleting, TypeOK, pcVars
<1>5. DisposedStaysGone'
  <2>1. ASSUME NEW x \in Stores, row'[x] = "live"
        PROVE  data'[x] \notin gone'
    <3>1. row[x] = "live" /\ x \notin doomed[d] /\ data[x] \in Stores
      BY <1>1, <2>1 DEF TypeOK
    <3>2. data[x] \notin before[d]
      BY <1>1, <3>1 DEF DoomedInv, Deleting
    <3> QED
      BY <1>1, <3>1, <3>2, ConstantsAssumption DEF DisposedStaysGone
  <2>2. \A t \in Tools : mirror'[t] \notin gone'
    BY <1>1, ConstantsAssumption DEF TypeOK, Created, Empty
  <2> QED
    BY <2>1, <2>2 DEF DisposedStaysGone
<1>6. ConfigInv'
  <2> SUFFICES ASSUME NEW s \in Stores, NEW t \in Tools,
                      pc'[s] = "saved", t # StoreTool[s]
               PROVE  Explained(t)'
    BY DEF ConfigInv
  <2>1. s \in crossed'
    BY <1>1 DEF pcVars
  <2> QED
    BY <2>1 DEF Explained
<1>7. StoredInv'
  BY <1>1, <1>4 DEF StoredInv, TypeOK
<1>8. DoomedInv'
  BY <1>1, <1>4 DEF DoomedInv, Deleting, TypeOK
<1>9. TargetInv'
  BY <1>1 DEF TargetInv, pcVars
<1> QED
  BY <1>3, <1>5, <1>6, <1>7, <1>8, <1>9

LEMMA DisposeFailsInv ==
  ASSUME IInv, NEW d \in Disposals, DisposeFails(d)
  PROVE  IInv'
<1> USE DEF IInv
<1>1. /\ end' = [end EXCEPT ![d] = "failed"]
      /\ doomed' = [doomed EXCEPT ![d] = {}]
      /\ before' = [before EXCEPT ![d] = {}]
      /\ UNCHANGED <<rowVars, mirror, pcVars, resVars, last, recent, gone,
                     crossed, doubled, overlapped>>
  BY DEF DisposeFails, ForgetRows
<1>2. TypeOK'
  BY <1>1 DEF TypeOK, rowVars, pcVars, resVars
<1>3. Stored' = Stored /\ Deleting' \subseteq Deleting \ {d}
  BY <1>1 DEF Stored, Deleting, TypeOK, pcVars
<1>4. DisposedStaysGone' /\ ConfigInv' /\ StoredInv' /\ TargetInv'
  BY <1>1, <1>3 DEF DisposedStaysGone, ConfigInv, StoredInv, TargetInv, Explained,
     rowVars, pcVars, TypeOK
<1>5. DoomedInv'
  BY <1>1, <1>3 DEF DoomedInv, Deleting, rowVars, TypeOK
<1> QED
  BY <1>2, <1>4, <1>5

(***************************************************************************)
(* A reader.                                                               *)
(***************************************************************************)

LEMMA ResolveInv ==
  ASSUME IInv, NEW q \in Readers, Resolve(q)
  PROVE  IInv'
<1> USE DEF IInv
<1>1. /\ UNCHANGED <<id, data, expiry, mirror, pcVars, endVars, last, gone,
                     crossed, doubled, overlapped>>
      /\ row' \in [Stores -> {"none", "pending", "live", "deleted"}]
      /\ \A x \in Stores : row'[x] = "live" => row[x] = "live"
  <2>1. CASE Load(q) \/ Get(q)
    <3>1. UNCHANGED rowVars
      BY <2>1 DEF Load, Get
    <3> QED
      BY <2>1, <3>1 DEF Load, Get, rowVars, TypeOK
  <2>2. CASE DeleteExpired(q)
    BY <2>2 DEF DeleteExpired, TypeOK
  <2> QED
    BY <2>1, <2>2 DEF Resolve
<1>2. TypeOK'
  <2>1. CASE Load(q)
    <3>1. /\ res' = [res EXCEPT ![q] = "loaded"]
          /\ loaded' = [loaded EXCEPT ![q] = mirror[ReaderTool[q]]]
          /\ recent' = [recent EXCEPT ![q] = {last[ReaderTool[q]]}]
          /\ UNCHANGED <<stale, result>>
      BY <2>1 DEF Load
    <3>2. ReaderTool[q] \in Tools
      BY ConstantsAssumption
    <3>3. loaded' \in [Readers -> Values] /\ recent' \in [Readers -> SUBSET Values]
      BY <3>1, <3>2 DEF TypeOK
    <3>4. \A r \in Readers : res'[r] = "expired" => stale'[r] \in Stores
      BY <3>1 DEF TypeOK
    <3> QED
      BY <1>1, <3>1, <3>3, <3>4 DEF TypeOK, pcVars, endVars
  <2>2. CASE Get(q)
    <3>1. /\ res' \in [Readers -> {"new", "loaded", "expired", "done"}]
          /\ stale' \in [Readers -> Stores \cup {NoRow}]
          /\ \A r \in Readers : res'[r] = "expired" => stale'[r] \in Stores
          /\ result' \in [Readers -> Values]
      <4>1. CASE /\ res' = [res EXCEPT ![q] = "done"]
                 /\ result' = [result EXCEPT ![q] = loaded[q]]
                 /\ UNCHANGED stale
        BY <4>1 DEF TypeOK
      <4>2. ASSUME NEW x \in First(LiveRows(ReaderTool[q])),
                   res' = [res EXCEPT ![q] = "expired"],
                   stale' = [stale EXCEPT ![q] = x],
                   UNCHANGED result
            PROVE  <3>1
        BY <4>2, FirstIsLive DEF TypeOK
      <4>3. ASSUME NEW x \in First(LiveRows(ReaderTool[q])),
                   res' = [res EXCEPT ![q] = "done"],
                   result' = [result EXCEPT ![q] = data[x]],
                   UNCHANGED stale
            PROVE  <3>1
        BY <4>3, FirstIsLive DEF TypeOK, Values
      <4> QED
        BY <2>2, <4>1, <4>2, <4>3 DEF Get
    <3> QED
      BY <1>1, <2>2, <3>1 DEF Get, TypeOK, rowVars, pcVars, endVars
  <2>3. CASE DeleteExpired(q)
    BY <1>1, <2>3 DEF DeleteExpired, TypeOK, pcVars, endVars
  <2> QED
    BY <2>1, <2>2, <2>3 DEF Resolve
<1>3. Stored' = Stored /\ Deleting' = Deleting
  BY <1>1 DEF Stored, Deleting, pcVars, endVars
<1>4. DisposedStaysGone' /\ ConfigInv' /\ StoredInv' /\ DoomedInv' /\ TargetInv'
  BY <1>1, <1>3 DEF DisposedStaysGone, ConfigInv, StoredInv, DoomedInv, TargetInv,
     Explained, pcVars, endVars
<1> QED
  BY <1>2, <1>4

LEMMA NextInv == IInv /\ [Next]_vars => IInv'
<1> SUFFICES ASSUME IInv, [Next]_vars PROVE IInv'
  OBVIOUS
<1>1. CASE UNCHANGED vars
  <2> USE <1>1 DEF IInv, vars, rowVars, pcVars, endVars, resVars
  <2>1. TypeOK'
    BY DEF TypeOK
  <2>2. Stored' = Stored /\ Deleting' = Deleting
    BY DEF Stored, Deleting
  <2>3. DisposedStaysGone' /\ ConfigInv' /\ StoredInv' /\ DoomedInv' /\ TargetInv'
    BY <2>2 DEF DisposedStaysGone, ConfigInv, StoredInv, DoomedInv, TargetInv,
       Explained
  <2> QED
    BY <2>1, <2>3
<1>2. CASE \E s \in Stores : Store(s) \/ Expire(s)
  BY <1>2, FindInv, SaveInv, CommitInv, FailInv, ExpiryInv DEF Store
<1>3. CASE \E d \in Disposals : EndReply(d)
  BY <1>3, DeleteRowsInv, DisposeInv, DisposeFailsInv DEF EndReply
<1>4. CASE \E q \in Readers : Resolve(q)
  BY <1>4, ResolveInv
<1> QED
  BY <1>1, <1>2, <1>3, <1>4 DEF Next

\* The invariant is inductive.
THEOREM Inductive == Spec => []IInv
BY InitInv, NextInv, PTL DEF Spec

\* Every variable keeps its type, and a row holds data for its own tool.
THEOREM TypeCorrect == Spec => []TypeOK
<1>1. IInv => TypeOK
  BY DEF IInv
<1> QED
  BY Inductive, <1>1, PTL

\* Removed data does not come back into a row, and comes back into the mirror
\* only with a store for another tool that had read it before.
THEOREM SecretsStayGone == Spec => []DisposedStaysGone
<1>1. IInv => DisposedStaysGone
  BY DEF IInv
<1> QED
  BY Inductive, <1>1, PTL

(***************************************************************************)
(* Row and mirror.                                                         *)
(***************************************************************************)

\* What a step has to establish besides IInv.
Rest ==
  /\ OneRow /\ MirrorAgrees
  /\ DoubledInv /\ FoundInv /\ AloneInv /\ SeenInv

Read == ResolvesCurrent /\ CurrentInv

\* A step that starts no writer, commits nothing and brings back no row.
LEMMA RowFrame ==
  ASSUME RInv,
         UNCHANGED <<data, mirror, doubled, overlapped>>,
         Storing' \subseteq Storing, Deleting' \subseteq Deleting,
         \A x \in Stores : row'[x] = "live" => row[x] = "live",
         \A u \in Storing' : target'[u] = target[u],
         \A u \in Stores : pc'[u] = "saved" =>
            config'[u] = mirror \/ (pc[u] = "saved" /\ config'[u] = config[u]),
         \A d \in Deleting' : doomed'[d] = doomed[d]
  PROVE  Rest'
<1> USE DEF RInv, RowsHold
<1>1. OneRow'
  BY DEF OneRow
<1>2. MirrorAgrees'
  BY DEF MirrorAgrees
<1>3. DoubledInv'
  BY DEF DoubledInv
<1>4. FoundInv'
  BY DEF FoundInv
<1>5. AloneInv'
  <2> SUFFICES ASSUME ~overlapped
               PROVE  /\ doubled = {}
                      /\ \A s, u \in Storing' : s = u
                      /\ Storing' # {} => Deleting' = {}
                      /\ \A d, e \in Deleting' : d = e
    BY DEF AloneInv
  <2> QED  BY DEF AloneInv
<1>6. SeenInv'
  BY DEF SeenInv
<1> QED  BY <1>1, <1>2, <1>3, <1>4, <1>5, <1>6 DEF Rest

LEMMA ReadFrame ==
  ASSUME RInv, UNCHANGED <<res, loaded, result, recent, last, mirror, overlapped>>
  PROVE  Read'
BY DEF RInv, RowsHold, Read, ResolvesCurrent, CurrentInv, Reading

LEMMA FindRow ==
  ASSUME RInv, NEW s \in Stores, Find(s)
  PROVE  Rest' /\ Read'
<1> USE DEF RInv, RowsHold
<1>1. /\ pc[s] = "new" /\ pc' = [pc EXCEPT ![s] = "found"]
      /\ UNCHANGED <<row, data, mirror, config, end, doomed, res, loaded,
                     result, last, recent>>
      /\ TypeOK
  BY DEF Find, IInv, rowVars, endVars, resVars
<1>2. /\ Storing' = Storing \cup {s} /\ s \notin Storing /\ Deleting' = Deleting
  BY <1>1 DEF Storing, Deleting, TypeOK
<1>3. /\ doubled \subseteq doubled'
      /\ \A u \in Storing : StoreTool[u] = StoreTool[s] => StoreTool[s] \in doubled'
      /\ Storing = {} => doubled' = doubled
      /\ ~overlapped' => ~overlapped /\ Storing = {} /\ Deleting = {}
  BY DEF Find, Begin
<1>4. ASSUME NEW u \in Storing  PROVE  target'[u] = target[u]
  <2>1. u # s
    BY <1>2
  <2>2. CASE target' = target
    BY <2>2
  <2>3. ASSUME NEW x, target' = [target EXCEPT ![s] = x]
        PROVE  target'[u] = target[u]
    <3>1. u \in Stores
      BY DEF Storing
    <3> QED  BY <1>1, <2>1, <2>3, <3>1 DEF TypeOK
  <2> QED  BY <2>2, <2>3 DEF Find
<1>5. ASSUME NEW x \in Stores, row[x] = "live", StoreTool[x] = StoreTool[s],
             x # target'[s]
      PROVE  StoreTool[s] \in doubled'
  <2>1. x \in LiveRows(StoreTool[s])
    BY <1>5 DEF LiveRows
  <2>2. PICK y \in First(LiveRows(StoreTool[s])) :
               target' = [target EXCEPT ![s] = y]
    BY <2>1 DEF Find
  <2>3. /\ y \in Stores /\ row[y] = "live" /\ StoreTool[y] = StoreTool[s]
        /\ target'[s] = y
    BY <1>1, <2>2, FirstIsLive DEF TypeOK
  <2> QED  BY <1>3, <1>5, <2>3 DEF OneRow
<1>6. OneRow' /\ MirrorAgrees'
  BY <1>1, <1>3 DEF OneRow, MirrorAgrees
<1>7. DoubledInv'
  BY <1>2, <1>3 DEF DoubledInv
<1>8. FoundInv'
  BY <1>1, <1>2, <1>3, <1>4, <1>5 DEF FoundInv
<1>9. AloneInv'
  BY <1>2, <1>3 DEF AloneInv
<1>10. SeenInv'
  BY <1>1, <1>2, <1>3 DEF SeenInv, TypeOK
<1>11. Read'
  BY <1>1, <1>3 DEF Read, ResolvesCurrent, CurrentInv, Reading
<1> QED  BY <1>6, <1>7, <1>8, <1>9, <1>10, <1>11 DEF Rest

LEMMA CommitRow ==
  ASSUME RInv, NEW s \in Stores, Commit(s)
  PROVE  Rest' /\ Read'
<1> USE DEF RInv, RowsHold
<1> DEFINE x == RowOf(s)
           t == StoreTool[s]
<1>1. /\ TypeOK /\ TargetInv /\ t \in Tools
      /\ x \in Stores /\ StoreTool[x] = t
      /\ \A y \in Stores : y # x => y # target[s]
  BY ConstantsAssumption DEF IInv, RowOf, TypeOK, TargetInv
<1> HIDE DEF x
<1>2. /\ pc[s] = "saved"
      /\ pc' = [pc EXCEPT ![s] = IF s \in Expiring THEN "stored" ELSE "done"]
      /\ row' = [row EXCEPT ![x] = "live"]
      /\ data' = [data EXCEPT ![x] = s]
      /\ mirror' = [config[s] EXCEPT ![t] = s]
      /\ last' = [last EXCEPT ![t] = s]
      /\ target' = [target EXCEPT ![s] = NoRow]
      /\ config' = [config EXCEPT ![s] = [b \in Tools |-> Empty]]
      /\ Witness({t}, s)
      /\ UNCHANGED <<end, doomed, res, loaded, result, doubled, overlapped>>
  BY DEF Commit, Forget, x, endVars, resVars
<1> HIDE DEF t
<1>3. Storing' = Storing \ {s} /\ s \in Storing /\ Deleting' = Deleting
  BY <1>1, <1>2 DEF Storing, Deleting, TypeOK
<1>4. \A y \in Stores : row'[y] = "live" => y = x \/ (y # x /\ row[y] = "live")
  BY <1>1, <1>2 DEF TypeOK
<1>5. ASSUME NEW y \in Stores, y # x, row'[y] = "live", StoreTool[y] = t
      PROVE  t \in doubled
  BY <1>1, <1>3, <1>4, <1>5 DEF FoundInv, t
<1>6. OneRow'
  <2> SUFFICES ASSUME NEW y \in Stores, NEW z \in Stores, y # z,
                      StoreTool[y] = StoreTool[z],
                      row'[y] = "live", row'[z] = "live"
               PROVE  StoreTool[y] \in doubled
    BY <1>2 DEF OneRow
  <2>1. CASE y = x \/ z = x
    BY <1>1, <1>5, <2>1
  <2>2. CASE y # x /\ z # x
    BY <1>4, <2>2 DEF OneRow
  <2> QED  BY <2>1, <2>2
<1>7. MirrorAgrees'
  <2> SUFFICES ASSUME ~overlapped, NEW y \in Stores, row'[y] = "live"
               PROVE  mirror'[StoreTool[y]] = data'[y]
    BY <1>2 DEF MirrorAgrees
  <2>1. config[s] = mirror /\ doubled = {}
    BY <1>2 DEF SeenInv, AloneInv
  <2>2. CASE y = x
    BY <1>1, <1>2, <2>1, <2>2 DEF TypeOK
  <2>3. CASE y # x
    <3>1. StoreTool[y] # t /\ row[y] = "live" /\ StoreTool[y] \in Tools
      BY <1>4, <1>5, <2>1, <2>3, ConstantsAssumption
    <3>2. mirror'[StoreTool[y]] = mirror[StoreTool[y]] /\ data'[y] = data[y]
      BY <1>1, <1>2, <2>1, <2>3, <3>1 DEF TypeOK
    <3> QED  BY <3>1, <3>2 DEF MirrorAgrees
  <2> QED  BY <2>2, <2>3
<1>8. DoubledInv'
  BY <1>2, <1>3 DEF DoubledInv
<1>9. FoundInv'
  <2> SUFFICES ASSUME NEW u \in Storing, u # s, NEW y \in Stores,
                      row'[y] = "live", StoreTool[y] = StoreTool[u],
                      y # target[u]
               PROVE  StoreTool[u] \in doubled
    BY <1>2, <1>3 DEF FoundInv, TypeOK
  <2>1. CASE y = x
    BY <1>1, <1>3, <2>1 DEF DoubledInv, t
  <2>2. CASE y # x
    BY <1>4, <2>2 DEF FoundInv
  <2> QED  BY <2>1, <2>2
<1>10. AloneInv'
  BY <1>2, <1>3 DEF AloneInv
<1>11. SeenInv'
  <2> SUFFICES ASSUME ~overlapped
               PROVE  Storing' = {} /\ Deleting' = {}
    <3>1. \A u \in Stores : pc'[u] = "saved" => u \in Storing'
      BY DEF Storing
    <3> QED  BY <1>2, <3>1 DEF SeenInv
  <2> QED  BY <1>3 DEF AloneInv
<1>12. ASSUME NEW q \in Readers
       PROVE  /\ recent[q] \subseteq recent'[q]
              /\ Reading(q) /\ ReaderTool[q] = t => s \in recent'[q]
  BY <1>2 DEF Witness, Reading
<1>13. Read'
  <2>1. ResolvesCurrent'
    BY <1>2, <1>12 DEF ResolvesCurrent
  <2>2. CurrentInv'
    <3> SUFFICES ASSUME ~overlapped
                 PROVE  /\ last' = mirror'
                        /\ \A q \in Readers : Reading(q) =>
                             loaded[q] \in recent'[q]
                             /\ last'[ReaderTool[q]] \in recent'[q]
      BY <1>2 DEF CurrentInv, Reading
    <3>1. last' = mirror'
      BY <1>2 DEF SeenInv, CurrentInv
    <3>2. ASSUME NEW q \in Readers, Reading(q)
          PROVE  /\ loaded[q] \in recent'[q]
                 /\ last'[ReaderTool[q]] \in recent'[q]
      <4>1. loaded[q] \in recent[q] /\ last[ReaderTool[q]] \in recent[q]
        BY <3>2 DEF CurrentInv
      <4>2. last \in [Tools -> Values] /\ ReaderTool[q] \in Tools
        BY <1>1, ConstantsAssumption DEF TypeOK
      <4>3. \/ ReaderTool[q] = t /\ last'[ReaderTool[q]] = s
            \/ last'[ReaderTool[q]] = last[ReaderTool[q]]
        BY <1>1, <1>2, <4>2
      <4> QED  BY <1>12, <3>2, <4>1, <4>3
    <3> QED  BY <3>1, <3>2
  <2> QED  BY <2>1, <2>2 DEF Read
<1> QED  BY <1>6, <1>7, <1>8, <1>9, <1>10, <1>11, <1>13 DEF Rest

\* Save, Fail and the setting of an expiry start no writer and commit no row.
LEMMA StoreRow ==
  ASSUME RInv, NEW s \in Stores, Save(s) \/ Fail(s) \/ SetExpiration(s) \/ Expire(s)
  PROVE  Rest' /\ Read'
<1>1. TypeOK
  BY DEF RInv, IInv
<1>2. /\ UNCHANGED <<data, mirror, doubled, overlapped, end, doomed, res,
                     loaded, result, last, recent>>
      /\ Deleting' = Deleting
  BY DEF Save, Fail, SetExpiration, Expire, Deleting, endVars, resVars
<1>3. /\ \A x \in Stores : row'[x] = "live" => row[x] = "live"
      /\ Storing' \subseteq Storing
  <2>1. CASE Save(s)
    BY <1>1, <2>1 DEF Save, TypeOK, Storing
  <2>2. CASE Fail(s)
    BY <1>1, <2>2 DEF Fail, TypeOK, Storing
  <2>3. CASE SetExpiration(s) \/ Expire(s)
    BY <1>1, <2>3 DEF SetExpiration, Expire, TypeOK, Storing, pcVars
  <2> QED  BY <2>1, <2>2, <2>3
<1>4. /\ \A u \in Storing' : target'[u] = target[u]
      /\ \A u \in Stores : pc'[u] = "saved" =>
            config'[u] = mirror \/ (pc[u] = "saved" /\ config'[u] = config[u])
  <2>1. CASE Save(s)
    BY <1>1, <2>1 DEF Save, TypeOK
  <2>2. CASE Fail(s)
    <3>1. pc' = [pc EXCEPT ![s] = "failed"]
      BY <2>2 DEF Fail
    <3>2. /\ target' = [target EXCEPT ![s] = NoRow]
          /\ config' = [config EXCEPT ![s] = [t \in Tools |-> Empty]]
      BY <2>2 DEF Fail, Forget
    <3> QED  BY <1>1, <3>1, <3>2 DEF TypeOK, Storing
  <2>3. CASE SetExpiration(s) \/ Expire(s)
    BY <1>1, <2>3 DEF SetExpiration, Expire, TypeOK, pcVars
  <2> QED  BY <2>1, <2>2, <2>3
<1>5. Rest'
  BY <1>2, <1>3, <1>4, RowFrame
<1> QED  BY <1>2, <1>5, ReadFrame

LEMMA DeleteRowsRow ==
  ASSUME RInv, NEW d \in Disposals, DeleteRows(d)
  PROVE  Rest' /\ Read'
<1> USE DEF RInv, RowsHold
<1>1. /\ end[d] = "new" /\ end' = [end EXCEPT ![d] = "deleting"]
      /\ doomed' = [doomed EXCEPT ![d] = {x \in Stores : row[x] = "live"}]
      /\ UNCHANGED <<row, data, mirror, pc, target, config, res, loaded, result,
                     last, recent, doubled>>
      /\ ~overlapped' => ~overlapped /\ Storing = {} /\ Deleting = {}
      /\ TypeOK
  BY DEF DeleteRows, IInv, rowVars, pcVars, resVars
<1>2. Storing' = Storing /\ Deleting' = Deleting \cup {d}
  BY <1>1 DEF Storing, Deleting, TypeOK
<1>3. OneRow' /\ MirrorAgrees'
  BY <1>1 DEF OneRow, MirrorAgrees
<1>4. DoubledInv' /\ FoundInv'
  BY <1>1, <1>2 DEF DoubledInv, FoundInv
<1>5. AloneInv'
  BY <1>1, <1>2 DEF AloneInv
<1>6. SeenInv'
  BY <1>1, <1>2 DEF SeenInv, TypeOK
<1>7. Read'
  BY <1>1 DEF Read, ResolvesCurrent, CurrentInv, Reading
<1> QED  BY <1>3, <1>4, <1>5, <1>6, <1>7 DEF Rest

LEMMA DisposeRow ==
  ASSUME RInv, NEW d \in Disposals, Dispose(d)
  PROVE  Rest' /\ Read'
<1> USE DEF RInv, RowsHold
<1>1. /\ end[d] = "deleting" /\ end' = [end EXCEPT ![d] = "done"]
      /\ row' = [x \in Stores |-> IF x \in doomed[d] THEN "deleted" ELSE row[x]]
      /\ mirror' = [t \in Tools |-> Empty]
      /\ last' = [t \in Tools |-> Empty]
      /\ Witness(Tools, Empty)
      /\ UNCHANGED <<data, pc, target, config, res, loaded, result, doubled,
                     overlapped>>
      /\ TypeOK
  BY DEF Dispose, IInv, pcVars, resVars
<1>2. Storing' = Storing /\ Deleting' = Deleting \ {d} /\ d \in Deleting
  BY <1>1 DEF Storing, Deleting, TypeOK
<1>3. ~overlapped => Storing = {} /\ Deleting' = {}
  BY <1>2 DEF AloneInv
<1>4. \A x \in Stores : row'[x] = "live" => row[x] = "live" /\ x \notin doomed[d]
  BY <1>1
<1>5. OneRow'
  BY <1>1, <1>4 DEF OneRow
<1>6. MirrorAgrees'
  BY <1>1, <1>2, <1>4 DEF MirrorAgrees, SeenInv
<1>7. DoubledInv' /\ FoundInv'
  BY <1>1, <1>2, <1>4 DEF DoubledInv, FoundInv
<1>8. AloneInv'
  BY <1>1, <1>2 DEF AloneInv
<1>9. SeenInv'
  <2>1. \A u \in Stores : pc'[u] = "saved" => u \in Storing
    BY <1>1 DEF Storing
  <2> QED  BY <1>1, <1>3, <2>1 DEF SeenInv
<1>10. ASSUME NEW q \in Readers
       PROVE  /\ recent[q] \subseteq recent'[q]
              /\ Reading(q) => Empty \in recent'[q]
              /\ last'[ReaderTool[q]] = Empty
  BY <1>1, ConstantsAssumption DEF Witness, Reading
<1>11. ResolvesCurrent'
  BY <1>1, <1>10 DEF ResolvesCurrent
<1>12. CurrentInv'
  BY <1>1, <1>10 DEF CurrentInv, Reading
<1> QED  BY <1>5, <1>6, <1>7, <1>8, <1>9, <1>11, <1>12 DEF Rest, Read

LEMMA DisposeFailsRow ==
  ASSUME RInv, NEW d \in Disposals, DisposeFails(d)
  PROVE  Rest' /\ Read'
<1>1. /\ end' = [end EXCEPT ![d] = "failed"]
      /\ doomed' = [doomed EXCEPT ![d] = {}]
      /\ UNCHANGED <<row, data, mirror, pc, target, config, res, loaded, result,
                     last, recent, doubled, overlapped>>
      /\ TypeOK
  BY DEF DisposeFails, ForgetRows, RInv, IInv, rowVars, pcVars, resVars
<1>2. Storing' = Storing /\ Deleting' \subseteq Deleting \ {d}
  BY <1>1 DEF Storing, Deleting, TypeOK
<1>3. \A e \in Deleting' : doomed'[e] = doomed[e]
  BY <1>1, <1>2 DEF TypeOK, Deleting
<1>4. Rest'
  BY <1>1, <1>2, <1>3, RowFrame
<1> QED  BY <1>1, <1>4, ReadFrame

LEMMA ResolveRow ==
  ASSUME RInv, NEW q \in Readers, Resolve(q)
  PROVE  Rest' /\ Read'
<1>1. TypeOK
  BY DEF RInv, IInv
<1>2. UNCHANGED <<data, mirror, pc, target, config, end, doomed, last, doubled,
                  overlapped>>
  BY DEF Resolve, Load, Get, DeleteExpired, rowVars, pcVars, endVars
<1>3. \A x \in Stores : row'[x] = "live" => row[x] = "live"
  BY <1>1 DEF Resolve, Load, Get, DeleteExpired, rowVars, TypeOK
<1>4. Storing' = Storing /\ Deleting' = Deleting
  BY <1>2 DEF Storing, Deleting
<1>5. Rest'
  BY <1>2, <1>3, <1>4, RowFrame
<1> USE DEF RInv, RowsHold
<1>6. ReaderTool[q] \in Tools
  BY ConstantsAssumption
<1>7. CASE Load(q)
  <2>1. /\ res[q] = "new" /\ res' = [res EXCEPT ![q] = "loaded"]
        /\ loaded' = [loaded EXCEPT ![q] = mirror[ReaderTool[q]]]
        /\ recent' = [recent EXCEPT ![q] = {last[ReaderTool[q]]}]
        /\ UNCHANGED result
    BY <1>7 DEF Load
  <2>2. ResolvesCurrent'
    BY <1>1, <1>2, <2>1 DEF ResolvesCurrent, TypeOK
  <2>3. CurrentInv'
    <3> SUFFICES ASSUME ~overlapped, NEW r \in Readers, Reading(r)'
                 PROVE  loaded'[r] \in recent'[r]
                        /\ last[ReaderTool[r]] \in recent'[r]
      BY <1>2 DEF CurrentInv
    <3>1. last = mirror
      BY DEF CurrentInv
    <3>2. CASE r = q
      BY <1>1, <2>1, <3>1, <3>2 DEF TypeOK
    <3>3. CASE r # q
      <4>1. /\ Reading(r) /\ loaded'[r] = loaded[r] /\ recent'[r] = recent[r]
        BY <1>1, <2>1, <3>3 DEF TypeOK, Reading
      <4> QED  BY <4>1 DEF CurrentInv
    <3> QED  BY <3>2, <3>3
  <2> QED  BY <1>5, <2>2, <2>3 DEF Read
<1>8. CASE Get(q) \/ DeleteExpired(q)
  <2>1. /\ Reading(q) /\ UNCHANGED <<loaded, recent>>
        /\ \A r \in Readers \ {q} : res'[r] = res[r] /\ result'[r] = result[r]
    BY <1>1, <1>8 DEF Get, DeleteExpired, Reading, TypeOK
  <2>2. ASSUME ~overlapped, res'[q] = "done"
        PROVE  result'[q] \in recent[q]
    <3>1. loaded[q] \in recent[q] /\ mirror[ReaderTool[q]] \in recent[q]
      BY <2>1, <2>2 DEF CurrentInv
    <3>2. CASE result' = [result EXCEPT ![q] = loaded[q]]
      BY <1>1, <3>1, <3>2 DEF TypeOK
    <3>3. ASSUME NEW x \in First(LiveRows(ReaderTool[q])),
                 result' = [result EXCEPT ![q] = data[x]]
          PROVE  result'[q] \in recent[q]
      <4>1. x \in Stores /\ row[x] = "live" /\ StoreTool[x] = ReaderTool[q]
        BY FirstIsLive
      <4>2. mirror[ReaderTool[q]] = data[x]
        BY <2>2, <4>1 DEF MirrorAgrees
      <4> QED  BY <1>1, <3>1, <3>3, <4>2 DEF TypeOK
    <3>4. ASSUME NEW x \in First(LiveRows(ReaderTool[q])),
                 res' = [res EXCEPT ![q] = "expired"]
          PROVE  FALSE
      BY <1>1, <2>2, <3>4 DEF TypeOK
    <3> QED  BY <1>8, <3>2, <3>3, <3>4 DEF Get, DeleteExpired
  <2>3. ResolvesCurrent'
    BY <1>2, <2>1, <2>2 DEF ResolvesCurrent
  <2>4. \A r \in Readers : Reading(r)' => Reading(r)
    BY <2>1 DEF Reading
  <2>5. CurrentInv'
    BY <1>2, <2>1, <2>4 DEF CurrentInv
  <2> QED  BY <1>5, <2>3, <2>5 DEF Read
<1> QED  BY <1>5, <1>7, <1>8 DEF Resolve

LEMMA RowInit == Init => RInv
<1> SUFFICES ASSUME Init  PROVE  RInv
  OBVIOUS
<1>1. /\ Storing = {} /\ Deleting = {} /\ last = mirror
      /\ \A s \in Stores : row[s] = "none" /\ pc[s] = "new"
      /\ \A q \in Readers : res[q] = "new"
      /\ doubled = {}
  BY DEF Init, Storing, Deleting
<1>2. OneRow /\ MirrorAgrees /\ ResolvesCurrent
  BY <1>1 DEF OneRow, MirrorAgrees, ResolvesCurrent
<1>3. DoubledInv /\ FoundInv /\ AloneInv /\ SeenInv /\ CurrentInv
  BY <1>1 DEF DoubledInv, FoundInv, AloneInv, SeenInv, CurrentInv, Reading
<1> QED  BY <1>2, <1>3, InitInv DEF RInv, RowsHold, IInv

LEMMA RowNext == RInv /\ [Next]_vars => RInv'
<1> SUFFICES ASSUME RInv, [Next]_vars  PROVE  RInv'
  OBVIOUS
<1>1. IInv'
  BY NextInv DEF RInv
<1>2. Rest' /\ Read'
  <2>1. CASE UNCHANGED vars
    <3>1. Storing' = Storing /\ Deleting' = Deleting
      BY <2>1 DEF Storing, Deleting, vars, pcVars, endVars
    <3>2. UNCHANGED <<row, data, mirror, target, pc, config, doomed, doubled,
                      overlapped, res, loaded, result, last, recent>>
      BY <2>1 DEF vars, rowVars, pcVars, endVars, resVars
    <3> QED  BY <3>1, <3>2, RowFrame, ReadFrame
  <2>2. CASE \E s \in Stores : Store(s) \/ Expire(s)
    BY <2>2, FindRow, CommitRow, StoreRow DEF Store
  <2>3. CASE \E d \in Disposals : EndReply(d)
    BY <2>3, DeleteRowsRow, DisposeRow, DisposeFailsRow DEF EndReply
  <2>4. CASE \E q \in Readers : Resolve(q)
    BY <2>4, ResolveRow
  <2> QED  BY <2>1, <2>2, <2>3, <2>4 DEF Next
<1> QED  BY <1>1, <1>2 DEF RInv, Rest, Read, RowsHold, IInv

\* A tool has one row, row and mirror hold the same data, and a tool is given
\* data that was current while it was resolved; the first unless two stores for
\* the tool were under way at once, the others unless any two writers were.
THEOREM RowsAndMirror == Spec => []RowsHold
<1>1. RInv => RowsHold
  BY DEF RInv
<1> QED  BY RowInit, RowNext, <1>1, PTL DEF Spec

(***************************************************************************)
(* Files.  Two facts carry the rest: nothing is asked of a file before its *)
(* upload has been answered, so no reader and no deletion meets a record   *)
(* that is still to be written; and whoever came after a deletion finds a  *)
(* deleted record at each step.                                            *)
(***************************************************************************)

\* What every variable holds.
FilesTypes ==
  /\ disk \in [Uploads -> {"none", "part", "whole"}]
  /\ record \in [Uploads -> {"none", "live", "deleted"}]
  /\ copies \in [Uploads -> Nat]
  /\ known \subseteq ToModel
  /\ doing \in [FileRequests -> {"new", "copying", "sending", "recording", "ask", "find",
                                 "serve", "copy", "removing", "deleting", "done",
                                 "failed", "refused", "skipped", "lost"}]
  /\ seen \in [Assemblings -> {"nothing", "image", "file"}]
  /\ served \subseteq Gets \cup Assemblings
  /\ late \subseteq Gets \cup Assemblings

\* How far an upload is, and what there is of its file.
UploadInv ==
  \A u \in Uploads :
    /\ doing[u] = "sending" => u \in ToModel
    /\ doing[u] \in {"sending", "recording"} => disk[u] = "whole"
    /\ doing[u] = "done" <=> record[u] # "none"
    /\ doing[u] \in {"new", "copying", "sending"} => u \notin known /\ copies[u] = 0
    /\ u \in known => copies[u] = 1

\* Nothing is asked of a file before its upload has been answered.
OrderInv ==
  \A r \in FileRequests \ Uploads : doing[r] # "new" => doing[FileOf[r]] = "done"

GrantsInv ==
  \A g \in grants : \E s \in Attachings :
    doing[s] = "done" /\ g = <<FileOf[s], Receiver[s]>>

DeleteInv == \A d \in Deletes : doing[d] = "done" => record[FileOf[d]] = "deleted"

Allowed(r) == \/ FileUser[r] = FileUser[FileOf[r]]
              \/ <<FileOf[r], FileUser[r]>> \in grants

\* Who is served was found to be allowed; who came late finds nothing.
ReadInv ==
  \A r \in Gets \cup Assemblings :
    /\ doing[r] = "serve" \/ r \in served => Allowed(r)
    /\ doing[r] \in {"new", "ask", "find", "serve"} => r \notin served
    /\ r \in late => /\ record[FileOf[r]] = "deleted"
                     /\ doing[r] \notin {"new", "serve", "copy"}
                     /\ r \notin served

\* What a reply has seen, and that it copies only what has no copy.
ReplyInv ==
  \A p \in Assemblings :
    /\ doing[p] \in {"new", "ask", "find", "serve", "copy"} => seen[p] = "nothing"
    /\ doing[p] = "copy" => ~AsImage(p)
    /\ doing[p] \in {"find", "serve", "copy"} /\ ~AsImage(p) => FileOf[p] \notin known
    /\ seen[p] = "image" => p \in served /\ FileOf[p] \in Images
    /\ seen[p] = "file" => copies[FileOf[p]] > 0
    /\ seen[p] # "nothing" => p \notin late

\* There is a copy for the upload, or one for each reply that made one.
Given(u) == {p \in Assemblings : FileOf[p] = u /\ seen[p] = "file"}

CopiesInv == \A u \in Uploads : copies[u] <= 1 + Cardinality(Given(u))

FilesInv ==
  /\ FilesTypes
  /\ UploadInv
  /\ OrderInv
  /\ GrantsInv
  /\ DeleteInv
  /\ ReadInv
  /\ ReplyInv
  /\ CopiesInv
  /\ RecordHasFile
  /\ DeletionRepeats

LEMMA FilesInitInv == FilesInit => FilesInv
<1> SUFFICES ASSUME FilesInit PROVE FilesInv
  OBVIOUS
<1>1. FilesTypes
  BY FilesAssumption DEF FilesInit, FilesTypes
<1>2. UploadInv /\ OrderInv /\ DeleteInv /\ RecordHasFile /\ DeletionRepeats
  BY FilesAssumption DEF FilesInit, UploadInv, OrderInv, DeleteInv, RecordHasFile,
       DeletionRepeats, FileRequests
<1>3. GrantsInv /\ ReadInv /\ ReplyInv
  BY FilesAssumption DEF FilesInit, GrantsInv, ReadInv, ReplyInv, FileRequests
<1>4. CopiesInv
  <2> SUFFICES ASSUME NEW u \in Uploads PROVE copies[u] <= 1 + Cardinality(Given(u))
    BY DEF CopiesInv
  <2>1. IsFiniteSet(Given(u))
    BY FilesAssumption, FS_Subset DEF Given
  <2>2. Cardinality(Given(u)) \in Nat
    BY <2>1, FS_CardinalityType
  <2> QED
    BY <2>2 DEF FilesInit
<1> QED
  BY <1>1, <1>2, <1>3, <1>4 DEF FilesInv

\* A step in which nobody is given a copy.
LEMMA CopiesFrame ==
  ASSUME CopiesInv, UNCHANGED <<copies, seen>>
  PROVE  CopiesInv'
BY DEF CopiesInv, Given

\* Replies are given more and more.
LEMMA GivenGrows ==
  ASSUME NEW u \in Uploads, \A p \in Assemblings : seen[p] = "file" => seen'[p] = "file"
  PROVE  /\ Cardinality(Given(u)) \in Nat /\ Cardinality(Given(u)') \in Nat
         /\ Cardinality(Given(u)) <= Cardinality(Given(u)')
<1>1. Given(u) \subseteq Given(u)' /\ Given(u)' \subseteq Assemblings
  BY DEF Given
<1>2. IsFiniteSet(Given(u)')
  BY <1>1, FilesAssumption, FS_Subset
<1> QED
  BY <1>1, <1>2, FS_Subset, FS_CardinalityType

LEMMA CopiesGrow ==
  ASSUME FilesInv, UNCHANGED copies,
         \A p \in Assemblings : seen[p] = "file" => seen'[p] = "file"
  PROVE  CopiesInv'
<1> SUFFICES ASSUME NEW u \in Uploads PROVE (copies[u] <= 1 + Cardinality(Given(u)))'
  BY DEF CopiesInv
<1>1. copies[u] <= 1 + Cardinality(Given(u)) /\ copies[u] \in Nat
  BY DEF FilesInv, CopiesInv, FilesTypes
<1> QED
  BY <1>1, GivenGrows

LEMMA CreateFileInv ==
  ASSUME FilesInv, NEW u \in Uploads, CreateFile(u)
  PROVE  FilesInv'
<1> USE FilesAssumption DEF FilesInv, CreateFile, Continues
<1>0. u \in FileRequests /\ u \notin FileRequests \ Uploads
  BY DEF FileRequests
<1>1. FilesTypes'
  BY <1>0 DEF FilesTypes
<1>2. UploadInv'
  BY <1>0 DEF FilesTypes, UploadInv
<1>3. OrderInv' /\ GrantsInv' /\ DeleteInv'
  BY <1>0 DEF FilesTypes, OrderInv, GrantsInv, DeleteInv, FileRequests
<1>4. ReadInv' /\ ReplyInv'
  BY <1>0 DEF FilesTypes, ReadInv, ReplyInv, AsImage, Allowed
<1>5. CopiesInv'
  BY CopiesFrame
<1>6. RecordHasFile' /\ DeletionRepeats'
  BY <1>0 DEF FilesTypes, RecordHasFile, DeletionRepeats, UploadInv
<1> QED
  BY <1>1, <1>2, <1>3, <1>4, <1>5, <1>6

LEMMA CopyFileInv ==
  ASSUME FilesInv, NEW u \in Uploads, CopyFile(u)
  PROVE  FilesInv'
<1> USE FilesAssumption DEF FilesInv
<1>0. u \in FileRequests /\ u \notin FileRequests \ Uploads
  BY DEF FileRequests
<1>1. /\ UNCHANGED <<record, copies, known, grants, seen, served, late>>
      /\ doing[u] = "copying"
  BY DEF CopyFile, Continues
<1>2. PICK to \in {"sending", "recording", "failed"} :
        /\ doing' = [doing EXCEPT ![u] = to]
        /\ to = "sending" => u \in ToModel
        /\ disk' = IF to = "failed" THEN disk ELSE [disk EXCEPT ![u] = "whole"]
  <2>1. CASE doing' = [doing EXCEPT ![u] = "failed"] /\ disk' = disk
    BY <2>1
  <2>2. CASE /\ Continues(u, "copying", IF u \in ToModel THEN "sending" ELSE "recording")
             /\ disk' = [disk EXCEPT ![u] = "whole"]
    BY <2>2 DEF Continues
  <2> QED
    BY <2>1, <2>2 DEF CopyFile, Continues
<1>3. record[u] = "none"
  BY <1>1 DEF UploadInv, FilesTypes
<1>4. FilesTypes'
  BY <1>0, <1>1, <1>2 DEF FilesTypes
<1>5. UploadInv'
  <2> SUFFICES ASSUME NEW v \in Uploads PROVE UploadInv!(v)'
    BY DEF UploadInv
  <2>1. UploadInv!(v)
    BY DEF UploadInv
  <2>2. CASE v = u
    BY <1>0, <1>1, <1>2, <1>3, <2>1, <2>2 DEF FilesTypes
  <2>3. CASE v # u
    <3>1. doing'[v] = doing[v] /\ disk'[v] = disk[v]
      BY <1>0, <1>2, <2>3 DEF FilesTypes
    <3> QED
      BY <1>1, <2>1, <3>1
  <2> QED
    BY <2>2, <2>3
<1>6. OrderInv' /\ GrantsInv' /\ DeleteInv'
  BY <1>0, <1>1, <1>2 DEF FilesTypes, OrderInv, GrantsInv, DeleteInv, FileRequests
<1>7. ReadInv'
  BY <1>0, <1>1, <1>2 DEF FilesTypes, ReadInv, Allowed, FileRequests
<1>8. ReplyInv'
  BY <1>0, <1>1, <1>2 DEF FilesTypes, ReplyInv, AsImage, FileRequests
<1>9. CopiesInv'
  BY <1>1, CopiesFrame
<1>10. RecordHasFile' /\ DeletionRepeats'
  BY <1>0, <1>1, <1>2, <1>3 DEF FilesTypes, RecordHasFile, DeletionRepeats, FileRequests
<1> QED
  BY <1>4, <1>5, <1>6, <1>7, <1>8, <1>9, <1>10

LEMMA SendToModelInv ==
  ASSUME FilesInv, NEW u \in Uploads, SendToModel(u)
  PROVE  FilesInv'
<1> USE FilesAssumption DEF FilesInv, SendToModel, Continues
<1>0. u \in FileRequests /\ u \notin FileRequests \ Uploads
  BY DEF FileRequests
<1>1. FilesTypes'
  BY <1>0 DEF FilesTypes, UploadInv
<1>2. UploadInv'
  BY <1>0 DEF FilesTypes, UploadInv
<1>3. OrderInv' /\ GrantsInv' /\ DeleteInv'
  BY <1>0 DEF FilesTypes, OrderInv, GrantsInv, DeleteInv, FileRequests
<1>4. ReadInv' /\ ReplyInv'
  BY <1>0 DEF FilesTypes, ReadInv, ReplyInv, AsImage, Allowed, UploadInv, OrderInv,
       FileRequests
<1>5. CopiesInv'
  <2> SUFFICES ASSUME NEW v \in Uploads PROVE (copies[v] <= 1 + Cardinality(Given(v)))'
    BY DEF CopiesInv
  <2>1. Given(v)' = Given(v) /\ IsFiniteSet(Given(v))
    BY FS_Subset DEF Given
  <2>2. Cardinality(Given(v)) \in Nat
    BY <2>1, FS_CardinalityType
  <2>3. copies[v] <= 1 + Cardinality(Given(v)) /\ copies[v] \in Nat
    BY DEF CopiesInv, FilesTypes
  <2>4. copies'[v] = copies[v] \/ copies'[v] = 1
    BY <2>3 DEF FilesTypes, UploadInv
  <2> QED
    BY <2>1, <2>2, <2>3, <2>4
<1>6. RecordHasFile' /\ DeletionRepeats'
  BY <1>0 DEF FilesTypes, RecordHasFile, DeletionRepeats, UploadInv
<1> QED
  BY <1>1, <1>2, <1>3, <1>4, <1>5, <1>6

LEMMA InsertRecordInv ==
  ASSUME FilesInv, NEW u \in Uploads, InsertRecord(u)
  PROVE  FilesInv'
<1> USE FilesAssumption DEF FilesInv, InsertRecord, Continues
<1>0. u \in FileRequests /\ u \notin FileRequests \ Uploads
  BY DEF FileRequests
<1>1. FilesTypes'
  BY <1>0 DEF FilesTypes
<1>2. UploadInv'
  <2>1. UNCHANGED <<copies, known>> /\ doing[u] = "recording"
    OBVIOUS
  <2>2. CASE doing' = [doing EXCEPT ![u] = "done"] /\ record' = [record EXCEPT ![u] = "live"]
             /\ disk' = disk
    BY <1>0, <2>1, <2>2 DEF FilesTypes, UploadInv
  <2>3. ASSUME NEW b \in {"none", disk[u]}, disk' = [disk EXCEPT ![u] = b],
               doing' = [doing EXCEPT ![u] = "failed"], record' = record
        PROVE  UploadInv'
    <3> SUFFICES ASSUME NEW v \in Uploads PROVE UploadInv!(v)'
      BY DEF UploadInv
    <3>1. UploadInv!(v)
      BY DEF UploadInv
    <3>2. CASE v = u
      BY <1>0, <2>1, <2>3, <3>1, <3>2 DEF FilesTypes
    <3>3. CASE v # u
      BY <1>0, <2>1, <2>3, <3>1, <3>3 DEF FilesTypes
    <3> QED
      BY <3>2, <3>3
  <2> QED
    BY <2>2, <2>3
<1>3. OrderInv' /\ GrantsInv'
  BY <1>0 DEF FilesTypes, OrderInv, GrantsInv, FileRequests
<1>4. DeleteInv'
  BY <1>0 DEF FilesTypes, OrderInv, DeleteInv, FileRequests
<1>5. ReadInv' /\ ReplyInv'
  BY <1>0 DEF FilesTypes, ReadInv, ReplyInv, AsImage, Allowed, UploadInv, FileRequests
<1>6. CopiesInv'
  BY CopiesFrame
<1>7. RecordHasFile' /\ DeletionRepeats'
  BY <1>0 DEF FilesTypes, RecordHasFile, DeletionRepeats, UploadInv, FileRequests
<1> QED
  BY <1>1, <1>2, <1>3, <1>4, <1>5, <1>6, <1>7

LEMMA AttachInv ==
  ASSUME FilesInv, NEW s \in Attachings, Attach(s)
  PROVE  FilesInv'
<1> USE FilesAssumption DEF FilesInv
<1>0. s \in FileRequests \ Uploads
  BY DEF FileRequests
<1>1. /\ UNCHANGED <<disk, record, copies, known, seen, served, late>>
      /\ doing[s] = "new" /\ doing[FileOf[s]] = "done"
      /\ grants \subseteq grants'
  BY DEF Attach, Continues, Named
<1>2. \/ doing' = [doing EXCEPT ![s] = "done"] /\ grants' \subseteq grants \cup {<<FileOf[s], Receiver[s]>>}
      \/ doing' = [doing EXCEPT ![s] = "refused"] /\ grants' = grants
  BY DEF Attach, Continues
<1>3. FilesTypes'
  BY <1>0, <1>1, <1>2 DEF FilesTypes
<1>4. UploadInv' /\ OrderInv' /\ DeleteInv'
  BY <1>0, <1>1, <1>2 DEF FilesTypes, UploadInv, OrderInv, DeleteInv, FileRequests
<1>5. GrantsInv'
  BY <1>0, <1>1, <1>2 DEF FilesTypes, GrantsInv, FileRequests
<1>6. ReadInv'
  BY <1>0, <1>1, <1>2 DEF FilesTypes, ReadInv, Allowed, FileRequests
<1>7. ReplyInv'
  BY <1>0, <1>1, <1>2 DEF FilesTypes, ReplyInv, AsImage, FileRequests
<1>8. CopiesInv'
  BY <1>1, CopiesFrame
<1>9. RecordHasFile' /\ DeletionRepeats'
  BY <1>0, <1>1, <1>2 DEF FilesTypes, RecordHasFile, DeletionRepeats, FileRequests
<1> QED
  BY <1>3, <1>4, <1>5, <1>6, <1>7, <1>8, <1>9

(***************************************************************************)
(* Reading.  Readers are neither uploads, messages nor deletions.          *)
(***************************************************************************)

LEMMA ReaderKind ==
  ASSUME NEW r \in Gets \cup Assemblings
  PROVE  r \in FileRequests \ Uploads /\ r \notin Deletes /\ r \notin Attachings
BY FilesAssumption DEF FileRequests

\* A reader goes on; what it writes is read by other readers only.
LEMMA ReaderGoesOn ==
  ASSUME FilesInv, NEW r \in Gets \cup Assemblings,
         NEW to \in {"ask", "find", "serve", "copy", "done", "skipped"},
         doing[FileOf[r]] = "done", doing' = [doing EXCEPT ![r] = to],
         UNCHANGED <<disk, record, known, grants>>
  PROVE  OrderInv' /\ GrantsInv' /\ DeleteInv' /\ RecordHasFile' /\ DeletionRepeats'
<1> USE FilesAssumption, ReaderKind DEF FilesInv
<1>1. OrderInv' /\ DeleteInv'
  BY DEF OrderInv, DeleteInv, FilesTypes, FileRequests
<1>2. GrantsInv'
  BY DEF GrantsInv, FilesTypes, FileRequests
<1>3. RecordHasFile' /\ DeletionRepeats'
  BY DEF RecordHasFile, DeletionRepeats, FilesTypes, FileRequests
<1> QED
  BY <1>1, <1>2, <1>3

\* ... and with the copies there are, uploads stand as they do.
LEMMA UploadsFrame ==
  ASSUME FilesInv, NEW r \in Gets \cup Assemblings, NEW to,
         doing' = [doing EXCEPT ![r] = to], UNCHANGED <<disk, record, known, copies>>
  PROVE  UploadInv'
<1>1. \A u \in Uploads : doing'[u] = doing[u]
  BY ReaderKind, FilesAssumption DEF FilesInv, FilesTypes, FileRequests
<1> QED
  BY <1>1 DEF FilesInv, UploadInv

LEMMA ComeInv ==
  ASSUME FilesInv, NEW r \in Gets \cup Assemblings, Come(r)
  PROVE  FilesInv'
<1> USE FilesAssumption, ReaderKind DEF FilesInv
<1>1. /\ UNCHANGED <<disk, record, copies, known, grants, seen, served>>
      /\ doing[r] = "new"
      /\ late' = IF AfterDeletion(r) THEN late \cup {r} ELSE late
  BY DEF Come, Continues
<1>2. PICK to \in {"find", "ask", "skipped"} :
        /\ doing' = [doing EXCEPT ![r] = to]
        /\ to = "find" /\ r \in Assemblings => AsImage(r)
  BY DEF Come, Continues
<1>3. doing[FileOf[r]] = "done"
  <2>1. CASE r \in Gets
    BY <2>1 DEF Come, Named
  <2>2. CASE r \in Assemblings
    BY <2>2 DEF Come, OrderInv, FileRequests
  <2> QED
    BY <2>1, <2>2
<1>4. AfterDeletion(r) => record[FileOf[r]] = "deleted"
  BY DEF AfterDeletion, DeleteInv
<1>5. FilesTypes'
  BY <1>1, <1>2 DEF FilesTypes
<1>6. UploadInv'
  BY <1>1, <1>2, UploadsFrame
<1>7. OrderInv' /\ GrantsInv' /\ DeleteInv' /\ RecordHasFile' /\ DeletionRepeats'
  BY <1>1, <1>2, <1>3, ReaderGoesOn
<1>8. ReadInv'
  BY <1>1, <1>2, <1>4 DEF ReadInv, Allowed, FilesTypes
<1>9. ReplyInv'
  BY <1>1, <1>2 DEF ReplyInv, ReadInv, AsImage, FilesTypes
<1>10. CopiesInv'
  BY <1>1, CopiesFrame
<1> QED
  BY <1>5, <1>6, <1>7, <1>8, <1>9, <1>10

LEMMA FindRecordInv ==
  ASSUME FilesInv, NEW r \in Gets \cup Assemblings, FindRecord(r)
  PROVE  FilesInv'
<1> USE FilesAssumption, ReaderKind DEF FilesInv
<1>1. /\ UNCHANGED <<disk, record, copies, known, grants, seen, served, late>>
      /\ doing[r] = "find"
  BY DEF FindRecord, Continues
<1>2. PICK to \in {"serve", "skipped"} :
        /\ doing' = [doing EXCEPT ![r] = to]
        /\ to = "serve" => Found(r)
  BY DEF FindRecord, Continues
<1>3. doing[FileOf[r]] = "done"
  BY <1>1 DEF OrderInv, FileRequests
<1>5. FilesTypes'
  BY <1>1, <1>2 DEF FilesTypes
<1>6. UploadInv'
  BY <1>1, <1>2, UploadsFrame
<1>7. OrderInv' /\ GrantsInv' /\ DeleteInv' /\ RecordHasFile' /\ DeletionRepeats'
  BY <1>1, <1>2, <1>3, ReaderGoesOn
<1>8. ReadInv'
  BY <1>1, <1>2 DEF ReadInv, Allowed, Found, FilesTypes
<1>9. ReplyInv'
  BY <1>1, <1>2 DEF ReplyInv, AsImage, FilesTypes
<1>10. CopiesInv'
  BY <1>1, CopiesFrame
<1> QED
  BY <1>5, <1>6, <1>7, <1>8, <1>9, <1>10

LEMMA AskForCopyInv ==
  ASSUME FilesInv, NEW p \in Assemblings, AskForCopy(p)
  PROVE  FilesInv'
<1> USE FilesAssumption, ReaderKind DEF FilesInv
<1>1. /\ UNCHANGED <<disk, record, copies, known, grants, served, late>>
      /\ doing[p] = "ask"
  BY DEF AskForCopy, Continues
<1>2. PICK to \in {"done", "find", "skipped"} :
        /\ doing' = [doing EXCEPT ![p] = to]
        /\ to # "skipped" => Found(p)
        /\ to = "find" => FileOf[p] \notin known
        /\ to = "done" => FileOf[p] \in known
        /\ seen' = IF to = "done" THEN [seen EXCEPT ![p] = "file"] ELSE seen
  BY DEF AskForCopy, Continues
<1>3. doing[FileOf[p]] = "done"
  BY <1>1 DEF OrderInv, FileRequests
<1>4. FileOf[p] \in Uploads
  BY DEF FileRequests
<1>5. FilesTypes'
  BY <1>1, <1>2 DEF FilesTypes
<1>6. UploadInv'
  BY <1>1, <1>2, UploadsFrame
<1>7. OrderInv' /\ GrantsInv' /\ DeleteInv' /\ RecordHasFile' /\ DeletionRepeats'
  BY <1>1, <1>2, <1>3, ReaderGoesOn
<1>8. ReadInv'
  BY <1>1, <1>2 DEF ReadInv, Allowed, FilesTypes
<1>9. ReplyInv'
  <2>1. to # "skipped" => p \notin late
    BY <1>2 DEF ReadInv, Found
  <2>2. to = "done" => copies[FileOf[p]] > 0
    BY <1>2, <1>4 DEF UploadInv
  <2> QED
    BY <1>1, <1>2, <2>1, <2>2 DEF ReplyInv, AsImage, FilesTypes
<1>10. CopiesInv'
  <2>1. \A q \in Assemblings : seen[q] = "file" => seen'[q] = "file"
    BY <1>2 DEF FilesTypes
  <2> QED
    BY <1>1, <2>1, CopiesGrow
<1> QED
  BY <1>5, <1>6, <1>7, <1>8, <1>9, <1>10

LEMMA ServeInv ==
  ASSUME FilesInv, NEW r \in Gets \cup Assemblings, Serve(r)
  PROVE  FilesInv'
<1> USE FilesAssumption, ReaderKind DEF FilesInv
<1>1. /\ UNCHANGED <<disk, record, copies, known, grants, late>>
      /\ doing[r] = "serve"
  BY DEF Serve, Continues
<1>2. PICK to \in {"skipped", "done", "copy"} :
        /\ doing' = [doing EXCEPT ![r] = to]
        /\ to = "copy" => r \notin Gets /\ ~AsImage(r)
        /\ served' = IF to = "skipped" THEN served ELSE served \cup {r}
        /\ seen' = IF to # "skipped" /\ r \in Assemblings /\ AsImage(r)
                   THEN [seen EXCEPT ![r] = "image"] ELSE seen
  BY DEF Serve, Continues
<1>3. doing[FileOf[r]] = "done"
  BY <1>1 DEF OrderInv, FileRequests
<1>5. FilesTypes'
  BY <1>1, <1>2 DEF FilesTypes
<1>6. UploadInv'
  BY <1>1, <1>2, UploadsFrame
<1>7. OrderInv' /\ GrantsInv' /\ DeleteInv' /\ RecordHasFile' /\ DeletionRepeats'
  BY <1>1, <1>2, <1>3, ReaderGoesOn
<1>8. ReadInv'
  BY <1>1, <1>2 DEF ReadInv, Allowed, FilesTypes
<1>9. ReplyInv'
  <2>1. r \notin late
    BY <1>1 DEF ReadInv
  <2> SUFFICES ASSUME NEW p \in Assemblings PROVE ReplyInv!(p)'
    BY DEF ReplyInv
  <2>2. ReplyInv!(p)
    BY DEF ReplyInv
  <2>3. CASE p = r
    BY <1>1, <1>2, <2>1, <2>2, <2>3 DEF AsImage, FilesTypes
  <2>4. CASE p # r
    BY <1>1, <1>2, <2>2, <2>4 DEF AsImage, FilesTypes
  <2> QED
    BY <2>3, <2>4
<1>10. CopiesInv'
  <2>1. r \in Assemblings => seen[r] = "nothing"
    BY <1>1 DEF ReplyInv
  <2>2. \A p \in Assemblings : seen[p] = "file" => seen'[p] = "file"
    BY <1>2, <2>1 DEF FilesTypes
  <2> QED
    BY <1>1, <2>2, CopiesGrow
<1> QED
  BY <1>5, <1>6, <1>7, <1>8, <1>9, <1>10

LEMMA CopyToModelInv ==
  ASSUME FilesInv, NEW p \in Assemblings, CopyToModel(p)
  PROVE  FilesInv'
<1> USE FilesAssumption, ReaderKind DEF FilesInv
<1> DEFINE f == FileOf[p]
<1>0. f \in Uploads
  BY DEF FileRequests
<1>1. /\ UNCHANGED <<disk, record, known, grants, served, late>>
      /\ doing[p] = "copy"
  BY DEF CopyToModel, Continues
<1>2. PICK to \in {"done", "skipped"} :
        /\ doing' = [doing EXCEPT ![p] = to]
        /\ seen' = IF to = "done" THEN [seen EXCEPT ![p] = "file"] ELSE seen
        /\ copies' = IF to = "done" THEN [copies EXCEPT ![f] = @ + 1] ELSE copies
  BY DEF CopyToModel, Continues
<1>3. doing[f] = "done" /\ f \notin known
  BY <1>1 DEF OrderInv, ReplyInv, FileRequests
<1>4. seen[p] = "nothing" /\ p \notin late
  BY <1>1 DEF ReplyInv, ReadInv
<1> HIDE DEF f
<1>5. /\ copies' \in [Uploads -> Nat]
      /\ \A u \in Uploads : u # f => copies'[u] = copies[u]
      /\ \A u \in Uploads : copies'[u] >= copies[u]
      /\ to = "done" => copies'[f] = copies[f] + 1
  BY <1>0, <1>2 DEF FilesTypes
<1>6. FilesTypes'
  BY <1>1, <1>2, <1>5 DEF FilesTypes
<1>7. UploadInv'
  <2>1. \A u \in Uploads : doing'[u] = doing[u]
    BY <1>2 DEF FilesTypes, FileRequests
  <2> QED
    BY <1>1, <1>3, <1>5, <2>1 DEF UploadInv
<1>8. OrderInv' /\ GrantsInv' /\ DeleteInv' /\ RecordHasFile' /\ DeletionRepeats'
  BY <1>1, <1>2, <1>3, ReaderGoesOn DEF f
<1>9. ReadInv'
  BY <1>1, <1>2 DEF ReadInv, Allowed, FilesTypes
<1>10. ReplyInv'
  <2> SUFFICES ASSUME NEW q \in Assemblings PROVE ReplyInv!(q)'
    BY DEF ReplyInv
  <2>1. ReplyInv!(q)
    BY DEF ReplyInv
  <2>2. FileOf[q] \in Uploads
    BY DEF FileRequests
  <2>3. CASE q = p
    <3>1. to = "done" => copies'[f] > 0
      BY <1>0, <1>5 DEF FilesTypes
    <3> QED
      BY <1>1, <1>2, <1>4, <2>1, <2>3, <3>1 DEF AsImage, FilesTypes, f
  <2>4. CASE q # p
    <3>1. copies[FileOf[q]] > 0 => copies'[FileOf[q]] > 0
      BY <1>5, <2>2 DEF FilesTypes
    <3> QED
      BY <1>1, <1>2, <2>1, <2>4, <3>1 DEF AsImage, FilesTypes
  <2> QED
    BY <2>3, <2>4
<1>11. CopiesInv'
  <2> SUFFICES ASSUME NEW u \in Uploads PROVE (copies[u] <= 1 + Cardinality(Given(u)))'
    BY DEF CopiesInv
  <2>1. copies[u] <= 1 + Cardinality(Given(u)) /\ copies[u] \in Nat /\ copies'[u] \in Nat
    BY <1>5 DEF CopiesInv, FilesTypes
  <2>2. \A q \in Assemblings : seen[q] = "file" => seen'[q] = "file"
    BY <1>2 DEF FilesTypes
  <2>3. CASE u = f /\ to = "done"
    <3>1. Given(u)' = Given(u) \cup {p} /\ p \notin Given(u)
      BY <1>2, <1>4, <2>3 DEF Given, FilesTypes, f
    <3>2. IsFiniteSet(Given(u))
      BY FS_Subset DEF Given
    <3>3. Cardinality(Given(u)') = Cardinality(Given(u)) + 1 /\ Cardinality(Given(u)) \in Nat
      BY <3>1, <3>2, FS_AddElement, FS_CardinalityType
    <3> QED
      BY <1>5, <2>1, <2>3, <3>3
  <2>4. CASE ~(u = f /\ to = "done")
    <3>1. copies'[u] = copies[u]
      BY <1>2, <1>5, <2>4
    <3> QED
      BY <2>1, <2>2, <3>1, GivenGrows
  <2> QED
    BY <2>3, <2>4
<1> QED
  BY <1>6, <1>7, <1>8, <1>9, <1>10, <1>11

(***************************************************************************)
(* Deletion.                                                               *)
(***************************************************************************)

LEMMA DeletionKind ==
  ASSUME NEW d \in Deletes
  PROVE  d \in FileRequests \ Uploads /\ d \notin Attachings \cup Assemblings \cup Gets
BY FilesAssumption DEF FileRequests

LEMMA FindOwnInv ==
  ASSUME FilesInv, NEW d \in Deletes, FindOwn(d)
  PROVE  FilesInv'
<1> USE FilesAssumption, DeletionKind DEF FilesInv
<1>0. FileOf[d] \in Uploads
  BY DEF FileRequests
<1>1. /\ UNCHANGED <<disk, record, copies, known, grants, seen, served, late>>
      /\ doing[d] = "new" /\ doing[FileOf[d]] = "done"
  BY DEF FindOwn, Continues, Named
<1>2. PICK to \in {"removing", "refused"} :
        /\ doing' = [doing EXCEPT ![d] = to]
        /\ to = "refused" /\ FileUser[d] = FileUser[FileOf[d]] => record[FileOf[d]] # "live"
  BY DEF FindOwn, Continues
<1>3. record[FileOf[d]] \in {"live", "deleted"}
  BY <1>0, <1>1 DEF UploadInv, FilesTypes
<1>4. FilesTypes'
  BY <1>1, <1>2 DEF FilesTypes
<1>5. UploadInv'
  <2>1. \A u \in Uploads : doing'[u] = doing[u]
    BY <1>2 DEF FilesTypes, FileRequests
  <2> QED
    BY <1>1, <2>1 DEF UploadInv
<1>6. OrderInv' /\ DeleteInv'
  BY <1>1, <1>2 DEF OrderInv, DeleteInv, FilesTypes, FileRequests
<1>7. GrantsInv'
  BY <1>1, <1>2 DEF GrantsInv, FilesTypes
<1>8. ReadInv'
  BY <1>1, <1>2 DEF ReadInv, Allowed, FilesTypes
<1>9. ReplyInv'
  BY <1>1, <1>2 DEF ReplyInv, AsImage, FilesTypes
<1>10. CopiesInv'
  BY <1>1, CopiesFrame
<1>11. RecordHasFile'
  BY <1>1, <1>2 DEF RecordHasFile, FilesTypes
<1>12. DeletionRepeats'
  BY <1>1, <1>2, <1>3 DEF DeletionRepeats, FilesTypes
<1> QED
  BY <1>4, <1>5, <1>6, <1>7, <1>8, <1>9, <1>10, <1>11, <1>12

LEMMA RemoveFromDiskInv ==
  ASSUME FilesInv, NEW d \in Deletes, RemoveFromDisk(d)
  PROVE  FilesInv'
<1> USE FilesAssumption, DeletionKind DEF FilesInv
<1>0. FileOf[d] \in Uploads
  BY DEF FileRequests
<1>1. /\ UNCHANGED <<record, copies, known, grants, seen, served, late>>
      /\ doing[d] = "removing"
      /\ doing' = [doing EXCEPT ![d] = "deleting"]
  BY DEF RemoveFromDisk, Continues
<1>2. PICK bytes \in {"none", disk[FileOf[d]]} : disk' = [disk EXCEPT ![FileOf[d]] = bytes]
  BY DEF RemoveFromDisk
<1>3. doing[FileOf[d]] = "done"
  BY <1>1 DEF OrderInv, FileRequests
<1>4. FilesTypes'
  BY <1>0, <1>1, <1>2 DEF FilesTypes
<1>5. UploadInv'
  <2>1. \A u \in Uploads : doing'[u] = doing[u]
    BY <1>1 DEF FilesTypes, FileRequests
  <2>2. \A u \in Uploads : doing[u] # "done" => disk'[u] = disk[u]
    BY <1>2, <1>3 DEF FilesTypes
  <2> QED
    BY <1>1, <2>1, <2>2 DEF UploadInv
<1>6. OrderInv' /\ DeleteInv'
  BY <1>1 DEF OrderInv, DeleteInv, FilesTypes, FileRequests
<1>7. GrantsInv'
  BY <1>1 DEF GrantsInv, FilesTypes
<1>8. ReadInv'
  BY <1>1 DEF ReadInv, Allowed, FilesTypes
<1>9. ReplyInv'
  BY <1>1 DEF ReplyInv, AsImage, FilesTypes
<1>10. CopiesInv'
  BY <1>1, CopiesFrame
<1>11. RecordHasFile'
  BY <1>1, <1>2 DEF RecordHasFile, FilesTypes
<1>12. DeletionRepeats'
  BY <1>1 DEF DeletionRepeats, FilesTypes
<1> QED
  BY <1>4, <1>5, <1>6, <1>7, <1>8, <1>9, <1>10, <1>11, <1>12

LEMMA DeleteRecordInv ==
  ASSUME FilesInv, NEW d \in Deletes, DeleteRecord(d)
  PROVE  FilesInv'
<1> USE FilesAssumption, DeletionKind DEF FilesInv
<1>0. FileOf[d] \in Uploads
  BY DEF FileRequests
<1>1. /\ UNCHANGED <<disk, copies, known, grants, seen, served, late>>
      /\ doing[d] = "deleting"
  BY DEF DeleteRecord, Continues
<1>2. PICK to \in {"done", "failed"} :
        /\ doing' = [doing EXCEPT ![d] = to]
        /\ record' = IF to = "done" THEN [record EXCEPT ![FileOf[d]] = "deleted"] ELSE record
  BY DEF DeleteRecord, Continues
<1>3. doing[FileOf[d]] = "done"
  BY <1>1 DEF OrderInv, FileRequests
<1>4. /\ record' \in [Uploads -> {"none", "live", "deleted"}]
      /\ \A u \in Uploads : record[u] = "deleted" => record'[u] = "deleted"
      /\ \A u \in Uploads : record'[u] = "live" => record[u] = "live"
      /\ \A u \in Uploads : record'[u] = "none" <=> record[u] = "none"
      /\ to = "done" => record'[FileOf[d]] = "deleted"
  BY <1>0, <1>2, <1>3 DEF UploadInv, FilesTypes
<1>5. FilesTypes'
  BY <1>1, <1>2, <1>4 DEF FilesTypes
<1>6. UploadInv'
  <2>1. \A u \in Uploads : doing'[u] = doing[u]
    BY <1>2 DEF FilesTypes, FileRequests
  <2> QED
    BY <1>1, <1>4, <2>1 DEF UploadInv
<1>7. OrderInv'
  BY <1>1, <1>2, <1>3 DEF OrderInv, FilesTypes, FileRequests
<1>8. DeleteInv' /\ DeletionRepeats'
  BY <1>1, <1>2, <1>4 DEF DeleteInv, DeletionRepeats, FilesTypes, FileRequests
<1>9. GrantsInv'
  BY <1>1, <1>2 DEF GrantsInv, FilesTypes
<1>10. ReadInv'
  BY <1>1, <1>2, <1>4 DEF ReadInv, Allowed, FilesTypes, FileRequests
<1>11. ReplyInv'
  BY <1>1, <1>2 DEF ReplyInv, AsImage, FilesTypes
<1>12. CopiesInv'
  BY <1>1, CopiesFrame
<1>13. RecordHasFile'
  BY <1>1, <1>2, <1>4 DEF RecordHasFile, FilesTypes
<1> QED
  BY <1>5, <1>6, <1>7, <1>8, <1>9, <1>10, <1>11, <1>12, <1>13

LEMMA FilesCrashInv ==
  ASSUME FilesInv, FilesCrash
  PROVE  FilesInv'
<1> USE FilesAssumption DEF FilesInv
<1>1. /\ UNCHANGED <<disk, record, copies, known, grants, seen, served, late>>
      /\ doing' \in [FileRequests -> {"new", "copying", "sending", "recording", "ask", "find",
                                 "serve", "copy", "removing", "deleting", "done",
                                 "failed", "refused", "skipped", "lost"}]
      /\ \A r \in FileRequests : doing'[r] = "lost" \/ doing'[r] = doing[r]
      /\ \A r \in FileRequests : doing[r] \in {"new", "done", "refused"} => doing'[r] = doing[r]
  BY DEF FilesCrash, FilesTypes, Ended
<1>2. FilesTypes'
  BY <1>1 DEF FilesTypes
<1>3. UploadInv'
  BY <1>1 DEF UploadInv, FilesTypes, FileRequests
<1>4. OrderInv' /\ DeleteInv' /\ DeletionRepeats'
  BY <1>1 DEF OrderInv, DeleteInv, DeletionRepeats, FileRequests
<1>5. GrantsInv'
  BY <1>1 DEF GrantsInv, FileRequests
<1>6. ReadInv'
  BY <1>1 DEF ReadInv, Allowed, FileRequests
<1>7. ReplyInv'
  BY <1>1 DEF ReplyInv, AsImage, FileRequests
<1>8. CopiesInv'
  BY <1>1, CopiesFrame
<1>9. RecordHasFile'
  BY <1>1 DEF RecordHasFile, FileRequests
<1> QED
  BY <1>2, <1>3, <1>4, <1>5, <1>6, <1>7, <1>8, <1>9

LEMMA FilesStepInv == FilesInv /\ [FilesNext]_fileVars => FilesInv'
<1> SUFFICES ASSUME FilesInv, [FilesNext]_fileVars PROVE FilesInv'
  OBVIOUS
<1>1. CASE FilesNext
  BY <1>1, CreateFileInv, CopyFileInv, SendToModelInv, InsertRecordInv, AttachInv,
     ComeInv, FindRecordInv, ServeInv, AskForCopyInv, CopyToModelInv, FindOwnInv,
     RemoveFromDiskInv, DeleteRecordInv, FilesCrashInv DEF FilesNext
<1>2. CASE UNCHANGED fileVars
  BY <1>2 DEF fileVars, FilesInv, FilesTypes, UploadInv, OrderInv, GrantsInv, DeleteInv,
       ReadInv, Allowed, ReplyInv, AsImage, CopiesInv, Given, RecordHasFile, DeletionRepeats
<1> QED
  BY <1>1, <1>2

LEMMA FilesInvHold == FilesInv => FilesHold
<1> SUFFICES ASSUME FilesInv PROVE FilesHold
  OBVIOUS
<1> USE FilesAssumption DEF FilesInv
<1>1. copies \in [Uploads -> 0 .. 1 + Cardinality(Assemblings)]
  <2> SUFFICES ASSUME NEW u \in Uploads PROVE copies[u] \in 0 .. 1 + Cardinality(Assemblings)
    BY DEF FilesTypes
  <2>1. Given(u) \subseteq Assemblings
    BY DEF Given
  <2>2. /\ Cardinality(Given(u)) \in Nat /\ Cardinality(Assemblings) \in Nat
        /\ Cardinality(Given(u)) <= Cardinality(Assemblings)
    BY <2>1, FS_Subset, FS_CardinalityType
  <2>3. copies[u] \in Nat /\ copies[u] <= 1 + Cardinality(Given(u))
    BY DEF FilesTypes, CopiesInv
  <2> QED
    BY <2>2, <2>3
<1>2. known \subseteq {u \in ToModel : copies[u] > 0}
  BY DEF FilesTypes, UploadInv
<1>3. grants \subseteq {<<FileOf[s], Receiver[s]>> :
                        s \in {a \in Attachings : doing[a] = "done"}}
  BY DEF GrantsInv
<1>4. FilesTypeOK
  BY <1>1, <1>2, <1>3 DEF FilesTypes, FilesTypeOK
<1>5. ServedRightly
  BY DEF ServedRightly, ReadInv, Allowed, FilesTypes
<1>6. ModelReads
  BY DEF ModelReads, ReplyInv, UploadInv, FileRequests
<1> QED
  BY <1>4, <1>5, <1>6 DEF FilesHold

\* Records, disk, grants and copies agree after any uploads, messages, replies,
\* deletions, failures and crashes (Files.go, MessageSend.go, Attachments.go).
THEOREM FilesKept == FilesSpec => []FilesHold
BY FilesInitInv, FilesStepInv, FilesInvHold, PTL DEF FilesSpec

(***************************************************************************)
(* Chats.  A row is written whole from what its writer holds, so what      *)
(* writers hold is a row of the chat, too, and how far a creation is says  *)
(* what is in place.  A link is named after its request, and a dead one    *)
(* was ended by its user.                                                  *)
(***************************************************************************)

\* What every variable holds.
ChatRows == [latest : Makes \cup Sends \cup {Nothing}, config : Makes \cup Gives \cup {Nothing}]

ChatsTypes ==
  /\ chat \in [Makes -> ChatRows]
  /\ messages \in [Makes -> SUBSET (Makes \cup Sends)]
  /\ access \in [Makes -> {"none", "granted", "missed"}]
  /\ scheduled \subseteq {c \in Makes : NeedsReply(c)}
  /\ held \in [Makes \cup Sends \cup Gives -> ChatRows]
  /\ stage \in [ChatRequests -> {"new", "inserted", "loaded", "stored", "files",
                                 "started", "ready", "send", "giving",
                                 "asking", "making", "done"}]
  /\ DOMAIN link = Askers
  /\ DOMAIN ended = Unpublishes

\* A row that is stored, or held by a request, is one of the chat: its message is
\* there, and its config one for the chat, given by nobody who had found one.
Linked(g) == stage[g] = "done" /\ held[g].config = Nothing

RightRow(r, c) ==
  /\ r.latest \in messages[c] \cup {Nothing}
  /\ r.config \in {c, Nothing} \cup GivenTo(c)
  /\ r.config \in Gives => Linked(r.config)

RowsOfChats ==
  /\ \A c \in Makes :
       /\ RightRow(chat[c], c) /\ RightRow(held[c], c)
       /\ messages[c] \subseteq {c} \cup {s \in Sends : SendChat[s] = c}
  /\ \A s \in Sends : RightRow(held[s], SendChat[s])
  /\ \A g \in Gives : RightRow(held[g], GiveChat[g])

\* What a creation has done so far.
After(c, stages) == stage[c] \in stages

CreationInv ==
  \A c \in Makes :
    /\ c \in WithMessage
         /\ After(c, {"stored", "files", "started", "ready", "asking", "making", "done"})
       => c \in messages[c]
    /\ c \in WithMessage
         /\ After(c, {"files", "started", "ready", "asking", "making", "done"})
       => held[c].latest # Nothing
    /\ c \in WithFiles /\ After(c, {"started", "ready", "asking", "making", "done"})
       => access[c] # "none"
    /\ c \in WithConfig /\ After(c, {"ready", "asking", "making", "done"})
       => chat[c].config # Nothing
    /\ c \in scheduled => After(c, {"asking", "making", "done"})
    /\ After(c, {"loaded", "stored"}) => c \in WithMessage
    /\ After(c, {"files"}) => c \in WithFiles

\* Each link is named after the request that made it, and is dead only when its
\* user has ended publication.
NamedAfter(s, q) == s.name = Link(q) /\ s.chat = AskChat(q) /\ s.by = AskUser(q)

ShareRows == [name : {Link(q) : q \in Askers}, chat : Makes, by : {AskUser(q) : q \in Askers},
              place : Nat, live : BOOLEAN]

SharesInv ==
  /\ IsFiniteSet(shares) /\ shares \subseteq ShareRows
  /\ \A s \in shares : \E q \in Askers : stage[q] = "done" /\ NamedAfter(s, q)
  /\ \A s \in shares :
       s.live = FALSE => \E u \in Unpublishes : s.name \in ended[u] /\ UserOf[u] = s.by
  /\ \A s, t \in shares : s.name = t.name => s = t
  /\ \A u \in Unpublishes : \A name \in ended[u] :
       \E s \in shares : s.name = name /\ s.live = FALSE
  /\ \A u \in Unpublishes : stage[u] = "new" => ended[u] = {}
  /\ \A q \in Askers : link[q] # Nothing =>
       \E s \in shares : s.name = link[q] /\ s.chat = AskChat(q) /\ s.by = AskUser(q)

ChatsInv ==
  /\ ChatsTypes
  /\ RowsOfChats
  /\ CreationInv
  /\ SharesInv

LEMMA RequestKinds ==
  /\ \A c \in Makes : /\ c \in ChatRequests
                      /\ c \notin Sends \cup Gives \cup Publishes \cup Unpublishes
  /\ \A s \in Sends : /\ s \in ChatRequests
                      /\ s \notin Makes \cup Gives \cup Publishes \cup Unpublishes
                      /\ SendChat[s] \in Makes
  /\ \A g \in Gives : /\ g \in ChatRequests
                      /\ g \notin Makes \cup Sends \cup Askers \cup Unpublishes
                      /\ GiveChat[g] \in Makes
  /\ \A q \in Askers : /\ q \in ChatRequests
                       /\ q \notin Sends \cup Gives \cup Unpublishes
                       /\ AskChat(q) \in Makes /\ <<q>> \notin Makes
  /\ \A u \in Unpublishes : /\ u \in ChatRequests
                            /\ u \notin Makes \cup Sends \cup Gives \cup Publishes
                            /\ ChatOf[u] \in Makes
  /\ Nothing \notin Makes \cup Sends \cup Gives
BY ChatsAssumption DEF ChatRequests, Askers, AskChat

LEMMA ChatsInitInv == ChatsInit => ChatsInv
<1> SUFFICES ASSUME ChatsInit PROVE ChatsInv
  OBVIOUS
<1> USE RequestKinds DEF ChatsInit
<1>1. Blank \in ChatRows /\ Blank.latest = Nothing /\ Blank.config = Nothing
  BY DEF Blank, ChatRows
<1>2. ChatsTypes
  BY <1>1 DEF ChatsTypes
<1>3. RowsOfChats
  BY <1>1 DEF RowsOfChats, RightRow
<1>4. CreationInv
  BY ChatsAssumption DEF CreationInv, After
<1>5. SharesInv
  BY FS_EmptySet DEF SharesInv
<1> QED
  BY <1>2, <1>3, <1>4, <1>5 DEF ChatsInv

\* A request that takes no part in links goes on.
LEMMA SharesFrame ==
  ASSUME ChatsInv, NEW r \in ChatRequests, NEW to, stage' = [stage EXCEPT ![r] = to],
         to # "new", stage[r] # "done", UNCHANGED <<shares, link, ended>>
  PROVE  SharesInv'
<1>1. \A q \in Askers : stage[q] = "done" => stage'[q] = "done"
  BY RequestKinds DEF ChatsInv, ChatsTypes
<1>2. \A u \in Unpublishes : stage'[u] = "new" => stage[u] = "new"
  BY RequestKinds DEF ChatsInv, ChatsTypes
<1> QED
  BY <1>1, <1>2 DEF ChatsInv, SharesInv, NamedAfter, AskUser, AskChat

LEMMA InsertChatInv ==
  ASSUME ChatsInv, NEW c \in Makes, InsertChat(c)
  PROVE  ChatsInv'
<1> USE RequestKinds DEF ChatsInv
<1>1. /\ UNCHANGED <<chat, messages, access, scheduled, held, shares, link, ended>>
      /\ stage[c] = "new" /\ stage' = [stage EXCEPT ![c] = "inserted"]
  BY DEF InsertChat, Step
<1>2. ChatsTypes'
  BY <1>1 DEF ChatsTypes
<1>3. RowsOfChats'
  BY <1>1 DEF RowsOfChats, RightRow, Linked, ChatsTypes
<1>4. CreationInv'
  BY <1>1 DEF CreationInv, After, ChatsTypes
<1>5. SharesInv'
  BY <1>1, SharesFrame
<1> QED
  BY <1>2, <1>3, <1>4, <1>5

LEMMA LoadChatInv ==
  ASSUME ChatsInv, NEW c \in Makes, LoadChat(c)
  PROVE  ChatsInv'
<1> USE RequestKinds DEF ChatsInv
<1>1. /\ UNCHANGED <<chat, messages, access, scheduled, shares, link, ended>>
      /\ held' = [held EXCEPT ![c] = chat[c]]
      /\ stage[c] = "inserted"
  BY DEF LoadChat
<1>2. PICK to \in {"loaded", "started"} :
        stage' = [stage EXCEPT ![c] = to] /\ (c \in WithMessage <=> to = "loaded")
  BY DEF LoadChat, Step
<1>3. ChatsTypes'
  BY <1>1, <1>2 DEF ChatsTypes
<1>4. RowsOfChats'
  BY <1>1, <1>2 DEF RowsOfChats, RightRow, Linked, ChatsTypes
<1>5. CreationInv'
  BY <1>1, <1>2, ChatsAssumption DEF CreationInv, After, ChatsTypes
<1>6. SharesInv'
  BY <1>1, <1>2, SharesFrame
<1> QED
  BY <1>3, <1>4, <1>5, <1>6

LEMMA StoreFirstInv ==
  ASSUME ChatsInv, NEW c \in Makes, StoreFirst(c)
  PROVE  ChatsInv'
<1> USE RequestKinds DEF ChatsInv
<1>1. /\ UNCHANGED <<chat, access, scheduled, held, shares, link, ended>>
      /\ messages' = [messages EXCEPT ![c] = @ \cup {c}]
      /\ stage[c] = "loaded" /\ stage' = [stage EXCEPT ![c] = "stored"]
  BY DEF StoreFirst, Step
<1>2. ChatsTypes'
  BY <1>1 DEF ChatsTypes
<1>3. RowsOfChats'
  BY <1>1 DEF RowsOfChats, RightRow, Linked, ChatsTypes
<1>4. CreationInv'
  BY <1>1 DEF CreationInv, After, ChatsTypes
<1>5. SharesInv'
  BY <1>1, SharesFrame
<1> QED
  BY <1>2, <1>3, <1>4, <1>5

LEMMA SaveLatestInv ==
  ASSUME ChatsInv, NEW c \in Makes, SaveLatest(c)
  PROVE  ChatsInv' /\ (\A d \in WithMessage : chat[d].latest # Nothing => chat'[d].latest # Nothing)
<1> USE RequestKinds DEF ChatsInv
<1> DEFINE r == held'[c]
<1>1. /\ UNCHANGED <<messages, access, scheduled, shares, link, ended>>
      /\ chat' = [chat EXCEPT ![c] = r]
      /\ held' = [held EXCEPT ![c] = r]
      /\ stage[c] = "stored"
  BY DEF SaveLatest, ChatsTypes
<1>2. /\ r \in ChatRows
      /\ r.config = held[c].config
      /\ r.latest = IF held[c].latest = Nothing THEN c ELSE held[c].latest
  BY DEF SaveLatest, ChatsTypes, ChatRows
<1>3. PICK to \in {"files", "started"} :
        stage' = [stage EXCEPT ![c] = to] /\ (to = "files" <=> c \in WithFiles)
  BY DEF SaveLatest, Step
<1> HIDE DEF r
<1>4. ChatsTypes'
  BY <1>1, <1>2, <1>3 DEF ChatsTypes
<1>5. RightRow(r, c) /\ (c \in WithMessage => r.latest # Nothing)
  <2>1. c \in messages[c]
    BY <1>1 DEF CreationInv, After
  <2> QED
    BY <1>2, <2>1 DEF RowsOfChats, RightRow
<1>6. RowsOfChats'
  BY <1>1, <1>3, <1>5 DEF RowsOfChats, RightRow, Linked, ChatsTypes
<1>7. CreationInv'
  BY <1>1, <1>2, <1>3, <1>5, ChatsAssumption DEF CreationInv, After, ChatsTypes
<1>8. SharesInv'
  BY <1>1, <1>3, SharesFrame
<1>9. ASSUME NEW d \in WithMessage, chat[d].latest # Nothing PROVE chat'[d].latest # Nothing
  <2>1. d \in Makes
    BY ChatsAssumption
  <2> QED
    BY <1>1, <1>5, <1>9, <2>1 DEF ChatsTypes
<1> QED
  BY <1>4, <1>6, <1>7, <1>8, <1>9

LEMMA ShareFilesInv ==
  ASSUME ChatsInv, NEW c \in Makes, ShareFiles(c)
  PROVE  ChatsInv'
<1> USE RequestKinds DEF ChatsInv
<1>1. /\ UNCHANGED <<chat, messages, scheduled, held, shares, link, ended>>
      /\ stage[c] = "files" /\ stage' = [stage EXCEPT ![c] = "started"]
  BY DEF ShareFiles, Step
<1>2. PICK done \in {"granted", "missed"} : access' = [access EXCEPT ![c] = done]
  BY DEF ShareFiles
<1>3. ChatsTypes'
  BY <1>1, <1>2 DEF ChatsTypes
<1>4. RowsOfChats'
  BY <1>1 DEF RowsOfChats, RightRow, Linked, ChatsTypes
<1>5. CreationInv'
  BY <1>1, <1>2 DEF CreationInv, After, ChatsTypes
<1>6. SharesInv'
  BY <1>1, SharesFrame
<1> QED
  BY <1>3, <1>4, <1>5, <1>6

LEMMA SaveConfigInv ==
  ASSUME ChatsInv, NEW c \in Makes, SaveConfig(c)
  PROVE  ChatsInv' /\ (\A d \in WithMessage : chat[d].latest # Nothing => chat'[d].latest # Nothing)
<1> USE RequestKinds DEF ChatsInv
<1> DEFINE r == held'[c]
<1>1. /\ UNCHANGED <<messages, access, scheduled, shares, link, ended>>
      /\ chat' = [chat EXCEPT ![c] = r]
      /\ held' = [held EXCEPT ![c] = r]
      /\ stage[c] = "started" /\ stage' = [stage EXCEPT ![c] = "ready"]
  BY DEF SaveConfig, ChatsTypes, Step
<1>2. r \in ChatRows /\ r.config = c /\ r.latest = held[c].latest
  BY DEF SaveConfig, ChatsTypes, ChatRows
<1> HIDE DEF r
<1>3. ChatsTypes'
  BY <1>1, <1>2 DEF ChatsTypes
<1>4. RightRow(r, c) /\ (c \in WithMessage => r.latest # Nothing)
  BY <1>1, <1>2 DEF RowsOfChats, RightRow, CreationInv, After
<1>5. RowsOfChats'
  BY <1>1, <1>4 DEF RowsOfChats, RightRow, Linked, ChatsTypes
<1>6. CreationInv'
  BY <1>1, <1>2, <1>4 DEF CreationInv, After, ChatsTypes
<1>7. SharesInv'
  BY <1>1, SharesFrame
<1>8. ASSUME NEW d \in WithMessage, chat[d].latest # Nothing PROVE chat'[d].latest # Nothing
  <2>1. d \in Makes
    BY ChatsAssumption
  <2> QED
    BY <1>1, <1>4, <1>8, <2>1 DEF ChatsTypes
<1> QED
  BY <1>3, <1>5, <1>6, <1>7, <1>8

LEMMA ScheduleInv ==
  ASSUME ChatsInv, NEW c \in Makes, Schedule(c)
  PROVE  ChatsInv'
<1> USE RequestKinds DEF ChatsInv
<1>1. /\ UNCHANGED <<chat, messages, access, held, shares, link, ended>>
      /\ stage[c] = "ready" \/ (stage[c] = "started" /\ c \notin WithConfig)
  <2>1. Ready(c) /\ UNCHANGED <<chat, messages, access, held, shares, link, ended>>
    BY DEF Schedule
  <2> QED
    BY <2>1 DEF Ready
<1>2. /\ scheduled \subseteq scheduled' /\ scheduled' \subseteq scheduled \cup {c}
      /\ ~NeedsReply(c) => scheduled' = scheduled
  BY DEF Schedule
<1>3. PICK to \in {"asking", "done"} : stage' = [stage EXCEPT ![c] = to]
  BY DEF Schedule, Step
<1>4. ChatsTypes'
  BY <1>1, <1>2, <1>3 DEF ChatsTypes, NeedsReply
<1>5. RowsOfChats'
  BY <1>1, <1>3 DEF RowsOfChats, RightRow, Linked, ChatsTypes
<1>6. CreationInv'
  BY <1>1, <1>2, <1>3 DEF CreationInv, After, ChatsTypes
<1>7. SharesInv'
  BY <1>1, <1>3, SharesFrame
<1> QED
  BY <1>4, <1>5, <1>6, <1>7

(***************************************************************************)
(* Messages to a chat.                                                     *)
(***************************************************************************)

LEMMA LookUpChatInv ==
  ASSUME ChatsInv, NEW s \in Sends, LookUpChat(s)
  PROVE  ChatsInv'
<1> USE RequestKinds DEF ChatsInv
<1>1. /\ UNCHANGED <<chat, messages, access, scheduled, shares, link, ended>>
      /\ held' = [held EXCEPT ![s] = chat[SendChat[s]]]
      /\ stage[s] = "new"
  BY DEF LookUpChat
<1>2. PICK to \in {"done", "send"} : stage' = [stage EXCEPT ![s] = to]
  BY DEF LookUpChat, Step
<1>3. ChatsTypes'
  BY <1>1, <1>2 DEF ChatsTypes
<1>4. RowsOfChats'
  BY <1>1, <1>2 DEF RowsOfChats, RightRow, Linked, ChatsTypes
<1>5. CreationInv'
  BY <1>1, <1>2 DEF CreationInv, After, ChatsTypes
<1>6. SharesInv'
  BY <1>1, <1>2, SharesFrame
<1> QED
  BY <1>3, <1>4, <1>5, <1>6

LEMMA LookForConfigInv ==
  ASSUME ChatsInv, NEW g \in Gives, LookForConfig(g)
  PROVE  ChatsInv'
<1> USE RequestKinds DEF ChatsInv
<1>1. /\ UNCHANGED <<chat, messages, access, scheduled, shares, link, ended>>
      /\ held' = [held EXCEPT ![g] = chat[GiveChat[g]]]
      /\ stage[g] = "new" /\ stage' = [stage EXCEPT ![g] = "giving"]
  BY DEF LookForConfig, Step
<1>2. ChatsTypes'
  BY <1>1 DEF ChatsTypes
<1>3. RowsOfChats'
  BY <1>1 DEF RowsOfChats, RightRow, Linked, ChatsTypes
<1>4. CreationInv'
  BY <1>1 DEF CreationInv, After, ChatsTypes
<1>5. SharesInv'
  BY <1>1, SharesFrame
<1> QED
  BY <1>2, <1>3, <1>4, <1>5

LEMMA LinkConfigInv ==
  ASSUME ChatsInv, NEW g \in Gives, LinkConfig(g)
  PROVE  ChatsInv' /\ (\A d \in WithMessage : chat[d].latest # Nothing => chat'[d].latest # Nothing)
<1> USE RequestKinds DEF ChatsInv
<1> DEFINE c == GiveChat[g]
           r == chat'[c]
<1>1. /\ UNCHANGED <<messages, access, scheduled, held, shares, link, ended>>
      /\ stage[g] = "giving" /\ stage' = [stage EXCEPT ![g] = "done"]
  BY DEF LinkConfig, Step
<1>2. /\ chat' = [chat EXCEPT ![c] = r]
      /\ r \in ChatRows /\ r.latest = chat[c].latest
      /\ \/ r.config = g /\ held[g].config = Nothing
         \/ r.config = chat[c].config
  <2>1. c \in Makes /\ chat[c] \in ChatRows
    BY DEF ChatsTypes
  <2>2. CASE held[g].config = Nothing
    <3>1. chat' = [chat EXCEPT ![c].config = g]
      BY <2>2 DEF LinkConfig
    <3>2. r = [chat[c] EXCEPT !.config = g]
      BY <2>1, <3>1 DEF ChatsTypes
    <3>3. r \in ChatRows /\ r.latest = chat[c].latest /\ r.config = g
      BY <2>1, <3>2 DEF ChatRows
    <3>4. chat' = [chat EXCEPT ![c] = r]
      BY <3>1, <3>2
    <3> QED
      BY <2>2, <3>3, <3>4
  <2>3. CASE held[g].config # Nothing
    <3>1. chat' = chat
      BY <2>3 DEF LinkConfig
    <3> QED
      BY <2>1, <3>1 DEF ChatsTypes
  <2> QED
    BY <2>2, <2>3
<1>3. c \in Makes /\ g \in GivenTo(c)
  BY DEF GivenTo
<1> HIDE DEF r
<1>4. ChatsTypes'
  BY <1>1, <1>2, <1>3 DEF ChatsTypes
<1>5. RowsOfChats'
  BY <1>1, <1>2, <1>3 DEF RowsOfChats, RightRow, Linked, ChatsTypes
<1>6. CreationInv'
  BY <1>1, <1>2, <1>3 DEF CreationInv, After, ChatsTypes
<1>7. SharesInv'
  BY <1>1, SharesFrame
<1>8. ASSUME NEW d \in WithMessage, chat[d].latest # Nothing PROVE chat'[d].latest # Nothing
  <2>1. d \in Makes
    BY ChatsAssumption
  <2> QED
    BY <1>2, <1>8, <2>1 DEF ChatsTypes
<1> QED
  BY <1>4, <1>5, <1>6, <1>7, <1>8

LEMMA SendMessageInv ==
  ASSUME ChatsInv, NEW s \in Sends, SendMessage(s)
  PROVE  ChatsInv' /\ (\A d \in WithMessage : chat[d].latest # Nothing => chat'[d].latest # Nothing)
<1> USE RequestKinds DEF ChatsInv
<1> DEFINE c == SendChat[s]
           r == chat'[c]
<1>1. /\ UNCHANGED <<access, scheduled, held, shares, link, ended>>
      /\ stage[s] = "send" /\ stage' = [stage EXCEPT ![s] = "done"]
      /\ messages' = [messages EXCEPT ![c] = @ \cup {s}]
  BY DEF SendMessage, Step
<1>2. PICK newest \in {s, held[s].latest} \ {Nothing},
           conf \in {chat[c].config} \cup ({held[s].config} \ {Nothing}) :
        chat' = [chat EXCEPT ![c] = [latest |-> newest, config |-> conf]]
  BY DEF SendMessage
<1>3. c \in Makes
  OBVIOUS
<1>4. /\ chat' = [chat EXCEPT ![c] = r] /\ r \in ChatRows
      /\ r.latest = newest /\ r.config = conf
  <2>1. held[s] \in ChatRows /\ chat[c] \in ChatRows
    BY <1>3 DEF ChatsTypes
  <2>2. newest \in Makes \cup Sends \cup {Nothing} /\ conf \in Makes \cup Gives \cup {Nothing}
    BY <1>2, <2>1 DEF ChatRows
  <2>3. r = [latest |-> newest, config |-> conf]
    BY <1>2, <1>3 DEF ChatsTypes
  <2>4. r \in ChatRows /\ r.latest = newest /\ r.config = conf
    BY <2>2, <2>3 DEF ChatRows
  <2>5. chat' = [chat EXCEPT ![c] = r]
    BY <1>2, <2>3
  <2> QED
    BY <2>4, <2>5
<1> HIDE DEF r
<1>5. ChatsTypes'
  BY <1>1, <1>3, <1>4 DEF ChatsTypes
<1>6. RowsOfChats'
  BY <1>1, <1>2, <1>3, <1>4 DEF RowsOfChats, RightRow, Linked, ChatsTypes
<1>7. CreationInv'
  BY <1>1, <1>2, <1>3, <1>4 DEF CreationInv, After, ChatsTypes
<1>8. SharesInv'
  BY <1>1, SharesFrame
<1>9. ASSUME NEW d \in WithMessage, chat[d].latest # Nothing PROVE chat'[d].latest # Nothing
  <2>1. d \in Makes
    BY ChatsAssumption
  <2> QED
    BY <1>2, <1>4, <1>9, <2>1 DEF ChatsTypes
<1> QED
  BY <1>5, <1>6, <1>7, <1>8, <1>9

(***************************************************************************)
(* Links.                                                                  *)
(***************************************************************************)

\* Of some numbers one is the smallest: else with every lower bound the next
\* number were one too, and they are finitely many.
LEMMA SmallestNumber ==
  ASSUME NEW S \in SUBSET Nat, S # {}
  PROVE  \E n \in S : \A m \in S : n <= m
<1> DEFINE U == {n \in Nat : \A m \in S : n <= m}
<1>1. PICK x \in S : TRUE
  OBVIOUS
<1>2. U \subseteq 0 .. x /\ 0 \in U
  BY <1>1
<1>3. IsFiniteSet(U) /\ Cardinality(U) \in Nat
  <2>1. IsFiniteSet(0 .. x)
    BY <1>1, FS_Interval
  <2> QED
    BY <1>2, <2>1, FS_Subset, FS_CardinalityType
<1>4. IsFiniteSet(U \ {0}) /\ Cardinality(U \ {0}) = Cardinality(U) - 1
  BY <1>2, <1>3, FS_RemoveElement
<1>5. ~(\A n \in U : n + 1 \in U)
  <2> SUFFICES ASSUME \A n \in U : n + 1 \in U PROVE FALSE
    OBVIOUS
  <2> DEFINE f == [n \in U |-> n + 1]
  <2>1. f \in [U -> U \ {0}]
    OBVIOUS
  <2>2. \A m, n \in U : f[m] = f[n] => m = n
    OBVIOUS
  <2>3. f \in Injection(U, U \ {0})
    BY <2>1, <2>2 DEF Injection, IsInjective
  <2>4. Cardinality(U) <= Cardinality(U \ {0})
    BY <1>4, <2>3, FS_Injection
  <2> QED
    BY <1>3, <1>4, <2>4
<1>6. PICK n \in U : n + 1 \notin U
  BY <1>5
<1>7. PICK m \in S : ~(n + 1 <= m)
  BY <1>6
<1>8. n = m
  BY <1>6, <1>7
<1> QED
  BY <1>6, <1>7, <1>8

LEMMA EarliestFound ==
  ASSUME NEW F \in SUBSET ShareRows, F # {}
  PROVE  Earliest(F) \in F
<1> DEFINE P == {s.place : s \in F}
<1>1. P \in SUBSET Nat /\ P # {}
  BY DEF ShareRows
<1>2. PICK n \in P : \A m \in P : n <= m
  BY <1>1, SmallestNumber
<1>3. PICK s \in F : s.place = n
  OBVIOUS
<1>4. \A t \in F : s.place <= t.place
  BY <1>2, <1>3
<1> QED
  BY <1>3, <1>4 DEF Earliest

LEMMA EnsureShareInv ==
  ASSUME ChatsInv, NEW q \in Askers, EnsureShare(q)
  PROVE  ChatsInv'
<1> USE RequestKinds DEF ChatsInv
<1>1. /\ UNCHANGED <<chat, messages, access, scheduled, held, shares, ended>>
      /\ stage[q] \in {"asking", "new"} /\ (q \in Makes => stage[q] = "asking")
  BY DEF EnsureShare
<1>2. PICK to \in {"done", "making"} : stage' = [stage EXCEPT ![q] = to]
  BY DEF EnsureShare, Step
<1>3. \/ link' = link
      \/ \E s \in shares : /\ link' = [link EXCEPT ![q] = s.name]
                           /\ s.chat = AskChat(q) /\ s.by = AskUser(q)
  <2>1. CASE FindShare(q) # {} /\ link' = [link EXCEPT ![q] = Earliest(FindShare(q)).name]
    <3>1. Earliest(FindShare(q)) \in FindShare(q)
      BY <2>1, EarliestFound DEF FindShare, SharesInv
    <3> QED
      BY <2>1, <3>1 DEF FindShare
  <2> QED
    BY <2>1 DEF EnsureShare
<1>4. ChatsTypes'
  <2>1. DOMAIN link' = Askers
    BY <1>3 DEF ChatsTypes
  <2> QED
    BY <1>1, <1>2, <2>1 DEF ChatsTypes
<1>5. RowsOfChats'
  BY <1>1, <1>2 DEF RowsOfChats, RightRow, Linked, ChatsTypes
<1>6. CreationInv'
  BY <1>1, <1>2 DEF CreationInv, After, ChatsTypes
<1>7. SharesInv'
  <2>1. \A p \in Askers : stage[p] = "done" => stage'[p] = "done"
    BY <1>1, <1>2 DEF ChatsTypes
  <2>2. \A u \in Unpublishes : stage'[u] = "new" => stage[u] = "new"
    BY <1>1, <1>2 DEF ChatsTypes
  <2>3. \A p \in Askers : link'[p] # Nothing =>
          \E s \in shares : s.name = link'[p] /\ s.chat = AskChat(p) /\ s.by = AskUser(p)
    BY <1>3 DEF SharesInv, ChatsTypes
  <2>4. \A s \in shares' : \E p \in Askers : stage'[p] = "done" /\ NamedAfter(s, p)
    BY <1>1, <2>1 DEF SharesInv
  <2> QED
    BY <1>1, <2>2, <2>3, <2>4 DEF SharesInv, AskChat, AskUser, NamedAfter
<1> QED
  BY <1>4, <1>5, <1>6, <1>7

LEMMA MakeShareInv ==
  ASSUME ChatsInv, NEW q \in Askers, MakeShare(q)
  PROVE  ChatsInv'
<1> USE RequestKinds DEF ChatsInv
<1> DEFINE new == [name |-> Link(q), chat |-> AskChat(q), by |-> AskUser(q),
                   place |-> Cardinality(shares), live |-> TRUE]
<1>1. /\ UNCHANGED <<chat, messages, access, scheduled, held, ended>>
      /\ shares' = shares \cup {new}
      /\ link' = [link EXCEPT ![q] = Link(q)]
      /\ stage[q] = "making" /\ stage' = [stage EXCEPT ![q] = "done"]
  BY DEF MakeShare, Step
<1>2. ChatsTypes'
  BY <1>1 DEF ChatsTypes
<1>3. RowsOfChats'
  BY <1>1 DEF RowsOfChats, RightRow, Linked, ChatsTypes
<1>4. CreationInv'
  BY <1>1 DEF CreationInv, After, ChatsTypes
<1>5. SharesInv'
  <2>1. new \in ShareRows /\ NamedAfter(new, q) /\ new.name = Link(q) /\ new.live # FALSE
    <3>1. Cardinality(shares) \in Nat
      BY FS_CardinalityType DEF SharesInv
    <3> QED
      BY <3>1 DEF ShareRows, NamedAfter
  <2> HIDE DEF new
  <2>2. IsFiniteSet(shares') /\ shares' \subseteq ShareRows
    BY <1>1, <2>1, FS_AddElement DEF SharesInv
  <2>3. \A p \in Askers : stage[p] = "done" => stage'[p] = "done"
    BY <1>1 DEF ChatsTypes
  <2>4. \A s \in shares' : \E p \in Askers : stage'[p] = "done" /\ NamedAfter(s, p)
    <3>1. stage'[q] = "done"
      BY <1>1 DEF ChatsTypes
    <3> QED
      BY <1>1, <2>1, <2>3, <3>1 DEF SharesInv
  <2>5. \A s \in shares : s.name # Link(q)
    BY <1>1 DEF SharesInv, NamedAfter, Link
  <2>6. \A s, t \in shares' : s.name = t.name => s = t
    BY <1>1, <2>1, <2>5 DEF SharesInv
  <2>7. \A s \in shares' : s.live = FALSE =>
          \E u \in Unpublishes : s.name \in ended'[u] /\ UserOf[u] = s.by
    BY <1>1, <2>1 DEF SharesInv
  <2>8. \A u \in Unpublishes : \A name \in ended'[u] :
          \E s \in shares' : s.name = name /\ s.live = FALSE
    BY <1>1 DEF SharesInv
  <2>9. \A u \in Unpublishes : stage'[u] = "new" => ended'[u] = {}
    BY <1>1 DEF SharesInv, ChatsTypes
  <2>10. \A p \in Askers : link'[p] # Nothing =>
           \E s \in shares' : s.name = link'[p] /\ s.chat = AskChat(p) /\ s.by = AskUser(p)
    <3> SUFFICES ASSUME NEW p \in Askers, link'[p] # Nothing
                 PROVE  \E s \in shares' : s.name = link'[p] /\ s.chat = AskChat(p) /\ s.by = AskUser(p)
      OBVIOUS
    <3>1. CASE p = q
      BY <1>1, <2>1, <3>1 DEF ChatsTypes, NamedAfter
    <3>2. CASE p # q
      BY <1>1, <3>2 DEF ChatsTypes, SharesInv
    <3> QED
      BY <3>1, <3>2
  <2> QED
    BY <2>2, <2>4, <2>6, <2>7, <2>8, <2>9, <2>10 DEF SharesInv, AskChat, AskUser, NamedAfter
<1> QED
  BY <1>2, <1>3, <1>4, <1>5

LEMMA UnpublishInv ==
  ASSUME ChatsInv, NEW u \in Unpublishes, Unpublish(u)
  PROVE  ChatsInv'
<1> USE RequestKinds DEF ChatsInv
<1> DEFINE f == [s \in shares |-> IF s \in Ends(u) THEN [s EXCEPT !.live = FALSE] ELSE s]
<1>1. /\ UNCHANGED <<chat, messages, access, scheduled, held, link>>
      /\ shares' = {IF s \in Ends(u) THEN [s EXCEPT !.live = FALSE] ELSE s : s \in shares}
      /\ ended' = [ended EXCEPT ![u] = {s.name : s \in OwnShares(u)}]
      /\ stage[u] = "new" /\ stage' = [stage EXCEPT ![u] = "done"]
  BY DEF Unpublish, Step
<1>2. ChatsTypes'
  BY <1>1 DEF ChatsTypes
<1>3. RowsOfChats'
  BY <1>1 DEF RowsOfChats, RightRow, Linked, ChatsTypes
<1>4. CreationInv'
  BY <1>1 DEF CreationInv, After, ChatsTypes
<1>5. SharesInv'
  <2>1. shares' = {f[s] : s \in shares}
    BY <1>1
  <2>2. \A s \in shares :
          /\ f[s] \in ShareRows
          /\ f[s].name = s.name /\ f[s].chat = s.chat /\ f[s].by = s.by
          /\ f[s].live = FALSE <=> s.live = FALSE \/ s \in OwnShares(u)
    <3> HIDE RequestKinds DEF f, ChatsInv
    <3> TAKE s \in shares
    <3> USE DEF f, ChatsInv
    <3>1. s \in ShareRows
      BY DEF SharesInv
    <3>2. CASE s \in Ends(u)
      <4>1. f[s] = [s EXCEPT !.live = FALSE]
        BY <3>2
      <4> HIDE DEF f
      <4>2. f[s] \in ShareRows /\ f[s].name = s.name /\ f[s].chat = s.chat /\ f[s].by = s.by
        BY <3>1, <4>1 DEF ShareRows
      <4>3. f[s].live = FALSE
        BY <3>1, <4>1 DEF ShareRows
      <4> QED
        BY <3>2, <4>2, <4>3 DEF Ends
    <3>3. CASE s \notin Ends(u)
      <4>1. f[s] = s
        BY <3>3
      <4> HIDE DEF f
      <4>2. s \notin OwnShares(u)
        BY <3>3 DEF Ends
      <4> QED
        BY <3>1, <4>1, <4>2
    <3> QED
      BY <3>2, <3>3
  <2>3. f \in Surjection(shares, shares')
    BY <2>1 DEF Surjection
  <2> HIDE DEF f
  <2>4. IsFiniteSet(shares') /\ shares' \subseteq ShareRows
    BY <2>1, <2>2, <2>3, FS_Surjection DEF SharesInv
  <2>5. \A p \in Askers : stage[p] = "done" => stage'[p] = "done"
    BY <1>1 DEF ChatsTypes
  <2>6. \A s \in shares' : \E p \in Askers : stage'[p] = "done" /\ NamedAfter(s, p)
    BY <2>1, <2>2, <2>5 DEF SharesInv, NamedAfter
  <2>7. \A s, t \in shares' : s.name = t.name => s = t
    BY <2>1, <2>2 DEF SharesInv
  <2>8. /\ ended'[u] = {s.name : s \in OwnShares(u)}
        /\ \A v \in Unpublishes : v # u => ended'[v] = ended[v]
        /\ ended[u] = {}
    BY <1>1 DEF ChatsTypes, SharesInv
  <2>9. \A s \in shares' : s.live = FALSE =>
          \E v \in Unpublishes : s.name \in ended'[v] /\ UserOf[v] = s.by
    <3> SUFFICES ASSUME NEW s \in shares, f[s].live = FALSE
                 PROVE  \E v \in Unpublishes : f[s].name \in ended'[v] /\ UserOf[v] = f[s].by
      BY <2>1
    <3>1. CASE s.live = FALSE
      BY <2>2, <2>8, <3>1 DEF SharesInv
    <3>2. CASE s \in OwnShares(u)
      BY <2>2, <2>8, <3>2 DEF OwnShares
    <3> QED
      BY <2>2, <3>1, <3>2
  <2>10. \A v \in Unpublishes : \A name \in ended'[v] :
           \E s \in shares' : s.name = name /\ s.live = FALSE
    <3> SUFFICES ASSUME NEW v \in Unpublishes, NEW name \in ended'[v]
                 PROVE  \E s \in shares' : s.name = name /\ s.live = FALSE
      OBVIOUS
    <3>1. CASE v = u
      <4>1. PICK s \in OwnShares(u) : s.name = name
        BY <2>8, <3>1
      <4>2. s \in shares
        BY DEF OwnShares
      <4> QED
        BY <2>1, <2>2, <4>1, <4>2
    <3>2. CASE v # u
      <4>1. PICK s \in shares : s.name = name /\ s.live = FALSE
        BY <2>8, <3>2 DEF SharesInv
      <4> QED
        BY <2>1, <2>2, <4>1
    <3> QED
      BY <3>1, <3>2
  <2>11. \A v \in Unpublishes : stage'[v] = "new" => ended'[v] = {}
    BY <1>1, <2>8 DEF SharesInv, ChatsTypes
  <2>12. \A q \in Askers : link'[q] # Nothing =>
           \E s \in shares' : s.name = link'[q] /\ s.chat = AskChat(q) /\ s.by = AskUser(q)
    BY <1>1, <2>1, <2>2 DEF SharesInv
  <2> QED
    BY <2>4, <2>6, <2>7, <2>9, <2>10, <2>11, <2>12 DEF SharesInv, AskChat, AskUser, NamedAfter
<1> QED
  BY <1>2, <1>3, <1>4, <1>5

LEMMA ChatsStepInv == ChatsInv /\ [ChatsNext]_chatVars => ChatsInv'
<1> SUFFICES ASSUME ChatsInv, [ChatsNext]_chatVars PROVE ChatsInv'
  OBVIOUS
<1>1. CASE ChatsNext
  BY <1>1, InsertChatInv, LoadChatInv, StoreFirstInv, SaveLatestInv, ShareFilesInv,
     SaveConfigInv, ScheduleInv, LookUpChatInv, LookForConfigInv, LinkConfigInv,
     SendMessageInv,
     EnsureShareInv, MakeShareInv, UnpublishInv DEF ChatsNext
<1>2. CASE UNCHANGED chatVars
  BY <1>2 DEF chatVars, ChatsInv, ChatsTypes, NeedsReply, RowsOfChats, RightRow, Linked,
       CreationInv, After, SharesInv, NamedAfter, AskUser, AskChat
<1> QED
  BY <1>1, <1>2

\* Only steps that write a row can take its latest message, and they do not.
LEMMA LatestStep ==
  ChatsInv /\ [ChatsNext]_chatVars =>
    [\A c \in WithMessage :
       chat[c].latest # Nothing => chat'[c].latest # Nothing]_chatVars
<1> SUFFICES ASSUME ChatsInv, ChatsNext, NEW c \in WithMessage, chat[c].latest # Nothing
             PROVE  chat'[c].latest # Nothing
  OBVIOUS
<1>1. CASE chat' = chat
  BY <1>1
<1>2. ASSUME NEW d \in Makes, SaveLatest(d) PROVE chat'[c].latest # Nothing
  BY <1>2, SaveLatestInv
<1>3. ASSUME NEW d \in Makes, SaveConfig(d) PROVE chat'[c].latest # Nothing
  BY <1>3, SaveConfigInv
<1>4. ASSUME NEW g \in Gives, LinkConfig(g) PROVE chat'[c].latest # Nothing
  BY <1>4, LinkConfigInv
<1>5. ASSUME NEW s \in Sends, SendMessage(s) PROVE chat'[c].latest # Nothing
  BY <1>5, SendMessageInv
<1> QED
  BY <1>1, <1>2, <1>3, <1>4, <1>5 DEF ChatsNext, InsertChat, LoadChat, StoreFirst,
     ShareFiles, Schedule, LookUpChat, LookForConfig, EnsureShare, MakeShare, Unpublish

LEMMA ChatsInvHold ==
  ASSUME ChatsInv
  PROVE  ChatsTypeOK /\ ReplyFindsAll /\ OwnLinks /\ EndedStaysPrivate
<1> USE RequestKinds DEF ChatsInv
<1>1. Cardinality({s.name : s \in shares}) = Cardinality(shares)
  <2> DEFINE N == {s.name : s \in shares}
             f == [s \in shares |-> s.name]
  <2>1. f \in Surjection(shares, N) /\ f \in Injection(shares, N)
    BY DEF Surjection, Injection, IsInjective, SharesInv
  <2>2. Cardinality(N) = Cardinality(shares)
    BY <2>1, FS_Surjection DEF SharesInv
  <2> QED
    BY <2>2
<1>2. ChatsTypeOK
  BY <1>1 DEF ChatsTypeOK, ChatsTypes, RowsOfChats, RightRow
<1>3. ReplyFindsAll
  <2> SUFFICES ASSUME NEW c \in scheduled
               PROVE  /\ c \in messages[c]
                      /\ c \in WithFiles => access[c] \in {"granted", "missed"}
                      /\ c \in WithConfig =>
                           \/ chat[c].config = c
                           \/ \E g \in GivenTo(c) :
                                chat[c].config = g /\ held[g].config = Nothing
    BY DEF ReplyFindsAll
  <2>1. c \in Makes /\ c \in WithMessage
    BY DEF ChatsTypes, NeedsReply
  <2>2. /\ c \in messages[c]
        /\ c \in WithFiles => access[c] # "none"
        /\ c \in WithConfig => chat[c].config # Nothing
    BY <2>1 DEF CreationInv, After
  <2>3. c \in WithConfig =>
          \/ chat[c].config = c
          \/ chat[c].config \in GivenTo(c) /\ held[chat[c].config].config = Nothing
    BY <2>1, <2>2 DEF RowsOfChats, RightRow, Linked, GivenTo
  <2> QED
    BY <2>1, <2>2, <2>3 DEF ChatsTypes
<1>4. OwnLinks
  <2> SUFFICES ASSUME NEW q \in Askers, link[q] # Nothing
               PROVE  \E s \in shares :
                        /\ s.name = link[q]
                        /\ s.chat = AskChat(q)
                        /\ s.by = AskUser(q)
                        /\ \/ AskChat(q) \in Reads(link[q])
                           \/ \E u \in Unpublishes :
                                link[q] \in ended[u] /\ UserOf[u] = AskUser(q)
    BY DEF OwnLinks
  <2>1. PICK s \in shares : s.name = link[q] /\ s.chat = AskChat(q) /\ s.by = AskUser(q)
    BY DEF SharesInv
  <2>2. s.live \in BOOLEAN
    BY DEF SharesInv, ShareRows
  <2>3. CASE s.live
    <3>1. s \in {t \in shares : t.live /\ (t.name = link[q] \/ t.chat = link[q])}
      BY <2>1, <2>3
    <3>2. AskChat(q) \in Reads(link[q])
      BY <2>1, <3>1 DEF Reads
    <3> QED
      BY <2>1, <3>2
  <2>4. CASE s.live = FALSE
    BY <2>1, <2>4 DEF SharesInv
  <2> QED
    BY <2>2, <2>3, <2>4
<1>5. EndedStaysPrivate
  <2> SUFFICES ASSUME NEW u \in Unpublishes, NEW name \in ended[u],
                      NEW t \in shares, t.live, t.name = name \/ t.chat = name
               PROVE  FALSE
    BY DEF EndedStaysPrivate, Reads
  <2>1. PICK s \in shares : s.name = name /\ s.live = FALSE
    BY DEF SharesInv
  <2>2. PICK q \in Askers : NamedAfter(s, q)
    BY DEF SharesInv
  <2>3. name = <<q>> /\ <<q>> \notin Makes
    BY <2>1, <2>2 DEF NamedAfter, Link
  <2>4. t.chat \in Makes
    BY DEF SharesInv, ShareRows
  <2>5. t = s
    BY <2>1, <2>3, <2>4 DEF SharesInv
  <2> QED
    BY <2>1, <2>5
<1> QED
  BY <1>2, <1>3, <1>4, <1>5

\* A chat keeps its latest message, has in place what the reply to its first message
\* reads, and is public by the links of those who asked for them until they end it,
\* in any order of requests (Create.go, MessageSend.go, SharedChat.go).
THEOREM ChatsKept == ChatsSpec => ChatsHold
<1> DEFINE Held == ChatsTypeOK /\ ReplyFindsAll /\ OwnLinks /\ EndedStaysPrivate
<1>1. ChatsInv => Held
  BY ChatsInvHold
<1>2. ChatsSpec => []ChatsInv
  BY ChatsInitInv, ChatsStepInv, PTL DEF ChatsSpec
<1>3. ChatsSpec => []Held
  BY <1>1, <1>2, PTL
<1>4. ChatsSpec => LatestKept
  BY <1>2, LatestStep, PTL DEF ChatsSpec, LatestKept
<1> QED
  BY <1>3, <1>4, PTL DEF ChatsHold
=============================================================================
