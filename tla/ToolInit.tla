------------------------------ MODULE ToolInit ------------------------------
(***************************************************************************)
(* The initialisation data (credentials, addresses) that the tools of a    *)
(* chat are given.  It is kept twice: in one row per tool, which endpoints *)
(* and tasks resolve, and in tool_init of the chat's shared config, the    *)
(* mirror, which a bot reads when it generates a reply and which resolving *)
(* falls back to.  When a reply of an interaction has ended, the data is   *)
(* disposed of.                                                            *)
(*                                                                         *)
(* A store is one transaction with three steps, a disposal one with two;   *)
(* what they write is seen when they commit (READ COMMITTED, PostgreSQL's  *)
(* default), and a row written by one is locked until then.  The mirror is *)
(* a field of one JSON document that is always written as a whole.         *)
(***************************************************************************)
EXTENDS Naturals, FiniteSets

CONSTANTS
  Tools,
  Stores,      \* requests that store data; each one brings data of its own
  StoreTool,   \* the tool a store is for
  Expiring,    \* the stores that name an expiry
  Previous,    \* the store before it, for one of a message with several tools
  Disposals,   \* ends of replies
  Readers,     \* requests and tasks that resolve the data of a tool
  ReaderTool,  \* the tool a reader is about to run
  NoRow        \* no row, no store

Created == "created"  \* data the chat was created with, in the mirror only
Empty   == "empty"    \* no data, or its shape with null values

ASSUME ConstantsAssumption ==
  /\ StoreTool \in [Stores -> Tools]
  /\ Expiring \subseteq Stores
  /\ Previous \in [Stores -> Stores \cup {NoRow}]
  /\ ReaderTool \in [Readers -> Tools]
  /\ Stores \cap {Created, Empty, NoRow} = {}
  /\ IsFiniteSet(Stores)
  /\ NoRow \notin Stores

Values == Stores \cup {Created, Empty}

VARIABLES
  \* The rows; a row is named by the store that inserted it.
  row,     \* "none", "pending" (not committed), "live" or "deleted"
  id,      \* primary key, 0 before the insert
  data,    \* the store whose data the row holds
  expiry,  \* "never", "later" or "past"
  mirror,  \* tool_init of the shared config
  \* Stores.
  pc,      \* how far a store has come
  target,  \* the row a store has found
  keep,    \* the expiry of that row as it was found
  config,  \* the mirror as a store has read it
  \* Disposals.
  end,     \* how far a disposal has come
  doomed,  \* the rows it deletes
  \* Readers.
  res,     \* how far a reader has come
  loaded,  \* what the mirror had for the tool when the chat was loaded
  stale,   \* the expired row a reader deletes
  result,  \* what the tool was initialised with
  \* History.
  last,        \* what was written last for a tool
  recent,      \* what was the last written since a reader began
  before,      \* the stores that had committed when a disposal began
  gone,        \* data a disposal has removed
  crossed,     \* stores that were under way when a disposal committed
  doubled,     \* tools with two stores under way at once
  overlapped   \* have any two writers been under way at once?

rowVars  == <<row, id, data, expiry>>
pcVars   == <<pc, target, keep, config>>
endVars  == <<end, doomed, before>>
resVars  == <<res, loaded, stale, result>>
vars == <<rowVars, mirror, pcVars, endVars, resVars, last, recent, gone,
          crossed, doubled, overlapped>>

Init ==
  /\ row = [s \in Stores |-> "none"]
  /\ id = [s \in Stores |-> 0]
  /\ data = [s \in Stores |-> s]
  /\ expiry = [s \in Stores |-> "never"]
  /\ mirror \in [Tools -> {Created, Empty}]
  /\ pc = [s \in Stores |-> "new"]
  /\ target = [s \in Stores |-> NoRow]
  /\ keep = [s \in Stores |-> "never"]
  /\ config = [s \in Stores |-> [t \in Tools |-> Empty]]
  /\ end = [d \in Disposals |-> "new"]
  /\ doomed = [d \in Disposals |-> {}]
  /\ before = [d \in Disposals |-> {}]
  /\ res = [q \in Readers |-> "new"]
  /\ loaded = [q \in Readers |-> Empty]
  /\ stale = [q \in Readers |-> NoRow]
  /\ result = [q \in Readers |-> Empty]
  /\ last = mirror
  /\ recent = [q \in Readers |-> {}]
  /\ gone = {}
  /\ crossed = {}
  /\ doubled = {}
  /\ overlapped = FALSE

LiveRows(t) == {x \in Stores : row[x] = "live" /\ StoreTool[x] = t}

\* gorm's First: the row with the smallest primary key, if there is one.
First(rows) == {x \in rows : \A y \in rows : id[x] <= id[y]}

Storing  == {s \in Stores : pc[s] \in {"found", "saved"}}
Deleting == {d \in Disposals : end[d] = "deleting"}
Stored   == {s \in Stores : pc[s] \in {"stored", "done"}}

Locked == {target[s] : s \in {u \in Stores : pc[u] = "saved"}}
            \cup UNION {doomed[d] : d \in Deleting}

\* The readers under way see what is written last for their tool.
Witness(tools, v) ==
  recent' = [q \in Readers |->
               IF res[q] \in {"loaded", "expired"} /\ ReaderTool[q] \in tools
               THEN recent[q] \cup {v} ELSE recent[q]]

(***************************************************************************)
(* Storing: StoreToolInitDataForChat, then SetExpiration.                  *)
(***************************************************************************)

\* A message stores the data of its tools one by one, each in a transaction of
\* its own, and stops at an error.
InTurn(s) == Previous[s] # NoRow => pc[Previous[s]] = "done"

Begin(s) ==
  /\ doubled' = IF \E u \in Storing : StoreTool[u] = StoreTool[s]
                THEN doubled \cup {StoreTool[s]} ELSE doubled
  /\ overlapped' = (overlapped \/ Storing # {} \/ Deleting # {})

\* The row of the tool is read, without a lock.
Find(s) ==
  /\ pc[s] = "new"
  /\ InTurn(s)
  /\ \/ /\ LiveRows(StoreTool[s]) = {}
        /\ UNCHANGED <<target, keep>>
     \/ \E x \in First(LiveRows(StoreTool[s])) :
          /\ target' = [target EXCEPT ![s] = x]
          /\ keep' = [keep EXCEPT ![s] = expiry[x]]
  /\ pc' = [pc EXCEPT ![s] = "found"]
  /\ Begin(s)
  /\ UNCHANGED <<rowVars, mirror, config, endVars, resVars, last, recent, gone,
                 crossed>>

\* A row is inserted, or the one that was found is saved as a whole when nobody
\* holds it; then the shared config is read.
Save(s) ==
  /\ pc[s] = "found"
  /\ \/ /\ target[s] = NoRow
        /\ row' = [row EXCEPT ![s] = "pending"]
        /\ id' = [id EXCEPT ![s] = 1 + Cardinality({x \in Stores : id[x] # 0})]
     \/ /\ target[s] # NoRow
        /\ target[s] \notin Locked
        /\ UNCHANGED <<row, id>>
  /\ pc' = [pc EXCEPT ![s] = "saved"]
  /\ config' = [config EXCEPT ![s] = mirror]
  /\ UNCHANGED <<data, expiry, mirror, target, keep, endVars, resVars, last,
                 recent, gone, crossed, doubled, overlapped>>

\* What a transaction has read is of no use afterwards.
Forget(s) ==
  /\ target' = [target EXCEPT ![s] = NoRow]
  /\ keep' = [keep EXCEPT ![s] = "never"]
  /\ config' = [config EXCEPT ![s] = [t \in Tools |-> Empty]]

RowOf(s) == IF target[s] = NoRow THEN s ELSE target[s]

\* Fault: an existing row keeps its data.
CommitKeepingData(s) ==
  /\ pc[s] = "saved"
  /\ pc' = [pc EXCEPT ![s] = IF s \in Expiring THEN "stored" ELSE "done"]
  /\ row' = [row EXCEPT ![RowOf(s)] = "live"]
  /\ expiry' = [expiry EXCEPT ![RowOf(s)] = keep[s]]
  /\ mirror' = [config[s] EXCEPT ![StoreTool[s]] = s]
  /\ last' = [last EXCEPT ![StoreTool[s]] = s]
  /\ Witness({StoreTool[s]}, s)
  /\ Forget(s)
  /\ UNCHANGED <<id, data, endVars, resVars, gone, crossed, doubled,
                 overlapped>>

\* The document that was read is written with the tool's own field changed.  A
\* row that was deleted after it was found is live again: gorm's Save inserts
\* what it cannot update.
Commit(s) ==
  /\ pc[s] = "saved"
  /\ pc' = [pc EXCEPT ![s] = IF s \in Expiring THEN "stored" ELSE "done"]
  /\ row' = [row EXCEPT ![RowOf(s)] = "live"]
  /\ data' = [data EXCEPT ![RowOf(s)] = s]
  /\ expiry' = [expiry EXCEPT ![RowOf(s)] = keep[s]]
  /\ mirror' = [config[s] EXCEPT ![StoreTool[s]] = s]
  /\ last' = [last EXCEPT ![StoreTool[s]] = s]
  /\ Witness({StoreTool[s]}, s)
  /\ Forget(s)
  /\ UNCHANGED <<id, endVars, resVars, gone, crossed, doubled, overlapped>>

\* An error rolls the transaction back.
Fail(s) ==
  /\ pc[s] \in {"found", "saved"}
  /\ pc' = [pc EXCEPT ![s] = "failed"]
  /\ row' = [row EXCEPT ![s] = IF @ = "pending" THEN "none" ELSE @]
  /\ Forget(s)
  /\ UNCHANGED <<id, data, expiry, mirror, endVars, resVars, last, recent, gone,
                 crossed, doubled, overlapped>>

\* Afterwards and on its own, the expiry of the tool's rows is set; a timestamp
\* that cannot be read and an error leave it as it was.
SetExpiration(s) ==
  /\ pc[s] = "stored"
  /\ pc' = [pc EXCEPT ![s] = "done"]
  /\ \/ UNCHANGED expiry
     \/ /\ LiveRows(StoreTool[s]) \cap Locked = {}
        /\ expiry' = [x \in Stores |-> IF x \in LiveRows(StoreTool[s])
                                       THEN "later" ELSE expiry[x]]
  /\ UNCHANGED <<row, id, data, mirror, target, keep, config, endVars, resVars,
                 last, recent, gone, crossed, doubled, overlapped>>

Store(s) ==
  \/ Find(s)
  \/ Save(s)
  \/ Commit(s)
  \/ Fail(s)
  \/ SetExpiration(s)

Expire(x) ==
  /\ row[x] = "live"
  /\ expiry[x] = "later"
  /\ expiry' = [expiry EXCEPT ![x] = "past"]
  /\ UNCHANGED <<row, id, data, mirror, pcVars, endVars, resVars, last, recent,
                 gone, crossed, doubled, overlapped>>

(***************************************************************************)
(* Disposal at the end of a reply: DisposeToolInitDataForChat.  What it    *)
(* reads before its transaction gives it the shape of the document only.   *)
(***************************************************************************)

DeleteRows(d) ==
  /\ end[d] = "new"
  /\ \A x \in Stores : row[x] = "live" => x \notin Locked
  /\ end' = [end EXCEPT ![d] = "deleting"]
  /\ doomed' = [doomed EXCEPT ![d] = {x \in Stores : row[x] = "live"}]
  /\ before' = [before EXCEPT ![d] = Stored]
  /\ overlapped' = (overlapped \/ Storing # {} \/ Deleting # {})
  /\ UNCHANGED <<rowVars, mirror, pcVars, resVars, last, recent, gone, crossed,
                 doubled>>

ForgetRows(d) ==
  /\ doomed' = [doomed EXCEPT ![d] = {}]
  /\ before' = [before EXCEPT ![d] = {}]

\* Fault: the rows are left.
DisposeOfMirrorOnly(d) ==
  /\ end[d] = "deleting"
  /\ end' = [end EXCEPT ![d] = "done"]
  /\ mirror' = [t \in Tools |-> Empty]
  /\ last' = [t \in Tools |-> Empty]
  /\ Witness(Tools, Empty)
  /\ gone' = gone \cup before[d] \cup {Created}
  /\ crossed' = crossed \cup {s \in Stores : pc[s] = "saved"}
  /\ ForgetRows(d)
  /\ UNCHANGED <<rowVars, pcVars, resVars, doubled, overlapped>>

Dispose(d) ==
  /\ end[d] = "deleting"
  /\ end' = [end EXCEPT ![d] = "done"]
  /\ row' = [x \in Stores |-> IF x \in doomed[d] THEN "deleted" ELSE row[x]]
  /\ mirror' = [t \in Tools |-> Empty]
  /\ last' = [t \in Tools |-> Empty]
  /\ Witness(Tools, Empty)
  /\ gone' = gone \cup before[d] \cup {Created}
  /\ crossed' = crossed \cup {s \in Stores : pc[s] = "saved"}
  /\ ForgetRows(d)
  /\ UNCHANGED <<id, data, expiry, pcVars, resVars, doubled, overlapped>>

\* A failed disposal is logged and not tried again.
DisposeFails(d) ==
  /\ end[d] = "deleting"
  /\ end' = [end EXCEPT ![d] = "failed"]
  /\ ForgetRows(d)
  /\ UNCHANGED <<rowVars, mirror, pcVars, resVars, last, recent, gone, crossed,
                 doubled, overlapped>>

EndReply(d) ==
  \/ DeleteRows(d)
  \/ Dispose(d)
  \/ DisposeFails(d)

(***************************************************************************)
(* Reading: ResolveToolInitData.                                           *)
(***************************************************************************)

Load(q) ==
  /\ res[q] = "new"
  /\ res' = [res EXCEPT ![q] = "loaded"]
  /\ loaded' = [loaded EXCEPT ![q] = mirror[ReaderTool[q]]]
  /\ recent' = [recent EXCEPT ![q] = {last[ReaderTool[q]]}]
  /\ UNCHANGED <<rowVars, mirror, pcVars, endVars, stale, result, last, gone,
                 crossed, doubled, overlapped>>

\* The row, unless there is none or it has expired.
Get(q) ==
  /\ res[q] = "loaded"
  /\ \/ /\ LiveRows(ReaderTool[q]) = {}
        /\ res' = [res EXCEPT ![q] = "done"]
        /\ result' = [result EXCEPT ![q] = loaded[q]]
        /\ UNCHANGED stale
     \/ \E x \in First(LiveRows(ReaderTool[q])) :
          \/ /\ expiry[x] = "past"
             /\ res' = [res EXCEPT ![q] = "expired"]
             /\ stale' = [stale EXCEPT ![q] = x]
             /\ UNCHANGED result
          \/ /\ expiry[x] # "past"
             /\ res' = [res EXCEPT ![q] = "done"]
             /\ result' = [result EXCEPT ![q] = data[x]]
             /\ UNCHANGED stale
  /\ UNCHANGED <<rowVars, mirror, pcVars, endVars, loaded, last, recent, gone,
                 crossed, doubled, overlapped>>

\* The expired row is deleted by its key, whatever it holds by then, and what
\* the chat was loaded with is used.
DeleteExpired(q) ==
  /\ res[q] = "expired"
  /\ stale[q] \notin Locked
  /\ row' = [row EXCEPT ![stale[q]] = "deleted"]
  /\ res' = [res EXCEPT ![q] = "done"]
  /\ result' = [result EXCEPT ![q] = loaded[q]]
  /\ UNCHANGED <<id, data, expiry, mirror, pcVars, endVars, loaded, stale, last,
                 recent, gone, crossed, doubled, overlapped>>

Resolve(q) ==
  \/ Load(q)
  \/ Get(q)
  \/ DeleteExpired(q)

Next ==
  \/ \E s \in Stores : Store(s) \/ Expire(s)
  \/ \E d \in Disposals : EndReply(d)
  \/ \E q \in Readers : Resolve(q)

Spec == Init /\ [][Next]_vars

(***************************************************************************)
(* Properties.                                                             *)
(***************************************************************************)

\* Every variable keeps its type, and a row holds data for its own tool.
TypeOK ==
  /\ row \in [Stores -> {"none", "pending", "live", "deleted"}]
  /\ id \in [Stores -> Nat]
  /\ data \in [Stores -> Stores]
  /\ expiry \in [Stores -> {"never", "later", "past"}]
  /\ mirror \in [Tools -> Values]
  /\ pc \in [Stores -> {"new", "found", "saved", "stored", "done", "failed"}]
  /\ target \in [Stores -> Stores \cup {NoRow}]
  /\ keep \in [Stores -> {"never", "later", "past"}]
  /\ config \in [Stores -> [Tools -> Values]]
  /\ end \in [Disposals -> {"new", "deleting", "done", "failed"}]
  /\ doomed \in [Disposals -> SUBSET Stores]
  /\ before \in [Disposals -> SUBSET Stores]
  /\ res \in [Readers -> {"new", "loaded", "expired", "done"}]
  /\ loaded \in [Readers -> Values]
  /\ stale \in [Readers -> Stores \cup {NoRow}]
  /\ \A q \in Readers : res[q] = "expired" => stale[q] \in Stores
  /\ result \in [Readers -> Values]
  /\ last \in [Tools -> Values]
  /\ recent \in [Readers -> SUBSET Values]
  /\ gone \subseteq Stores \cup {Created}
  /\ crossed \subseteq Stores
  /\ doubled \subseteq Tools
  /\ overlapped \in BOOLEAN
  /\ \A x \in Stores : StoreTool[data[x]] = StoreTool[x]

\* Data that was stored before a disposal began does not come back.  No row ever
\* holds it again, not even one that a store revives; the mirror has it again
\* only when a store for another tool had read the document before the disposal
\* replaced it.
DisposedStaysGone ==
  /\ \A x \in Stores : row[x] = "live" => data[x] \notin gone
  /\ \A t \in Tools : mirror[t] \in gone =>
       \E s \in crossed : StoreTool[s] # t

\* A tool has one row, though no index says so, unless two stores for it were
\* under way at once.
OneRow ==
  \A x, y \in Stores :
    /\ x # y /\ StoreTool[x] = StoreTool[y]
    /\ row[x] = "live" /\ row[y] = "live"
    => StoreTool[x] \in doubled

\* What a tool's endpoint resolves and what the bot is given are the same, as
\* long as no two writers get in each other's way ("keep legacy readers
\* aligned", database/tool_init.go:66).
MirrorAgrees ==
  ~overlapped =>
    \A x \in Stores : row[x] = "live" => mirror[StoreTool[x]] = data[x]

\* A tool runs with data that was current at some point while it was resolved,
\* never with older data, although the chat, the row and its deletion are read
\* and written one after the other, as long as no two writers get in each
\* other's way.
ResolvesCurrent ==
  ~overlapped =>
    \A q \in Readers : res[q] = "done" => result[q] \in recent[q]

\* Row and mirror hold the current data of each tool, once.
RowsHold ==
  /\ TypeOK
  /\ OneRow
  /\ MirrorAgrees
  /\ ResolvesCurrent
=============================================================================
