----------------------------- MODULE ToolSetup ------------------------------
(***************************************************************************)
(* The tools of a reply: they are looked up by the names in the chat's     *)
(* configuration, given their data and registered one by one (setupTools); *)
(* those marked for the start or the end of an interaction are run there,  *)
(* the others when the model calls their function.  A chat tagged          *)
(* skip-core runs the marked ones only (executeToolsOnly).                 *)
(*                                                                         *)
(* An entry of the configuration is a mark and a name.                     *)
(***************************************************************************)
EXTENDS Naturals, Sequences, SequencesExt, Functions

CONSTANTS
  Configs,      \* configurations: sequences of entries
  BuiltIn,      \* the names that a constructor is registered for
  Described,    \* ... that the chat describes as a REST call
  Remote,       \* ... or as a tool of an MCP server
  Unreadable,   \* the names whose description cannot be read
  FunctionOf,   \* the function the model knows a tool by
  NeedsData,    \* the names whose tool requires init data
  MaxModelCalls \* bound on the calls of the model

Entries == UNION {Range(c) : c \in Configs}
Names   == {e[2] : e \in Entries}

ASSUME SetupAssumption ==
  /\ Configs \subseteq Seq(Entries)
  /\ \A e \in Entries : e[1] \in {"plain", "start", "complete"}
  /\ Names \subseteq DOMAIN FunctionOf
  /\ MaxModelCalls \in Nat

Bare(name) == <<"plain", name>>
NoData     == <<"none">>

VARIABLES
  config,    \* the configuration
  given,     \* the entries that the chat has init data for
  skipCore,  \* is the chat tagged skip-core?
  next,      \* the entry to be registered
  tools,     \* toolMap: entries and functions to tools
  offered,   \* the functions offered to the model, in order
  marked,    \* the entries to be run at the start and at the end
  ran,       \* what was run: under which key, which tool
  phase      \* "setup", "start", "model", "complete", "ended" or "broken"

setupVars == <<config, given, skipCore, next, tools, offered, marked, ran, phase>>

SetupInit ==
  /\ config \in Configs
  /\ given \in SUBSET (Range(config) \cup {Bare(e[2]) : e \in Range(config)})
  /\ skipCore \in BOOLEAN
  /\ next = 1
  /\ tools = <<>>
  /\ offered = <<>>
  /\ marked = [start |-> <<>>, complete |-> <<>>]
  /\ ran = <<>>
  /\ phase = "setup"

(***************************************************************************)
(* Registration.                                                           *)
(***************************************************************************)
DescribedFound(name) == name \in Described \ Unreadable
RemoteFound(name)    == name \in Remote \ Unreadable

\* A constructor comes first; a description that cannot be read ends the search.
Found(name) ==
  \/ name \in BuiltIn
  \/ DescribedFound(name)
  \/ name \notin Described /\ RemoteFound(name)

DataFor(e) ==
  CASE e \in given -> e
    [] e \notin given /\ Bare(e[2]) \in given -> Bare(e[2])
    [] OTHER -> NoData

Tool(e) == [name |-> e[2], data |-> IF e[2] \in NeedsData THEN DataFor(e) ELSE NoData]

\* Entries and functions are one kind of name; a function may be named as an entry.
FunctionKey(name) == Bare(FunctionOf[name])

With(keys, tool) == [k \in keys \cup DOMAIN tools |-> IF k \in keys THEN tool ELSE tools[k]]

\* Fault: the registered tool is not a new one, and all that have its name
\* are given the data.
RegisteredShared(e) ==
  LET new == With({e, FunctionKey(e[2])}, Tool(e)) IN
  [k \in DOMAIN new |-> IF new[k].name = e[2] THEN Tool(e) ELSE new[k]]

Registered(e) == With({e, FunctionKey(e[2])}, Tool(e))

RegisterTool ==
  /\ phase = "setup" /\ next <= Len(config)
  /\ LET e == config[next] IN
     /\ marked' = IF e[1] = "plain" THEN marked
                  ELSE [marked EXCEPT ![e[1]] = Append(@, e)]
     /\ IF Found(e[2])
        THEN /\ tools' = Registered(e)
             /\ offered' = Append(offered, FunctionOf[e[2]])
        ELSE UNCHANGED <<tools, offered>>
  /\ next' = next + 1
  /\ UNCHANGED <<config, given, skipCore, ran, phase>>

Start ==
  /\ phase = "setup" /\ next > Len(config)
  /\ phase' = "start" /\ next' = 1
  /\ UNCHANGED <<config, given, skipCore, tools, offered, marked, ran>>

(***************************************************************************)
(* Running them.  A tool that is unknown or fails is passed over.          *)
(***************************************************************************)
RunKey(k) ==
  ran' = IF k \in DOMAIN tools THEN Append(ran, [key |-> k, tool |-> tools[k]]) ELSE ran

RunMarked(when, then) ==
  /\ phase = when
  /\ IF next <= Len(marked[when])
     THEN RunKey(marked[when][next]) /\ next' = next + 1 /\ phase' = phase
     ELSE ran' = ran /\ next' = 1 /\ phase' = then
  /\ UNCHANGED <<config, given, skipCore, tools, offered, marked>>

\* The calls of the model, and how its reply goes on: BotReply, ToolStream.
ModelCalls(f) ==
  /\ phase = "model" /\ next <= MaxModelCalls
  /\ RunKey(Bare(f))
  /\ next' = next + 1
  /\ UNCHANGED <<config, given, skipCore, tools, offered, marked, phase>>

ModelEnds ==
  /\ phase = "model"
  /\ phase' \in {"complete", "broken"} /\ next' = 1
  /\ UNCHANGED <<config, given, skipCore, tools, offered, marked, ran>>

SetupNext ==
  \/ RegisterTool \/ Start
  \/ RunMarked("start", IF skipCore THEN "complete" ELSE "model")
  \/ \E f \in Range(offered) : ModelCalls(f)
  \/ ModelEnds
  \/ RunMarked("complete", "ended")

SetupSpec == SetupInit /\ [][SetupNext]_setupVars

(***************************************************************************)
(* Properties.                                                             *)
(***************************************************************************)
Keys == Entries \cup {FunctionKey(n) : n \in Names}

\* Only what can be read is registered, and with data that the chat has (setupTools).
SetupTypeOK ==
  /\ DOMAIN tools \subseteq Keys
  /\ \A k \in DOMAIN tools :
       /\ tools[k].name \in BuiltIn \cup ((Described \cup Remote) \ Unreadable)
       /\ tools[k].data \in given \cup {NoData}
  /\ Len(ran) <= Len(config) + MaxModelCalls

\* A marked tool runs with the data given for its entry, and with those of the
\* name only if there are none, whatever else is registered by that name.
OwnData ==
  \A n \in DOMAIN ran :
    LET e == ran[n].key IN
    e[1] # "plain" =>
      /\ ran[n].tool.name = e[2]
      /\ e[2] \in NeedsData =>
           /\ e \in given => ran[n].tool.data = e
           /\ e \notin given /\ Bare(e[2]) \in given => ran[n].tool.data = Bare(e[2])

\* A function that is offered once, and that no other entry is named as, is that
\* of the entry it was offered for.
OfferedOnce ==
  phase # "setup" =>
    \A i \in DOMAIN config :
      LET e == config[i]
          k == FunctionKey(e[2])
          same == {j \in DOMAIN config : /\ Found(config[j][2])
                                         /\ k \in {config[j], FunctionKey(config[j][2])}}
      IN Found(e[2]) /\ same = {i} => k \in DOMAIN tools /\ tools[k] = Tool(e)

\* The entries with a mark that are run, in the order of the configuration.
EachOnceIn(mark) ==
  LET which == {i \in DOMAIN config : config[i][1] = mark /\ Found(config[i][2])} IN
  \E at \in [which -> DOMAIN ran] :
    /\ \A i, j \in which : i < j => at[i] < at[j]
    /\ \A i \in which : ran[at[i]].key = config[i]
    /\ \A n \in DOMAIN ran : ran[n].key[1] = mark => \E i \in which : at[i] = n

\* Every marked tool that exists runs once, in order and in its phase, though
\* others fail; those for the end do not run when the reply broke off.
EachOnce ==
  /\ phase \in {"ended", "broken"} => EachOnceIn("start")
  /\ phase = "ended" => EachOnceIn("complete")
  /\ phase = "broken" => \A n \in DOMAIN ran : ran[n].key[1] # "complete"
  /\ \A n, o \in DOMAIN ran :
       n < o => /\ ran[o].key[1] = "start" => ran[n].key[1] = "start"
                /\ ran[n].key[1] = "complete" => ran[o].key[1] = "complete"

\* Tools that share a name do not get in each other's way: each runs with data
\* of its own, is offered as itself, and runs once if it is marked.
ToolsSetUpRight ==
  /\ SetupTypeOK
  /\ OwnData
  /\ OfferedOnce
  /\ EachOnce
=============================================================================
