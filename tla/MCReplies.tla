----------------------------- MODULE MCReplies ------------------------------
(***************************************************************************)
(* A generated reply, the history of a chat that replies are asked with,   *)
(* the tools they are given, and calls of MCP tools: whichever part is     *)
(* chosen at first runs, and the others stand still.  Fairness is that of  *)
(* the reply; of the other parts only states and steps are checked.        *)
(* A chat has messages of all kinds, or one more of one kind, "refusals".   *)
(* Of the tools n is built in and s described as well, u cannot be read; n *)
(* and s share a function, and that of r is named as the entry n.          *)
(***************************************************************************)
EXTENDS MCToolStream, ChatHistory, ToolSetup, McpCalls

MCEndings == {<<>>, <<"pending">>, <<"done", "silent">>}
MCSends   == {<<"hello", FALSE>>, <<"/loop", FALSE>>, <<NoText, TRUE>>}

MCEntries ==
  {<<"plain", "n">>, <<"start", "n">>, <<"complete", "n">>, <<"start", "u">>,
   <<"plain", "r">>, <<"complete", "s">>}
MCConfigs    == UNION {[1 .. n -> MCEntries] : n \in 0 .. 3}
MCFunctionOf == [n \in {"n", "r", "s", "u"} |-> IF n = "r" THEN "n" ELSE "f"]

\* A user sends one text, and the bot may leave a call without a result.
PlainRow(r) ==
  IF r.bot THEN "pending" \notin Range(r.calls) ELSE r.text = "hello" /\ ~r.file

VARIABLE part

MCInit ==
  /\ Init
  /\ HistoryInit
  /\ SetupInit
  /\ McpInit
  /\ part \in {"reply", "history", "refusals", "tools", "mcp"}
  /\ part # "tools" => config = <<>> /\ ~skipCore
  /\ part \notin {"history", "refusals"} => context = 1
  /\ part # "mcp" => server = "open"

MCNext ==
  \/ /\ part = "reply"
     /\ Next
     /\ UNCHANGED <<historyVars, setupVars, mcpVars>>
  \/ /\ part \in {"history", "refusals"}
     /\ HistoryNext
     /\ part = "history" => Len(rows') < MaxRows
     /\ part = "refusals" => \A i \in DOMAIN rows' : PlainRow(rows'[i])
     /\ UNCHANGED <<vars, setupVars, mcpVars>>
  \/ /\ part = "tools"
     /\ SetupNext
     /\ UNCHANGED <<vars, historyVars, mcpVars>>
  \/ /\ part = "mcp"
     /\ McpNext
     /\ UNCHANGED <<vars, historyVars, setupVars>>

MCSpec ==
  /\ MCInit
  /\ [][MCNext /\ UNCHANGED part]_<<vars, historyVars, setupVars, mcpVars, part>>
  /\ WF_vars(Produce)
  /\ WF_vars(Consume)
  /\ SF_vars(RoundEnds)
=============================================================================
