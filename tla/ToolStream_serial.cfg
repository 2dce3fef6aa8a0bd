CONSTANTS
  c1 = c1
  c2 = c2
  c3 = c3
  c4 = c4
  Calls <- MCCalls
  IdOf <- MCIdOf
  SignatureOf <- MCSignatureOf
  Confirmable <- MCConfirmable
  Stopping <- MCConfirmable
  MaxTotal = 2
  MaxFailed = 1
  MaxChunks = 2
  ParallelCalls = FALSE
  RepeatedIds = FALSE
  Cancels = TRUE
  Texts = {"hello", "/loop"}
  Commands = {"/loop"}
  NoText = NoText
  Sends <- MCSends
  Endings <- MCEndings
  MaxContext = 3
  MaxRows = 6
  Configs <- MCConfigs
  BuiltIn = {"n", "s"}
  Described = {"s", "u"}
  Remote = {"r"}
  Unreadable = {"s", "u"}
  FunctionOf <- MCFunctionOf
  NeedsData = {"n", "r"}
  MaxModelCalls = 1
  Callers = {d1, d2}
  NoSession = NoSession
  MaxRestarts = 1
SPECIFICATION MCSpec
CHECK_DEADLOCK FALSE
INVARIANT RoundsKept
PROPERTY NothingAfterStop
PROPERTY ReplyEnds
INVARIANT RequestsWellFormed
INVARIANT RefusalsEnd
 
INVARIANT ToolsSetUpRight
INVARIANT CallsKeptApart
