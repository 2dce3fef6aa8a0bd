SPECIFICATION MeanwhileSpec
CONSTANTS
  c1 = c1
  c2 = c2
  m1 = m1
  m2 = m2
  i1 = i1
  Chats = {c1}
  Messages = {m1, m2}
  Interrupts = {}
  ChatOf <- MCOneChat
  Attempts = {1, 2, 3}
  NoMessage = NoMessage
  NoAttempt = NoAttempt
  MaxRetry = 1
  Concurrency = 1
  MaxStops = 0
  SlowReplies = FALSE
  EmbeddedRedis = FALSE
INVARIANTS
  ExistingReplyIsCancelled
CHECK_DEADLOCK FALSE
