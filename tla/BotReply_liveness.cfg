SPECIFICATION FairSpec
CONSTANTS
  c1 = c1
  c2 = c2
  m1 = m1
  m2 = m2
  i1 = i1
  Chats = {c1}
  Messages = {m1}
  Interrupts = {i1}
  ChatOf <- MCOneChat
  Attempts = {1, 2, 3}
  NoMessage = NoMessage
  NoAttempt = NoAttempt
  MaxRetry = 1
  Concurrency = 1
  MaxStops = 1
  SlowReplies = TRUE
  EmbeddedRedis = TRUE
PROPERTIES
  TaskSettles
  AcceptedIsAnswered
CHECK_DEADLOCK FALSE
