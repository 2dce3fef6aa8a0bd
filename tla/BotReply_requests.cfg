SPECIFICATION Spec
CONSTRAINT Apart
CONSTANTS
  c1 = c1
  c2 = c2
  m1 = m1
  m2 = m2
  i1 = i1
  Chats = {c1}
  Messages = {m1, m2}
  Interrupts = {i1}
  ChatOf <- MCOneChat
  Attempts = {1, 2, 3}
  NoMessage = NoMessage
  NoAttempt = NoAttempt
  MaxRetry = 1
  Concurrency = 1
  MaxStops = 1
  SlowReplies = TRUE
  EmbeddedRedis = FALSE
INVARIANTS
  TypeOK
  LiveHandlerOwnsTask
  StatusCoversWork
  NoUnexplainedDuplicate
  AcceptedNotLost
PROPERTIES
  ImplementsReplySlot
SYMMETRY MCSymmetry
CHECK_DEADLOCK FALSE
