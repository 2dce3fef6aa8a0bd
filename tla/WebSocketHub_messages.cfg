CONSTANTS
  s1 = s1
  s2 = s2
  Subs <- MCSubs
  Capacity = 2
  MaxMessages = 4
  r1 = r1
  r2 = r2
  Requests <- MCRequests
  Users = {"ann", "bob"}
  Unverified = {"bob"}
  Configured = "parent"
  MaxLogins = 2
SPECIFICATION MCSpec
CHECK_DEADLOCK FALSE
INVARIANT DeliveredRight
PROPERTY SlowLeaves
INVARIANT SessionsHold
PROPERTY KeptUnlessStale
INVARIANT RedirectsEnd
