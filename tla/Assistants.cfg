CONSTANTS
  r1 = r1
  r2 = r2
  r3 = r3
  x1 = x1
  x2 = x2
  Requests <- ThreeRequests
  Actions <- MCActions
  ActionOf <- ActionOfThree
  Continuing <- MCContinuing
  admin = admin
  p = p
  base = base
  e1 = e1
  e2 = e2
  b1 = b1
  b2 = b2
  q1 = q1
  q2 = q2
  q3 = q3
  q4 = q4
  i1 = i1
  a1 = a1
  n2 = n2
  n3 = n3
  nb = nb
  ns = ns
  server = server
  worker = worker
  t1 = t1
  f1 = f1
  f2 = f2
  f3 = f3
  f4 = f4
  h1 = h1
  h2 = h2
  s1 = s1
  s2 = s2
  NoProfile = NoProfile
  People <- MCPeople
  Config <- MCConfig
  EntryOwner <- MCEntryOwner
  MoreOwners <- MCMoreOwners
  EntryName <- MCEntryName
  Creates <- MCCreates
  Edits <- MCEdits
  EditBot <- MCEditBot
  Change <- MCChange
  InteractionBot <- MCInteractionBot
  AddBot <- MCAddBot
  By <- MCBy
  NameOf <- MCNameOf
  Mode <- MCMode
  Fetches <- MCFetches
  PathOf <- MCPathOf
  ScopeOf <- MCScopeOf
  Admin = admin
  Base = base
  Overwrite = {e2}
  Inactive = {e2}
  Public = {e2}
  Interactions = {i1}
  Adds = {a1}
  BaseName = nb
  SpareName = ns
  MaxStarts = 2
  Server = server
  Processes = {server, worker}
  Working = {worker}
  Tasks = {t1}
  RetryLimit = 1
  MaxAttempts = 3
  Warm = {f4}
  MaxRows = 1
SPECIFICATION MCSpec
CHECK_DEADLOCK FALSE
INVARIANT OutcomesTold
INVARIANT InteractionsKept
PROPERTY StartsRepair
INVARIANT RunsAccountedFor
PROPERTY CacheKept
