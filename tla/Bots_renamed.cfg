CONSTANTS
  admin = admin
  p = p
  base = base
  e1 = e1
  e2 = e2
  b1 = b1
  b2 = b2
  q1 = q1
  q2 = q2
  q3 = q3
  q4 = q4
  i1 = i1
  a1 = a1
  n2 = n2
  n3 = n3
  nb = nb
  ns = ns
  NoProfile = NoProfile
  People <- MCPeople
  Config <- MCConfig
  EntryOwner <- MCEntryOwner
  MoreOwners <- MCMoreOwners
  EntryName <- MCEntryName
  Creates <- MCCreates
  Edits <- MCEdits
  EditBot <- MCEditBot
  Change <- MCChange
  InteractionBot <- MCInteractionBot
  AddBot <- MCAddBot
  By <- MCBy
  NameOf <- MCNameOf
  Admin = admin
  Base = base
  Overwrite = {e2}
  Inactive = {e2}
  Public = {e2}
  Interactions = {i1}
  Adds = {a1}
  BaseName = nb
  SpareName = ns
  MaxStarts = 2
SPECIFICATION BotsSpec
CHECK_DEADLOCK FALSE
INVARIANT AppliesAgain
