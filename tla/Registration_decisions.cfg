CONSTANTS
  r1 = r1
  r2 = r2
  r3 = r3
  d1 = d1
  d2 = d2
  d3 = d3
  d4 = d4
  d5 = d5
  e1 = e1
  e2 = e2
  NoOne = NoOne
  Emails <- MCEmails
  Registrations <- MCRegistrations
  EmailOf <- MCEmailOf
  Decisions <- MCDecisions
  RequestOf <- MCRequestOf
  Approvals <- MCApprovals
  MaxRestarts = 2
  f1 = f1
  f2 = f2
  off1 = off1
  l1 = l1
  l2 = l2
  l3 = l3
  NoFactor = NoFactor
  Confirms <- MCConfirms
  Disables <- MCDisables
  CodeCount = 2
  Logins <- MCLogins
  Offer <- MCOffer
  t1 = t1
  t2 = t2
  td = td
  a1 = a1
  a2 = a2
  w1 = w1
  p1 = p1
  p2 = p2
  b1 = b1
  Creates <- MCCreates
  Default = td
  Auths <- MCAuths
  StateOf <- MCStateOf
  States <- MCStates
  Polls <- MCPolls
  PollState <- MCPollState
  Bearers <- MCBearers
  BearerToken <- MCBearerToken
  TokenLimit = 2
  i1 = i1
  i2 = i2
  g1 = g1
  g2 = g2
  g3 = g3
  v1 = v1
  Pairs <- MCPairs
  Forbidden <- MCForbidden
  Grants <- MCGrants
  GrantOf <- MCGrantOf
  Revokes <- MCRevokes
  RevokeOf <- MCRevokeOf
SPECIFICATION MCSpec
SYMMETRY MCSymmetry
CHECK_DEADLOCK FALSE
INVARIANT DecisionsHold
INVARIANT CodesHold
PROPERTY TokensHold
INVARIANT GrantsHold
