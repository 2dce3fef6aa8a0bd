CONSTANTS
  r1 = r1
  r2 = r2
  r3 = r3
  d1 = d1
  d2 = d2
  d3 = d3
  d4 = d4
  d5 = d5
  e1 = e1
  e2 = e2
  NoOne = NoOne
  Emails <- MCEmails
  Registrations <- MCRegistrations
  EmailOf <- MCEmailOf
  Decisions <- MCDecisions
  RequestOf <- MCRequestOf
  Approvals <- MCApprovals
  MaxRestarts = 0
SPECIFICATION Spec
CHECK_DEADLOCK FALSE
INVARIANT ApprovalCreatesUser
