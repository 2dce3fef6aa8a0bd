CONSTANTS
  r1 = r1
  r2 = r2
  r3 = r3
  x1 = x1
  x2 = x2
  Requests <- ThreeRequests
  Actions <- MCActions
  ActionOf <- ActionOfThree
  Continuing <- MCContinuing
SPECIFICATION Spec
CHECK_DEADLOCK FALSE
PROPERTY StaysHandled
