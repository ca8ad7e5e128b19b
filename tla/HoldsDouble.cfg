\* Two requests at once.
SPECIFICATION Spec
CONSTANTS
  h1 = h1
  r3 = r3
  r1 = r1
  r2 = r2
  HoldIds <- OneHold
  Requests <- TwoRequests
  MaxFailures = 0
  MaxCrashes = 0
INVARIANTS
  RunsOnce
