\* One hold, three requests and the expiry loop in any order.
SPECIFICATION FairSpec
CONSTANTS
  h1 = h1
  r1 = r1
  r2 = r2
  r3 = r3
  HoldIds <- OneHold
  Requests <- ThreeRequests
  MaxFailures = 2
  MaxCrashes = 1
INVARIANTS
  SerialHoldsAreSafe
PROPERTIES
  DecisionStands
  HoldsAreClosed
  ApprovedIsExecuted
