\* Two updates of one entity without a lock.
SPECIFICATION Spec
CONSTANTS
  t1 = t1
  t2 = t2
  t3 = t3
  ea = ea
  eb = eb
  NoTask = NoTask
  Tasks <- Two
  Entities <- Pair
  Existing <- OnlyA
  Deltas <- SameEntity
  Proposing <- None
  Locked <- None
  Cancellable <- None
  MayRefuse <- None
  LedgerMayFail = FALSE
  MaxRestarts = 0
INVARIANTS
  NoLostUpdate
