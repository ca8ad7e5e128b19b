\* Three actions one at a time under the lock, with restarts.
SPECIFICATION Spec
CONSTANTS
  t1 = t1
  t2 = t2
  t3 = t3
  ea = ea
  eb = eb
  NoTask = NoTask
  Tasks <- Three
  Entities <- Pair
  Existing <- OnlyB
  Deltas <- ChainDeltas
  Proposing <- OnlyOne
  Locked <- Three
  Cancellable <- None
  MayRefuse <- InBody
  LedgerMayFail = TRUE
  MaxRestarts = 2
INVARIANTS
  CleanExitIsDurable
  LedgerFollowsStore
PROPERTIES
  ImplementsAtomicCommit
