\* Three actions, no lock: what holds of any interleaving.
SPECIFICATION FairSpec
CONSTANTS
  t1 = t1
  t2 = t2
  t3 = t3
  ea = ea
  eb = eb
  NoTask = NoTask
  Tasks <- Three
  Entities <- Pair
  Existing <- OnlyA
  Deltas <- ShortDeltas
  Proposing <- OnlyOne
  Locked <- None
  Cancellable <- OnlyTwo
  MayRefuse <- AnyStatement
  LedgerMayFail = TRUE
  MaxRestarts = 1
INVARIANTS
  TypeOK
  DepthCoversTasks
  OneOwner
  OwnerTxnOpen
  OuterDurable
PROPERTIES
  WedgedStoresNothing
  StartedTasksEnd
