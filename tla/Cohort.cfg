\* Three NPCs under the three rotation policies.
SPECIFICATION FairSpec
CONSTANTS
  N = 3
  Configs <- AllConfigs
  QueueMax = 2
  MaxTargets = 2
  MaxEvents = 3
INVARIANTS
  TypeOK
  CohortIsFull
  InFlightBound
  ReactsInOrder
PROPERTIES
  RoundRobinReachesAll
