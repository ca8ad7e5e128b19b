\* Internal and mixed simulations with a lead's agenda; stops, signals and
\* external agents at any moment.
SPECIFICATION FairSpec
CONSTANTS
  a1 = a1
  d1 = d1
  k1 = k1
  v1 = v1
  s1 = s1
  Reactions <- OneAction
  Errands <- OneErrand
  Reports <- OneReport
  Visits <- TwoVisits
  Deliverables <- OneDeliverable
  Kickstart <- OneReport
  Offsets <- Ahead
  Setups <- SixSetups
  MaxInvented = 1
  MaxInline = 0
  InitialTick = 0
  MaxTicks = 3
  MaxTime = 4
  MaxTotalEvents = 3
  IdleStopTicks = 2
  LoopBreakerThreshold = 1
  MaxEnvelopesPerEvent = 1
  MaxActionsPerActor = 1
  MaxReactions = 1
  AnimatorInterval = 2
INVARIANTS
  OneMoreAtMost
  Chronological
  NothingOverdue
  StopWins
  LoopIsBroken
PROPERTIES
  RunEnds
