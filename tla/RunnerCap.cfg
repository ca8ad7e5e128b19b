\* The actions that are committed against the cap on events.
SPECIFICATION Spec
CONSTANTS
  a1 = a1
  d1 = d1
  k1 = k1
  v1 = v1
  s1 = s1
  Reactions <- OneAction
  Errands <- OneErrand
  Reports <- OneReport
  Visits <- TwoVisits
  Deliverables <- OneDeliverable
  Kickstart <- OneReport
  Offsets <- Ahead
  Setups <- SixSetups
  MaxInvented = 1
  MaxInline = 1
  InitialTick = 0
  MaxTicks = 3
  MaxTime = 4
  MaxTotalEvents = 3
  IdleStopTicks = 2
  LoopBreakerThreshold = 1
  MaxEnvelopesPerEvent = 1
  MaxActionsPerActor = 1
  MaxReactions = 1
  AnimatorInterval = 2
INVARIANTS
  WithinCap
