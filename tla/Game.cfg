\* Two players, two moves, both activation modes, a wall clock and a stop.
SPECIFICATION FairSpec
CONSTANTS
  buyer = buyer
  seller = seller
  Nobody = Nobody
  PlayerOrder <- TwoPlayers
  Modes <- Both
  Timers = {"wall_clock"}
  Budget <- SmallBudget
  Responses <- SomeResponses
  MaxCalls = 2
  Slow <- Competitive
  MaxEvents = 2
  QueryMayFail = TRUE
  MoveBound = 2
CHECK_DEADLOCK FALSE
INVARIANTS
  TypeOK
  GateFollowsGame
  OneLateMove
PROPERTIES
  ImplementsOutcome
  GameEnds
