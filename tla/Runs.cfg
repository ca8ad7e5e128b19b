\* Two runs, the first with its world and a watcher, one client and one action.
SPECIFICATION FairSpec
CONSTANTS
  r1 = r1
  r2 = r2
  a1 = a1
  e1 = e1
  None = None
  World = World
  Default = Default
  RunIds <- TwoRuns
  Fresh <- FreshRuns
  Internal <- SecondRun
  Actions <- OneAction
  Enders <- OneEnder
  MayFail <- SomeCalls
  MaxCrashes = 1
INVARIANTS
  Isolation
  EndIsDurable
  CurrentIsOpen
PROPERTIES
  ImplementsRunRecord
  IdleRunEnds
