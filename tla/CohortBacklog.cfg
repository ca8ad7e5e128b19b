\* An NPC promoted for an event keeps the events deferred before it.
SPECIFICATION Spec
CONSTANTS
  N = 3
  Configs <- AllConfigs
  QueueMax = 2
  MaxTargets = 2
  MaxEvents = 3
INVARIANT ActiveHasNoBacklog
