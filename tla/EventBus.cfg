\* Two subscribers, one of which may hang; a log that may fail; a shutdown and
\* a crash at any time.
SPECIFICATION FairSpec
CONSTANTS
  e1 = e1
  e2 = e2
  topic = topic
  wildcard = wildcard
  Events <- TwoEvents
  Subs <- Both
  Wants <- BothWant
  Capacity <- QueuesOfOne
  Hanging <- OnlyTopic
  PersistMayFail = TRUE
  MaxCrashes = 1
INVARIANTS
  DropsAreCounted
  LogNeverBehind
PROPERTIES
  ImplementsWindow
  QueuedIsTaken
  ShutdownCompletes
