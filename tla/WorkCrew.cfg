\* Two threads, each of which may be started twice, and three jobs.
CONSTANTS
  Ids = {1, 2}
  Joiner = "main"
  Jobs = {"a", "b", "c"}
  MaxStarts = 2
SPECIFICATION FairSpec
INVARIANTS
  CountCoversThreads
  WorkIsDone
PROPERTIES
  JoinReturnsUnlessMissed
CHECK_DEADLOCK FALSE
