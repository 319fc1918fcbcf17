\* Three steps of configuration or of changing the log file, and two threads with
\* up to two messages each.
CONSTANTS
  Writers = {"main", "w1"}
  Paths = {"a.log", "b.log", "/no/x.log"}
  Openable = {"a.log", "b.log"}
  ConfigFiles <- MCConfigFiles
  Environment <- MCEnvironment
  Arguments <- MCArguments
  Assignments <- MCAssignments
  MaxSteps = 3
  MaxMessages = 2
SPECIFICATION Spec
INVARIANTS
  LastSourceHolds
  OverriddenPortIsNotRead
  EntriesAreWhole
  LossIsExplained
CHECK_DEADLOCK FALSE
