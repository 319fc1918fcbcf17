\* Two workers, three tasks, one of which throws, and room for two: callers wait
\* for space too.
CONSTANTS
  Workers = {w1, w2}
  Tasks = {t1, t2, t3}
  ThrowingTasks = {t3}
  Capacity = 2
  NoTask = none
SPECIFICATION FairSpec
INVARIANTS
  TypeOK
  QueueBounded
  JoinedMeansDone
PROPERTIES
  ImplementsFifo
  ShutdownCompletes
  AcceptedTasksRun
