\* One worker, two tasks and room for one.
CONSTANTS
  Workers = {w1}
  Tasks = {t1, t2}
  ThrowingTasks = {}
  Capacity = 1
  NoTask = none
SPECIFICATION FairSpec
PROPERTIES
  CallersGetSpace
