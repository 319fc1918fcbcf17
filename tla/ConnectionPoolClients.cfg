\* Three connections handed over to three threads.
CONSTANTS
  Connections = {c1, c2, c3}
  Threads = {t1, t2, t3}
SPECIFICATION FairSpec
INVARIANTS
  TypeOK
  NoLostWakeup
PROPERTIES
  ImplementsFifo
  SleepersAreServed
