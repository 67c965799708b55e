SPECIFICATION FairSpec
CONSTANTS
  w1 = w1
  w2 = w2
  c1 = c1
  c2 = c2
  t1 = t1
  t2 = t2
  t3 = t3
  Workers <- MCWorkers
  Callers <- MCCallers
  Tasks <- MCTasks
  Plan <- MCPlan
  MaxSpurious = 1
INVARIANTS
  TypeOK
  StopHeard
  NoLostWakeup
  DrainedBeforeGone
PROPERTIES
  PoolImplemented
  TasksServed
  GetsReturn
  DestructorReturns
\* A thread that waits for ever is what the last three properties speak of:
\* a deadlock violates one of them.
CHECK_DEADLOCK FALSE
