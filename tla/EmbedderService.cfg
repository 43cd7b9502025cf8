SPECIFICATION FairSpec
CONSTANTS
  q1 = q1 q2 = q2 b1 = b1 b2 = b2 b3 = b3
  Queries = {q1, q2}
  Batches = {b1, b2, b3}
  IdleTimeout = 1
  MaxRaises = 2
INVARIANTS
  WaitingCountIsExact
  NoLostWakeup
  QueryWaitsForOneBatch
PROPERTIES
  IsPriorityLock
  EveryRequestEnds
