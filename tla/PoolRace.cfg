SPECIFICATION Spec
CONSTANTS
  t1 = t1
  t2 = t2
  t3 = t3
  Threads <- MCThreads
  MaxSaves = 1
  MaxPools = 2
INVARIANT LatestCredentials
CHECK_DEADLOCK FALSE
