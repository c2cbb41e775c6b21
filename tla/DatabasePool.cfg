SPECIFICATION Spec
CONSTANTS
  t1 = t1
  t2 = t2
  t3 = t3
  Threads <- MCThreads
  MaxSaves = 2
  MaxPools = 4
SYMMETRY MCSymmetry
INVARIANT TypeOK
INVARIANT SavedCredentialsAreUsed
INVARIANT FlagMeansPool
