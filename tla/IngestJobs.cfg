SPECIFICATION FairSpec
CONSTANTS
  Jobs <- MCJobs
  Items <- MCItems
  KindOf <- MCKindOf
  ItemsOf <- MCItemsOf
  NameOf <- MCNameOf
  FileOf <- MCFileOf
  MaxLimit = 2
  MaxRestarts = 1
INVARIANT TypeOK
INVARIANT SlotAccounting
INVARIANT ParallelismBound
INVARIANT OutcomeFaithful
INVARIANT ProgressKeepsNames
PROPERTY FinalStatusIsFinal
PROPERTY ImplementsLifecycle
PROPERTY JobsTerminate
