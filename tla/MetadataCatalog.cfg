SPECIFICATION Spec
CONSTANTS
  u1 = u1
  u2 = u2
  d1 = d1
  w1 = w1
  w2 = w2
  i1 = i1
  v1 = v1
  None = None
  Users <- MCUsers
  Datasets <- MCDatasets
  Archives <- MCArchives
  Tables <- MCTables
  KeysOf <- MCKeysOf
  Writers <- MCWriters
  Ingests <- MCIngests
  Readers <- MCReaders
  RefreshLimit = 1
  Texts <- MCTexts
  Blank = ""
  Lower <- MCLower
  Lookup <- MCLookup
  Canon <- MCCanon
  Join <- MCJoin
  Workbooks <- MCWorkbooks
SYMMETRY MCSymmetry
INVARIANT TypeOK
INVARIANT ColumnsMatchRows
INVARIANT PrivateStaysPrivate
INVARIANT LinkedDatasetsExist
INVARIANT ConvertedWorkbooksAreAccepted
PROPERTY ReplacementReachesArchives
CHECK_DEADLOCK FALSE
