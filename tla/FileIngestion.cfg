SPECIFICATION Spec
CONSTANTS
  u1 = u1
  u2 = u2
  t1 = t1
  d = d
  NoDoc = NoDoc
  Uploads <- MCUploads
  Retries <- MCRetries
  Docs <- MCDocs
  DocOf <- MCDocOf
  PathOf <- MCPathOf
  ServiceOf <- MCServiceOf
  PagesOf <- MCPagesOf
  BlankPages <- MCBlankPages
  Rows <- MCRows
  RetryFrom <- MCPresent
  MaxDeletes = 1
  MaxRestarts = 1
  MaxLost = 1
INVARIANT TypeOK
INVARIANT CompletedIsReady
INVARIANT OneWriterPerPath
INVARIANT ProcessingHasWorker
INVARIANT LocksAreHeld
SYMMETRY UploadSymmetry
CHECK_DEADLOCK FALSE
