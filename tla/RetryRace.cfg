SPECIFICATION Spec
CONSTANTS
  u1 = u1
  t1 = t1
  t2 = t2
  d = d
  NoDoc = NoDoc
  Uploads <- MCUploads
  Retries <- MCRetries
  Docs <- MCDocs
  DocOf <- MCDocOf
  PathOf <- MCPathOf
  ServiceOf <- MCServiceOf
  PagesOf <- MCPagesOf
  BlankPages <- MCBlankPages
  Rows <- MCRows
  RetryFrom <- MCFailed
  MaxDeletes = 0
  MaxRestarts = 0
  MaxLost = 0
INVARIANT CompletedDocumentsAreReady
CHECK_DEADLOCK FALSE
