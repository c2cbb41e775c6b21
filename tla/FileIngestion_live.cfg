SPECIFICATION FairSpec
CONSTANTS
  u1 = u1
  u2 = u2
  t1 = t1
  d = d
  NoDoc = NoDoc
  Uploads <- MCUploads
  Retries <- MCNoRetries
  Docs <- MCDocs
  DocOf <- MCDocOf
  PathOf <- MCPathOf
  ServiceOf <- MCServiceOf
  PagesOf <- MCOnePage
  BlankPages <- MCBlankPages
  Rows <- MCFourRows
  RetryFrom <- MCPresent
  MaxDeletes = 1
  MaxRestarts = 1
  MaxLost = 1
PROPERTY WorkersEnd
CHECK_DEADLOCK FALSE
