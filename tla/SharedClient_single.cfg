CONSTANTS
  Threads = {t1}
  BatchSize = 2
  BatchTime = 2
  MaxRetries = 2
  InitialBackoff = 1
  MaxBackoff = 3
  InitialDelay = 1
  MaxConnections = 3
  CredentialsExpire = TRUE
  Malformed = {5}
  Wide = {4}
  RequestLimit = 4
  MaxRecords = 5
  MaxTime = 7

SPECIFICATION Spec

INVARIANT
  ClearedWereSent

PROPERTIES
  RefinesAppender
  ExhaustedAfterSilence
