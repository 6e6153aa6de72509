\* A retry cycle of two retries whose back-off reaches its cap (1, 2, 3).
CONSTANTS
  BatchSize = 2
  BatchTime = 2
  MaxRetries = 2
  InitialBackoff = 1
  MaxBackoff = 3
  InitialDelay = 1
  MaxConnections = 2
  CredentialsExpire = TRUE
  Malformed = {5}
  Wide = {}
  RequestLimit = 3
  MaxRecords = 5
  MaxTime = 6

SPECIFICATION FairSpec

INVARIANTS
  TypeOK
  NoRecordLost
  StoredAreEnriched
  RetryStateConsistent
  FullBatchIsExplained

PROPERTIES
  CycleEndsInDelivery
  RefinesBatchDelivery
  Delivered
