\* The constants of the source: 5 retries, back-off 5 to 60 seconds, 4
\* connections.  Explicit flushes walk the whole cycle without waiting.
CONSTANTS
  BatchSize = 2
  BatchTime = 10
  MaxRetries = 5
  InitialBackoff = 5
  MaxBackoff = 60
  InitialDelay = 10
  MaxConnections = 4
  CredentialsExpire = TRUE
  Malformed = {}
  Wide = {}
  RequestLimit = 3
  MaxRecords = 3
  MaxTime = 1

SPECIFICATION Spec

INVARIANTS
  RetriesAreUsedUp
