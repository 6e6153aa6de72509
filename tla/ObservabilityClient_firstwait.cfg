\* The constants of the source: after the first failure of a cycle the retry is
\* 30 seconds away, 20 after the end of the initial delay of 10.
CONSTANTS
  BatchSize = 2
  BatchTime = 10
  MaxRetries = 5
  InitialBackoff = 5
  MaxBackoff = 60
  InitialDelay = 10
  MaxConnections = 4
  CredentialsExpire = FALSE
  Malformed = {}
  Wide = {}
  RequestLimit = 3
  MaxRecords = 3
  MaxTime = 1

SPECIFICATION Spec

PROPERTIES
  FirstWaitIsInitial
