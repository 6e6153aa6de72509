CONSTANTS
  BatchSize = 2
  BatchTime = 2
  MaxRetries = 2
  InitialBackoff = 1
  MaxBackoff = 3
  InitialDelay = 1
  MaxConnections = 2
  CredentialsExpire = FALSE
  Malformed = {}
  Wide = {}
  RequestLimit = 3
  MaxRecords = 3
  MaxTime = 6

SPECIFICATION HealthySpec

PROPERTIES
  Freshness
