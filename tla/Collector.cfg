\* Five records at most: three tasks and two stages.
CONSTANTS
  Jobs = {11}
  Stages = {1, 2}
  Tasks = {1, 2}
  StagesOf <- AllStages
  StageTasks <- UnevenTasks
  MaxAttempts = 1
  FaultSets = {{"throw"}}
  BatchSize = 2
  BatchTime = 2
  MaxRetries = 1
  InitialBackoff = 1
  MaxBackoff = 2
  InitialDelay = 1
  MaxConnections = 2
  CredentialsExpire = TRUE
  Malformed = {}
  Wide = {}
  RequestLimit = 4
  MaxRecords = 5
  MaxTime = 4

SPECIFICATION CollectorSpec

INVARIANTS
  BusTypeOK
  EndDelivers

PROPERTIES
  StagesRecover
  FirstMetricNotAlone
  ApplicationEnds

\* The application ends and the clock stops.
CHECK_DEADLOCK FALSE
