CONSTANTS
  Jobs = {11, 12}
  Stages = {1, 2}
  Tasks = {1, 2}
  StagesOf <- SharedStage
  StageTasks <- UnevenTasks
  MaxAttempts = 2
  BytesRead <- VariedBytes
  FaultSets = {{"concurrent"}}

SPECIFICATION Spec

INVARIANTS
  StageAggregatesOwnTasks

\* The application ends when all jobs have.
CHECK_DEADLOCK FALSE
