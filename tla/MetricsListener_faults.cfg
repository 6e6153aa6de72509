CONSTANTS
  Jobs = {11, 12}
  Stages = {1, 2}
  Tasks = {1, 2}
  StagesOf <- SharedStage
  StageTasks <- UnevenTasks
  MaxAttempts = 2
  BytesRead <- VariedBytes
  FaultSets <- AllFaults

SPECIFICATION Spec

INVARIANTS
  TypeOK
  TaskAttribution
  AggregatedOnce
  OverlapIsWhole
  SequentialStagesAreSeparate
  FirstAttemptsAreReported
  SkewnessIsDefined
  SkewnessMeasuresImbalance

\* The application ends when all jobs have.
CHECK_DEADLOCK FALSE
