------------------------- MODULE MCMetricsListener -------------------------
(* Job graphs, bytes of tasks and fault sets for TLC. *)
EXTENDS StageSkewness

\* Two jobs that share stage 2.
SharedStage == [j \in Jobs |-> IF j = 11 THEN {1, 2} ELSE {2}]

\* Two tasks in the first stage, one in the second.
UnevenTasks == [s \in Stages |-> IF s = 1 THEN {1, 2} ELSE {1}]

\* A task that reads nothing, two alike, and one that reads far more.
VariedBytes ==
  [id \in TaskIds |->
     CASE id.stage = 1 /\ id.task = 1 -> 0
       [] id.stage = 2 /\ id.attempt = 2 -> 7
       [] OTHER -> 2]

\* From an undisturbed application to all faults of Spark, and a client that
\* throws under all faults but retries.
AllFaults ==
  { {}, {"noMetrics"}, {"concurrent"},
    {"concurrent", "late", "noMetrics", "throw"},
    {"concurrent", "retry", "late", "noMetrics", "drop"} }
=============================================================================
