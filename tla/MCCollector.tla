---------------------------- MODULE MCCollector ----------------------------
(* An application for TLC. *)
EXTENDS Collector

\* Every job runs all stages.
AllStages == [j \in Jobs |-> Stages]

\* Two tasks in the first stage, one in the second.
UnevenTasks == [s \in Stages |-> IF s = 1 THEN {1, 2} ELSE {1}]
=============================================================================
