--------------------------- MODULE MetricsListener ---------------------------
(***************************************************************************)
(* CustomMetricsListener on Spark's listener bus: it attributes every task *)
(* to a job, hands task metrics to the client, buffers a light copy, and   *)
(* at the end of a stage aggregates the buffer into one stage record.      *)
(*                                                                         *)
(* An action is one event of the Spark scheduler and the callback that the *)
(* single thread of the bus runs for it.  The bus catches what a callback  *)
(* throws and goes on.  Spark itself is external: the actions allow the    *)
(* event orders that its DAG scheduler produces.  Of the client it matters *)
(* only that add takes the record first and may throw afterwards.          *)
(***************************************************************************)
EXTENDS Integers, Sequences, Functions

CONSTANTS
  Jobs, Stages, Tasks,  \* ids
  StagesOf,         \* the stageIds of each job's start event
  StageTasks,       \* the tasks of each attempt of a stage
  MaxAttempts,      \* bound: attempts of a stage
  FaultSets         \* the choices for faults, see Hazards

\* concurrent: stages run side by side.  retry: a stage fails and runs again.
\* late: a task may end after its stage.  noMetrics: a task may end without
\* task metrics.  drop: the full bus may drop an event.  throw: add may throw.
Hazards == {"concurrent", "retry", "late", "noMetrics", "drop", "throw"}

ASSUME ListenerAssumption ==
  /\ StagesOf \in [Jobs -> SUBSET Stages]
  /\ StageTasks \in [Stages -> SUBSET Tasks]
  /\ MaxAttempts \in Nat \ {0}
  /\ FaultSets \subseteq SUBSET Hazards

VARIABLES
  faults,           \* what Spark and the client may do in this behaviour
  \* Spark
  jobState,         \* "new", "running" or "ended"
  stageState,       \* "waiting", "running" or "done"
  attempt,          \* attempts of each stage so far
  running,          \* tasks of the current attempt that have not ended
  zombies,          \* tasks still running after their stage has completed
  \* the listener
  stageToJobMapping,
  taskMetricsBuffer,
  \* what the client has been handed
  taskRecords,      \* task metrics
  stageRecords      \* stage aggregates, in order

sparkVars    == <<faults, jobState, stageState, attempt, running, zombies>>
listenerVars == <<stageToJobMapping, taskMetricsBuffer>>
clientVars   == <<taskRecords, stageRecords>>
vars == <<sparkVars, listenerVars, clientVars>>

TaskIds == [stage : Stages, attempt : 1..MaxAttempts, task : Tasks]
TaskMetrics == [id : TaskIds, job : Jobs]
\* completed is the stage of the event; stage and job are the record's own.
StageMetrics ==
  [completed : Stages, stage : Stages, job : Jobs, tasks : SUBSET TaskMetrics]

TypeOK ==
  /\ faults \in FaultSets
  /\ jobState \in [Jobs -> {"new", "running", "ended"}]
  /\ stageState \in [Stages -> {"waiting", "running", "done"}]
  /\ attempt \in [Stages -> 0..MaxAttempts]
  /\ running \in [Stages -> SUBSET Tasks]
  /\ zombies \subseteq TaskIds
  /\ DOMAIN stageToJobMapping \subseteq Stages
  /\ Range(stageToJobMapping) \subseteq Jobs
  /\ taskMetricsBuffer \in Seq(TaskMetrics)
  /\ taskRecords \subseteq TaskMetrics
  /\ stageRecords \in Seq(StageMetrics)

Init ==
  /\ faults \in FaultSets
  /\ jobState = [j \in Jobs |-> "new"]
  /\ stageState = [s \in Stages |-> "waiting"]
  /\ attempt = [s \in Stages |-> 0]
  /\ running = [s \in Stages |-> {}]
  /\ zombies = {}
  /\ stageToJobMapping = [s \in {} |-> 0]
  /\ taskMetricsBuffer = <<>>
  /\ taskRecords = {}
  /\ stageRecords = <<>>

-----------------------------------------------------------------------------
(* The callbacks.                                                          *)

MayDrop  == IF "drop"  \in faults THEN BOOLEAN ELSE {FALSE}
MayThrow == IF "throw" \in faults THEN BOOLEAN ELSE {FALSE}

\* Mutant: the mapping the other way round, from job to stage.
onJobStart_Swapped(j) ==
  /\ stageToJobMapping' =
       [x \in DOMAIN stageToJobMapping \cup {j} |->
          IF x = j THEN CHOOSE s \in Stages : s \in StagesOf[j]
                   ELSE stageToJobMapping[x]]
  /\ UNCHANGED <<taskMetricsBuffer, clientVars>>

\* Mutant: the latest job takes over every stage.
onJobStart_AllStages(j) ==
  /\ stageToJobMapping' = [s \in DOMAIN stageToJobMapping \cup StagesOf[j] |-> j]
  /\ UNCHANGED <<taskMetricsBuffer, clientVars>>

\* Mutant: a job keeps only its own stages, the others are forgotten.
onJobStart_Replace(j) ==
  /\ stageToJobMapping' = [s \in StagesOf[j] |-> j]
  /\ UNCHANGED <<taskMetricsBuffer, clientVars>>

onJobStart(j) ==
  /\ stageToJobMapping' =
       [s \in DOMAIN stageToJobMapping \cup StagesOf[j] |->
          IF s \in StagesOf[j] THEN j ELSE stageToJobMapping[s]]
  /\ UNCHANGED <<taskMetricsBuffer, clientVars>>

\* collectTaskCustomMetrics throws on an unmapped stage and on missing metrics;
\* then nothing is handed over.  An add that throws skips the light copy.
onTaskEnd(id, hasMetrics) ==
  IF id.stage \in DOMAIN stageToJobMapping /\ hasMetrics
    THEN LET metrics == [id |-> id, job |-> stageToJobMapping[id.stage]]
         IN  \E throws \in MayThrow :
               /\ taskRecords' = taskRecords \cup {metrics}
               /\ taskMetricsBuffer' =
                    IF throws THEN taskMetricsBuffer
                              ELSE Append(taskMetricsBuffer, metrics)
               /\ UNCHANGED <<stageToJobMapping, stageRecords>>
    ELSE UNCHANGED <<listenerVars, clientVars>>

\* collectStageCustomMetrics: the whole buffer, under the ids of its first task.
collectStageCustomMetrics(s) ==
  LET metric == Head(taskMetricsBuffer)
  IN  [completed |-> s, stage |-> metric.id.stage, job |-> metric.job,
       tasks |-> Range(taskMetricsBuffer)]

\* Mutant: the buffer is not cleared.
onStageCompleted_NoClear(s) ==
  IF taskMetricsBuffer # <<>>
    THEN /\ stageRecords' = Append(stageRecords, collectStageCustomMetrics(s))
         /\ stageToJobMapping' =
              Restrict(stageToJobMapping, DOMAIN stageToJobMapping \ {s})
         /\ UNCHANGED <<taskMetricsBuffer, taskRecords>>
    ELSE UNCHANGED <<listenerVars, clientVars>>

\* Mutant: only the tasks of the completed stage leave the buffer.
onStageCompleted_OwnTasks(s) ==
  IF taskMetricsBuffer # <<>>
    THEN /\ stageRecords' = Append(stageRecords, collectStageCustomMetrics(s))
         /\ stageToJobMapping' =
              Restrict(stageToJobMapping, DOMAIN stageToJobMapping \ {s})
         /\ taskMetricsBuffer' =
              SelectSeq(taskMetricsBuffer, LAMBDA m : m.id.stage # s)
         /\ UNCHANGED taskRecords
    ELSE UNCHANGED <<listenerVars, clientVars>>

\* An empty buffer cannot be reduced: nothing is sent or cleaned up.  An add
\* that throws has taken the record but skips the clean-up.
onStageCompleted(s) ==
  IF taskMetricsBuffer # <<>>
    THEN \E throws \in MayThrow :
           /\ stageRecords' = Append(stageRecords, collectStageCustomMetrics(s))
           /\ IF throws
                THEN UNCHANGED listenerVars
                ELSE /\ stageToJobMapping' =
                          Restrict(stageToJobMapping, DOMAIN stageToJobMapping \ {s})
                     /\ taskMetricsBuffer' = <<>>
           /\ UNCHANGED taskRecords
    ELSE UNCHANGED <<listenerVars, clientVars>>

\* The callback of an event that reaches the listener; nothing if it is dropped.
Deliver(callback) == callback \/ (TRUE \in MayDrop /\ UNCHANGED <<listenerVars, clientVars>>)

-----------------------------------------------------------------------------
(* The scheduler's events.                                                 *)

JobStart(j) ==
  /\ jobState[j] = "new"
  /\ jobState' = [jobState EXCEPT ![j] = "running"]
  /\ Deliver(onJobStart(j))
  /\ UNCHANGED <<faults, stageState, attempt, running, zombies>>

\* Stages of a running job start one after the other or, with "concurrent",
\* side by side.  The listener has no callback for it.
StageSubmitted(s) ==
  /\ stageState[s] = "waiting"
  /\ \E j \in Jobs : jobState[j] = "running" /\ s \in StagesOf[j]
  /\ \/ "concurrent" \in faults
     \/ \A t \in Stages : stageState[t] # "running"
  /\ stageState' = [stageState EXCEPT ![s] = "running"]
  /\ attempt' = [attempt EXCEPT ![s] = @ + 1]
  /\ running' = [running EXCEPT ![s] = StageTasks[s]]
  /\ UNCHANGED <<faults, jobState, zombies, listenerVars, clientVars>>

HasMetrics == IF "noMetrics" \in faults THEN BOOLEAN ELSE {TRUE}

TaskEnd(s, t) ==
  /\ t \in running[s]
  /\ running' = [running EXCEPT ![s] = @ \ {t}]
  /\ \E hasMetrics \in HasMetrics :
       Deliver(onTaskEnd([stage |-> s, attempt |-> attempt[s], task |-> t], hasMetrics))
  /\ UNCHANGED <<faults, jobState, stageState, attempt, zombies>>

LateTaskEnd(id) ==
  /\ id \in zombies
  /\ zombies' = zombies \ {id}
  /\ Deliver(onTaskEnd(id, TRUE))
  /\ UNCHANGED <<faults, jobState, stageState, attempt, running>>

\* A stage completes when its tasks have ended.  A task that ended elsewhere
\* may leave a copy running; a fetch failure completes the attempt early.
StageCompleted(s) ==
  /\ stageState[s] = "running"
  /\ \/ running[s] = {} /\ stageState' = [stageState EXCEPT ![s] = "done"]
     \/ "late" \in faults /\ stageState' = [stageState EXCEPT ![s] = "done"]
     \/ /\ "retry" \in faults
        /\ attempt[s] < MaxAttempts
        /\ stageState' = [stageState EXCEPT ![s] = "waiting"]
  /\ zombies' = zombies \cup
       {[stage |-> s, attempt |-> attempt[s], task |-> t] : t \in running[s]}
  /\ running' = [running EXCEPT ![s] = {}]
  /\ Deliver(onStageCompleted(s))
  /\ UNCHANGED <<faults, jobState, attempt>>

\* The callback only asks the client to flush.
JobEnd(j) ==
  /\ jobState[j] = "running"
  /\ \A s \in StagesOf[j] : stageState[s] = "done"
  /\ jobState' = [jobState EXCEPT ![j] = "ended"]
  /\ UNCHANGED <<faults, stageState, attempt, running, zombies, listenerVars, clientVars>>

Next ==
  \/ \E j \in Jobs : JobStart(j) \/ JobEnd(j)
  \/ \E s \in Stages : StageSubmitted(s) \/ StageCompleted(s)
  \/ \E s \in Stages, t \in Tasks : TaskEnd(s, t)
  \/ \E id \in zombies : LateTaskEnd(id)

Spec == Init /\ [][Next]_vars

-----------------------------------------------------------------------------
(* Properties.                                                             *)

Aggregated(i) == stageRecords[i].tasks

\* Whatever Spark retries, drops or delays, a task record names a job that has
\* started and lists the task's stage: a stale or overwritten mapping entry
\* never attributes a task to a foreign job.
TaskAttribution ==
  \A m \in taskRecords :
    m.id.stage \in StagesOf[m.job] /\ jobState[m.job] # "new"

\* While add does not throw, no task is aggregated twice, neither into two stage
\* records nor still waiting in the buffer after it was aggregated, however
\* stages and attempts overlap.
AggregatedOnce ==
  "throw" \notin faults =>
    /\ \A i, k \in 1..Len(stageRecords) :
         i # k => Aggregated(i) \cap Aggregated(k) = {}
    /\ \A i \in 1..Len(stageRecords) :
         Aggregated(i) \cap Range(taskMetricsBuffer) = {}

\* An add that throws skips the clean-up, and the tasks it left are aggregated again.
\* Even then a later record that repeats a task of an earlier one repeats all of it:
\* the newest of the records that overlap is the sum of all of them, so that the others
\* can be told from it and left out.
OverlapIsWhole ==
  \A i, k \in 1..Len(stageRecords) :
    i < k /\ Aggregated(i) \cap Aggregated(k) # {} => Aggregated(i) \subseteq Aggregated(k)

\* A record that has the completed stage's id, all its tasks and no others.
ExactRecord(r) ==
  r.stage = r.completed /\ r.tasks = {m \in taskRecords : m.id.stage = r.completed}

\* The comment on collectStageCustomMetrics: it collects all the task metrics from
\* the stage, so those of this stage and no others, under this stage's id.
StageAggregatesOwnTasks == \A i \in 1..Len(stageRecords) : ExactRecord(stageRecords[i])

\* What the comment says does hold while stages run one at a time, their tasks
\* end before them, every event arrives and add does not throw.
SequentialStagesAreSeparate ==
  faults \subseteq {"noMetrics"} => StageAggregatesOwnTasks

\* Tasks of the current attempt that have ended.
Ended(s) ==
  {t \in StageTasks[s] :
     /\ attempt[s] > 0
     /\ t \notin running[s]
     /\ [stage |-> s, attempt |-> attempt[s], task |-> t] \notin zombies}

\* The comment on onTaskEnd: task metrics are collected and sent at each task
\* end, so every ended task of the current attempt has a record.
EveryTaskReported ==
  \A s \in Stages : \A t \in Ended(s) :
    \E m \in taskRecords :
      m.id = [stage |-> s, attempt |-> attempt[s], task |-> t]

\* It holds for stages that run once, even side by side: the mapping outlives
\* every task of its stage though jobs that share stages come and go.
FirstAttemptsAreReported == faults \subseteq {"concurrent"} => EveryTaskReported
=============================================================================
