----------------------- MODULE MetricsListenerProofs -----------------------
(***************************************************************************)
(* Proofs about the metrics listener, for any jobs that share any stages,  *)
(* any tasks, any number of attempts and any mix of faults.                *)
(***************************************************************************)
EXTENDS MetricsListener, TLAPS

-----------------------------------------------------------------------------
(* The invariant.                                                          *)

\* What Spark's scheduler keeps in step.
SparkInv ==
  /\ \A s \in Stages :
       /\ running[s] # {} => stageState[s] = "running"
       /\ stageState[s] = "running" => attempt[s] > 0
       /\ stageState[s] = "waiting" => attempt[s] < MaxAttempts
  /\ \A id \in zombies :
       /\ id.attempt <= attempt[id.stage]
       /\ id.attempt = attempt[id.stage] => id.task \notin running[id.stage]

\* The event of this task has been; no other will come for it.
Over(id) ==
  /\ id \notin zombies
  /\ id.attempt <= attempt[id.stage]
  /\ id.attempt = attempt[id.stage] => id.task \notin running[id.stage]

\* A mapping entry names a job that has started and lists the stage.
MappingInv ==
  \A s \in DOMAIN stageToJobMapping :
    /\ s \in StagesOf[stageToJobMapping[s]]
    /\ jobState[stageToJobMapping[s]] # "new"

\* A task is recorded once its event has been, and buffered once it is recorded.
RecordsInv ==
  /\ \A m \in taskRecords : Over(m.id)
  /\ Range(taskMetricsBuffer) \subseteq taskRecords

\* A stage record sums up tasks whose own records the client was handed before.
AggregatesAreReported ==
  \A i \in 1..Len(stageRecords) : Aggregated(i) \subseteq taskRecords

\* Of the tasks of a record the buffer still holds all or none.
LeftOver ==
  \A i \in 1..Len(stageRecords) :
    Aggregated(i) \cap Range(taskMetricsBuffer) # {}
      => Aggregated(i) \subseteq Range(taskMetricsBuffer)

\* The inductive invariant of all that holds under any faults.
ListenerInv ==
  TypeOK /\ SparkInv /\ MappingInv /\ TaskAttribution /\ RecordsInv
    /\ AggregatesAreReported /\ AggregatedOnce /\ LeftOver /\ OverlapIsWhole

-----------------------------------------------------------------------------
(* Sequences and functions.                                                *)

\* What a sequence with one more element holds.
LEMMA RangeAppend ==
  ASSUME NEW S, NEW q \in Seq(S), NEW m \in S
  PROVE  /\ Append(q, m) \in Seq(S)
         /\ Range(Append(q, m)) = Range(q) \cup {m}
         /\ Len(Append(q, m)) = Len(q) + 1
         /\ \A i \in 1..Len(q) : Append(q, m)[i] = q[i]
         /\ Append(q, m)[Len(q) + 1] = m
<1>1. /\ DOMAIN q = 1..Len(q) /\ Len(q) \in Nat
      /\ DOMAIN Append(q, m) = 1..(Len(q) + 1)
      /\ \A i \in 1..Len(q) : Append(q, m)[i] = q[i]
      /\ Append(q, m)[Len(q) + 1] = m
      /\ Append(q, m) \in Seq(S)
      /\ Len(Append(q, m)) = Len(q) + 1
  OBVIOUS
<1>2. Range(Append(q, m)) \subseteq Range(q) \cup {m}
  BY <1>1 DEF Range
<1>3. Range(q) \cup {m} \subseteq Range(Append(q, m))
  <2>1. \A i \in 1..Len(q) : i \in DOMAIN Append(q, m)
    BY <1>1
  <2>2. Len(q) + 1 \in DOMAIN Append(q, m)
    BY <1>1
  <2>3. QED
    BY <1>1, <2>1, <2>2 DEF Range
<1>4. QED
  BY <1>1, <1>2, <1>3

\* What a sequence over S holds is in S.
LEMMA RangeOfSeq ==
  ASSUME NEW S, NEW q \in Seq(S)
  PROVE  /\ Range(q) \subseteq S
         /\ q # <<>> => Head(q) \in Range(q)
         /\ q = <<>> <=> Range(q) = {}
<1>1. DOMAIN q = 1..Len(q) /\ Len(q) \in Nat /\ \A i \in 1..Len(q) : q[i] \in S
  OBVIOUS
<1>2. q # <<>> => 1 \in 1..Len(q) /\ Head(q) = q[1]
  OBVIOUS
<1>3. Range(q) \subseteq S
  BY <1>1 DEF Range
<1>4. q # <<>> => Head(q) \in Range(q)
  BY <1>1, <1>2 DEF Range
<1>5. q = <<>> => Range(q) = {}
  BY DEF Range
<1>6. QED
  BY <1>3, <1>4, <1>5

-----------------------------------------------------------------------------
(* The callbacks.                                                          *)

\* A task that ends is recorded and perhaps buffered, under the job its stage is mapped
\* to, or nothing happens.
LEMMA TaskEndEffect ==
  ASSUME TypeOK, NEW id \in TaskIds, NEW hasMetrics, Deliver(onTaskEnd(id, hasMetrics))
  PROVE  /\ UNCHANGED <<stageToJobMapping, stageRecords>>
         /\ taskMetricsBuffer' \in Seq(TaskMetrics) /\ taskRecords' \subseteq TaskMetrics
         /\ \/ UNCHANGED <<listenerVars, clientVars>>
            \/ /\ id.stage \in DOMAIN stageToJobMapping
               /\ [id |-> id, job |-> stageToJobMapping[id.stage]] \in TaskMetrics
               /\ taskRecords' =
                    taskRecords \cup {[id |-> id, job |-> stageToJobMapping[id.stage]]}
               /\ Range(taskMetricsBuffer') \in
                    {Range(taskMetricsBuffer),
                     Range(taskMetricsBuffer) \cup
                       {[id |-> id, job |-> stageToJobMapping[id.stage]]}}
<1> DEFINE metrics == [id |-> id, job |-> stageToJobMapping[id.stage]]
<1>1. CASE UNCHANGED <<listenerVars, clientVars>>
  BY <1>1 DEF listenerVars, clientVars, TypeOK
<1>2. CASE ~UNCHANGED <<listenerVars, clientVars>>
  <2>1. /\ id.stage \in DOMAIN stageToJobMapping
        /\ taskRecords' = taskRecords \cup {metrics}
        /\ \/ taskMetricsBuffer' = taskMetricsBuffer
           \/ taskMetricsBuffer' = Append(taskMetricsBuffer, metrics)
        /\ UNCHANGED <<stageToJobMapping, stageRecords>>
    BY <1>2 DEF Deliver, onTaskEnd
  <2>2. stageToJobMapping[id.stage] \in Jobs
    BY <2>1 DEF TypeOK, Range
  <2>3. metrics \in TaskMetrics
    BY <2>2 DEF TaskMetrics
  <2>4. taskMetricsBuffer \in Seq(TaskMetrics) /\ taskRecords \subseteq TaskMetrics
    BY DEF TypeOK
  <2> HIDE DEF metrics
  <2>5. /\ Append(taskMetricsBuffer, metrics) \in Seq(TaskMetrics)
        /\ Range(Append(taskMetricsBuffer, metrics)) = Range(taskMetricsBuffer) \cup {metrics}
    BY <2>3, <2>4, RangeAppend
  <2>6. /\ taskMetricsBuffer' \in Seq(TaskMetrics) /\ taskRecords' \subseteq TaskMetrics
        /\ Range(taskMetricsBuffer') \in
             {Range(taskMetricsBuffer), Range(taskMetricsBuffer) \cup {metrics}}
    BY <2>1, <2>3, <2>4, <2>5
  <2>7. QED
    BY <2>1, <2>3, <2>6 DEF metrics
<1>3. QED
  BY <1>1, <1>2

\* A stage that completes adds a record of the buffered tasks and empties the buffer, or
\* adds it and does no more, or nothing happens.
LEMMA StageCompletedEffect ==
  ASSUME TypeOK, NEW s \in Stages, Deliver(onStageCompleted(s))
  PROVE  /\ taskMetricsBuffer' \in Seq(TaskMetrics) /\ UNCHANGED taskRecords
         /\ stageRecords' \in Seq(StageMetrics)
         /\ DOMAIN stageToJobMapping' \subseteq DOMAIN stageToJobMapping
         /\ DOMAIN stageToJobMapping \subseteq DOMAIN stageToJobMapping' \cup {s}
         /\ \A t \in DOMAIN stageToJobMapping' : stageToJobMapping'[t] = stageToJobMapping[t]
         /\ \/ UNCHANGED <<listenerVars, clientVars>>
            \/ /\ taskMetricsBuffer # <<>>
               /\ stageRecords' = Append(stageRecords, collectStageCustomMetrics(s))
               /\ collectStageCustomMetrics(s) \in StageMetrics
               /\ \/ taskMetricsBuffer' = <<>>
                  \/ "throw" \in faults /\ UNCHANGED taskMetricsBuffer
<1>1. CASE UNCHANGED <<listenerVars, clientVars>>
  BY <1>1 DEF listenerVars, clientVars, TypeOK
<1>2. CASE ~UNCHANGED <<listenerVars, clientVars>>
  <2>1. /\ taskMetricsBuffer # <<>>
        /\ stageRecords' = Append(stageRecords, collectStageCustomMetrics(s))
        /\ UNCHANGED taskRecords
        /\ \/ TRUE \in MayThrow /\ UNCHANGED listenerVars
           \/ /\ stageToJobMapping' =
                   Restrict(stageToJobMapping, DOMAIN stageToJobMapping \ {s})
              /\ taskMetricsBuffer' = <<>>
    BY <1>2 DEF Deliver, onStageCompleted
  <2>2. taskMetricsBuffer \in Seq(TaskMetrics) /\ stageRecords \in Seq(StageMetrics)
    BY DEF TypeOK
  <2>3. Range(taskMetricsBuffer) \subseteq TaskMetrics /\ Head(taskMetricsBuffer) \in TaskMetrics
    BY <2>1, <2>2, RangeOfSeq
  <2>4. collectStageCustomMetrics(s) \in StageMetrics
    BY <2>3 DEF collectStageCustomMetrics, StageMetrics, TaskMetrics, TaskIds
  <2>5. stageRecords' \in Seq(StageMetrics)
    BY <2>1, <2>2, <2>4, RangeAppend
  <2>6. TRUE \in MayThrow => "throw" \in faults
    BY DEF MayThrow
  <2>7. CASE TRUE \in MayThrow /\ UNCHANGED listenerVars
    BY <2>1, <2>2, <2>4, <2>5, <2>6, <2>7 DEF listenerVars
  <2>8. CASE /\ stageToJobMapping' =
                  Restrict(stageToJobMapping, DOMAIN stageToJobMapping \ {s})
             /\ taskMetricsBuffer' = <<>>
    <3>1. /\ DOMAIN stageToJobMapping' = DOMAIN stageToJobMapping \ {s}
          /\ \A t \in DOMAIN stageToJobMapping' : stageToJobMapping'[t] = stageToJobMapping[t]
      BY <2>8 DEF Restrict
    <3>2. taskMetricsBuffer' \in Seq(TaskMetrics)
      BY <2>8
    <3>3. QED
      BY <2>1, <2>4, <2>5, <2>8, <3>1, <3>2
  <2>9. QED
    BY <2>1, <2>7, <2>8
<1>3. QED
  BY <1>1, <1>2

\* A job that starts takes over its stages, or nothing happens.
LEMMA JobStartEffect ==
  ASSUME TypeOK, NEW j \in Jobs, Deliver(onJobStart(j))
  PROVE  /\ UNCHANGED <<taskMetricsBuffer, clientVars>>
         /\ DOMAIN stageToJobMapping' \subseteq Stages
         /\ DOMAIN stageToJobMapping \subseteq DOMAIN stageToJobMapping'
         /\ "drop" \notin faults => StagesOf[j] \subseteq DOMAIN stageToJobMapping'
         /\ \A s \in DOMAIN stageToJobMapping' :
              \/ s \in StagesOf[j] /\ stageToJobMapping'[s] = j
              \/ /\ s \in DOMAIN stageToJobMapping
                 /\ stageToJobMapping'[s] = stageToJobMapping[s]
<1>1. StagesOf[j] \subseteq Stages
  BY ListenerAssumption DEF ListenerAssumption
<1>2. CASE onJobStart(j)
  BY <1>1, <1>2 DEF onJobStart, TypeOK
<1>3. CASE TRUE \in MayDrop /\ UNCHANGED <<listenerVars, clientVars>>
  BY <1>3 DEF MayDrop, listenerVars, clientVars, TypeOK
<1>4. QED
  BY <1>2, <1>3 DEF Deliver

-----------------------------------------------------------------------------
(* The steps of Spark.                                                     *)

\* Any step, by what it does to the tasks that are still to end.
LEMMA TaskEnds ==
  ASSUME TypeOK, SparkInv, NEW s \in Stages, NEW t \in Tasks, TaskEnd(s, t)
  PROVE  \E id \in TaskIds :
           /\ id = [stage |-> s, attempt |-> attempt[s], task |-> t]
           /\ stageState[s] = "running" /\ t \in running[s]
           /\ \E hasMetrics \in HasMetrics : Deliver(onTaskEnd(id, hasMetrics))
<1>1. stageState[s] = "running" /\ t \in running[s] /\ attempt[s] \in 1..MaxAttempts
  BY DEF TaskEnd, SparkInv, TypeOK
<1>2. [stage |-> s, attempt |-> attempt[s], task |-> t] \in TaskIds
  BY <1>1 DEF TaskIds
<1>3. QED
  BY <1>1, <1>2 DEF TaskEnd

\* The tasks that a completing stage leaves running have an attempt that Spark allows.
LEMMA CompletedTasks ==
  ASSUME TypeOK, SparkInv, NEW s \in Stages, StageCompleted(s)
  PROVE  /\ attempt[s] \in 1..MaxAttempts
         /\ {[stage |-> s, attempt |-> attempt[s], task |-> t] : t \in running[s]}
              \subseteq TaskIds
<1>1. attempt[s] \in 1..MaxAttempts /\ running[s] \subseteq Tasks
  BY ListenerAssumption DEF StageCompleted, SparkInv, TypeOK, ListenerAssumption
<1>2. QED
  BY <1>1 DEF TaskIds

\* Spark's scheduler keeps its own invariant.
LEMMA SparkSteps ==
  ASSUME TypeOK, SparkInv, [Next]_vars
  PROVE  SparkInv'
<1>1. ASSUME NEW j \in Jobs, JobStart(j) \/ JobEnd(j)
      PROVE  SparkInv'
  BY <1>1 DEF JobStart, JobEnd, SparkInv
<1>2. ASSUME NEW s \in Stages, StageSubmitted(s)
      PROVE  SparkInv'
  BY <1>2, ListenerAssumption DEF StageSubmitted, SparkInv, TypeOK, TaskIds, ListenerAssumption
<1>3. ASSUME NEW s \in Stages, NEW t \in Tasks, TaskEnd(s, t)
      PROVE  SparkInv'
  BY <1>3 DEF TaskEnd, SparkInv, TypeOK, TaskIds
<1>4. ASSUME NEW id \in zombies, LateTaskEnd(id)
      PROVE  SparkInv'
  BY <1>4 DEF LateTaskEnd, SparkInv
<1>5. ASSUME NEW s \in Stages, StageCompleted(s)
      PROVE  SparkInv'
  <2>1. /\ attempt' = attempt /\ running' = [running EXCEPT ![s] = {}]
        /\ zombies' = zombies \cup
             {[stage |-> s, attempt |-> attempt[s], task |-> t] : t \in running[s]}
        /\ \/ stageState' = [stageState EXCEPT ![s] = "done"]
           \/ /\ stageState' = [stageState EXCEPT ![s] = "waiting"]
              /\ attempt[s] < MaxAttempts
    BY <1>5 DEF StageCompleted
  <2>2. attempt[s] \in 1..MaxAttempts
    BY <1>5, CompletedTasks
  <2>3. \A r \in Stages :
          /\ running'[r] # {} => stageState'[r] = "running"
          /\ stageState'[r] = "running" => attempt'[r] > 0
          /\ stageState'[r] = "waiting" => attempt'[r] < MaxAttempts
    BY <2>1 DEF SparkInv, TypeOK
  <2>4. \A id \in zombies' : /\ id.attempt <= attempt[id.stage]
                             /\ id.stage \in Stages
                             /\ id.attempt = attempt[id.stage] => id.task \notin running'[id.stage]
    BY <2>1, <2>2 DEF SparkInv, TypeOK, TaskIds
  <2>5. QED
    BY <2>1, <2>3, <2>4 DEF SparkInv
<1>6. CASE UNCHANGED vars
  BY <1>6 DEF vars, sparkVars, SparkInv
<1>7. QED
  BY <1>1, <1>2, <1>3, <1>4, <1>5, <1>6 DEF Next

\* Every step keeps the ranges of the variables.
LEMMA TypeSteps ==
  ASSUME TypeOK, SparkInv, [Next]_vars
  PROVE  TypeOK'
<1>1. ASSUME NEW j \in Jobs, JobStart(j)
      PROVE  TypeOK'
  <2>1. Deliver(onJobStart(j)) /\ jobState' = [jobState EXCEPT ![j] = "running"]
        /\ UNCHANGED <<faults, stageState, attempt, running, zombies>>
    BY <1>1 DEF JobStart
  <2>2. /\ UNCHANGED <<taskMetricsBuffer, clientVars>>
        /\ DOMAIN stageToJobMapping' \subseteq Stages
        /\ Range(stageToJobMapping') \subseteq Jobs
    BY <2>1, JobStartEffect DEF Range, TypeOK
  <2>3. QED
    BY <2>1, <2>2 DEF TypeOK, clientVars
<1>2. ASSUME NEW j \in Jobs, JobEnd(j)
      PROVE  TypeOK'
  BY <1>2 DEF JobEnd, TypeOK, listenerVars, clientVars
<1>3. ASSUME NEW s \in Stages, StageSubmitted(s)
      PROVE  TypeOK'
  <2>1. attempt[s] + 1 \in 0..MaxAttempts
    BY <1>3, ListenerAssumption DEF StageSubmitted, TypeOK, SparkInv, ListenerAssumption
  <2>2. StageTasks[s] \subseteq Tasks
    BY ListenerAssumption DEF ListenerAssumption
  <2>3. QED
    BY <1>3, <2>1, <2>2 DEF StageSubmitted, TypeOK, listenerVars, clientVars
<1>4. ASSUME NEW s \in Stages, NEW t \in Tasks, TaskEnd(s, t)
      PROVE  TypeOK'
  <2>1. PICK id \in TaskIds, hasMetrics \in HasMetrics : Deliver(onTaskEnd(id, hasMetrics))
    BY <1>4, TaskEnds
  <2>2. /\ UNCHANGED <<stageToJobMapping, stageRecords>>
        /\ taskMetricsBuffer' \in Seq(TaskMetrics) /\ taskRecords' \subseteq TaskMetrics
    BY <2>1, TaskEndEffect
  <2>3. QED
    BY <1>4, <2>2 DEF TaskEnd, TypeOK
<1>5. ASSUME NEW id \in zombies, LateTaskEnd(id)
      PROVE  TypeOK'
  <2>1. id \in TaskIds /\ Deliver(onTaskEnd(id, TRUE))
    BY <1>5 DEF LateTaskEnd, TypeOK
  <2>2. /\ UNCHANGED <<stageToJobMapping, stageRecords>>
        /\ taskMetricsBuffer' \in Seq(TaskMetrics) /\ taskRecords' \subseteq TaskMetrics
    BY <2>1, TaskEndEffect
  <2>3. QED
    BY <1>5, <2>2 DEF LateTaskEnd, TypeOK
<1>6. ASSUME NEW s \in Stages, StageCompleted(s)
      PROVE  TypeOK'
  <2>1. Deliver(onStageCompleted(s))
    BY <1>6 DEF StageCompleted
  <2>2. /\ taskMetricsBuffer' \in Seq(TaskMetrics) /\ taskRecords' \subseteq TaskMetrics
        /\ stageRecords' \in Seq(StageMetrics)
        /\ DOMAIN stageToJobMapping' \subseteq Stages
        /\ Range(stageToJobMapping') \subseteq Jobs
    BY <2>1, StageCompletedEffect DEF TypeOK, Range
  <2>3. zombies' \subseteq TaskIds
    BY <1>6, CompletedTasks DEF StageCompleted, TypeOK
  <2>4. QED
    BY <1>6, <2>2, <2>3 DEF StageCompleted, TypeOK
<1>7. CASE UNCHANGED vars
  BY <1>7 DEF vars, sparkVars, listenerVars, clientVars, TypeOK
<1>8. QED
  BY <1>1, <1>2, <1>3, <1>4, <1>5, <1>6, <1>7 DEF Next

\* What the client and the listener see of a step, and where the step comes from.
LEMMA Callbacks ==
  ASSUME TypeOK, SparkInv, [Next]_vars
  PROVE  \/ UNCHANGED <<listenerVars, clientVars>>
         \/ \E j \in Jobs : JobStart(j) /\ Deliver(onJobStart(j))
         \/ \E id \in TaskIds, hasMetrics \in BOOLEAN : Deliver(onTaskEnd(id, hasMetrics))
         \/ \E s \in Stages : StageCompleted(s) /\ Deliver(onStageCompleted(s))
<1>1. HasMetrics \subseteq BOOLEAN
  BY DEF HasMetrics
<1>2. ASSUME NEW s \in Stages, NEW t \in Tasks, TaskEnd(s, t)
      PROVE  \E id \in TaskIds, hasMetrics \in BOOLEAN : Deliver(onTaskEnd(id, hasMetrics))
  BY <1>1, <1>2, TaskEnds
<1>3. ASSUME NEW id \in zombies, LateTaskEnd(id)
      PROVE  id \in TaskIds /\ Deliver(onTaskEnd(id, TRUE))
  BY <1>3 DEF LateTaskEnd, TypeOK
<1>4. CASE UNCHANGED vars
  BY <1>4 DEF vars
<1>5. ASSUME NEW j \in Jobs, JobEnd(j)
      PROVE  UNCHANGED <<listenerVars, clientVars>>
  BY <1>5 DEF JobEnd
<1>6. ASSUME NEW s \in Stages, StageSubmitted(s)
      PROVE  UNCHANGED <<listenerVars, clientVars>>
  BY <1>6 DEF StageSubmitted
<1>7. ASSUME NEW j \in Jobs, JobStart(j)
      PROVE  Deliver(onJobStart(j))
  BY <1>7 DEF JobStart
<1>8. ASSUME NEW s \in Stages, StageCompleted(s)
      PROVE  Deliver(onStageCompleted(s))
  BY <1>8 DEF StageCompleted
<1>9. QED
  BY <1>2, <1>3, <1>4, <1>5, <1>6, <1>7, <1>8 DEF Next

\* A job that has started never becomes new.
LEMMA JobsStayStarted ==
  ASSUME TypeOK, [Next]_vars, NEW j \in Jobs, jobState[j] # "new"
  PROVE  jobState'[j] # "new"
<1>1. \/ UNCHANGED jobState
      \/ \E k \in Jobs : jobState' \in {[jobState EXCEPT ![k] = "running"],
                                        [jobState EXCEPT ![k] = "ended"]}
  BY DEF Next, JobStart, JobEnd, StageSubmitted, TaskEnd, LateTaskEnd, StageCompleted, vars,
         sparkVars
<1>2. QED
  BY <1>1 DEF TypeOK

-----------------------------------------------------------------------------
(* The mapping and the attribution of tasks.                               *)

\* Every step keeps the mapping and what was recorded by it.
LEMMA MappingSteps ==
  ASSUME TypeOK, SparkInv, MappingInv, TaskAttribution, [Next]_vars
  PROVE  MappingInv' /\ TaskAttribution'
<1>1. /\ \A s \in DOMAIN stageToJobMapping : stageToJobMapping[s] \in Jobs
      /\ \A m \in taskRecords : m.job \in Jobs
  BY DEF TypeOK, Range, TaskMetrics
<1>2. \A j \in Jobs : jobState[j] # "new" => jobState'[j] # "new"
  BY JobsStayStarted
<1>3. CASE UNCHANGED <<listenerVars, clientVars>>
  BY <1>1, <1>2, <1>3 DEF listenerVars, clientVars, MappingInv, TaskAttribution
<1>4. ASSUME NEW j \in Jobs, JobStart(j), Deliver(onJobStart(j))
      PROVE  MappingInv' /\ TaskAttribution'
  <2>1. jobState'[j] # "new"
    BY <1>4 DEF JobStart, TypeOK
  <2>2. MappingInv'
    BY <1>1, <1>2, <1>4, <2>1, JobStartEffect DEF MappingInv
  <2>3. TaskAttribution'
    BY <1>1, <1>2, <1>4, JobStartEffect DEF TaskAttribution, clientVars
  <2>4. QED
    BY <2>2, <2>3
<1>5. ASSUME NEW id \in TaskIds, NEW hasMetrics \in BOOLEAN, Deliver(onTaskEnd(id, hasMetrics))
      PROVE  MappingInv' /\ TaskAttribution'
  <2>1. UNCHANGED stageToJobMapping
    BY <1>5, TaskEndEffect
  <2>2. \/ taskRecords' = taskRecords
        \/ /\ id.stage \in DOMAIN stageToJobMapping
           /\ taskRecords' =
                taskRecords \cup {[id |-> id, job |-> stageToJobMapping[id.stage]]}
    BY <1>5, TaskEndEffect DEF clientVars
  <2>3. MappingInv'
    BY <1>1, <1>2, <2>1 DEF MappingInv
  <2>4. TaskAttribution'
    BY <1>1, <1>2, <2>2 DEF MappingInv, TaskAttribution
  <2>5. QED
    BY <2>3, <2>4
<1>6. ASSUME NEW s \in Stages, StageCompleted(s), Deliver(onStageCompleted(s))
      PROVE  MappingInv' /\ TaskAttribution'
  <2>1. /\ UNCHANGED taskRecords
        /\ DOMAIN stageToJobMapping' \subseteq DOMAIN stageToJobMapping
        /\ \A t \in DOMAIN stageToJobMapping' : stageToJobMapping'[t] = stageToJobMapping[t]
    BY <1>6, StageCompletedEffect
  <2>2. QED
    BY <1>1, <1>2, <2>1 DEF MappingInv, TaskAttribution
<1>7. QED
  BY <1>3, <1>4, <1>5, <1>6, Callbacks

-----------------------------------------------------------------------------
(* The records and the buffer.                                             *)

\* A task that is over stays so; the task of a step was not over, and is then.
LEMMA OverStays ==
  ASSUME TypeOK, SparkInv, [Next]_vars, NEW id \in TaskIds, Over(id)
  PROVE  Over(id)'
<1>1. id.stage \in Stages
  BY DEF TaskIds
<1>2. ASSUME NEW s \in Stages, StageSubmitted(s)
      PROVE  Over(id)'
  <2>1. attempt' = [attempt EXCEPT ![s] = @ + 1] /\ UNCHANGED zombies
        /\ running' = [running EXCEPT ![s] = StageTasks[s]]
    BY <1>2 DEF StageSubmitted
  <2>2. CASE id.stage = s
    BY <1>1, <2>1, <2>2 DEF Over, TypeOK, TaskIds
  <2>3. CASE id.stage # s
    BY <1>1, <2>1, <2>3 DEF Over, TypeOK
  <2>4. QED
    BY <2>2, <2>3
<1>3. ASSUME NEW s \in Stages, NEW t \in Tasks, TaskEnd(s, t)
      PROVE  Over(id)'
  BY <1>1, <1>3 DEF TaskEnd, Over, TypeOK
<1>4. ASSUME NEW s \in Stages, StageCompleted(s)
      PROVE  Over(id)'
  BY <1>1, <1>4 DEF StageCompleted, Over, TypeOK
<1>5. \/ UNCHANGED <<attempt, running>> /\ zombies' \subseteq zombies
      \/ \E s \in Stages : StageSubmitted(s) \/ StageCompleted(s)
      \/ \E s \in Stages, t \in Tasks : TaskEnd(s, t)
  BY DEF Next, JobStart, JobEnd, LateTaskEnd, vars, sparkVars
<1>6. CASE UNCHANGED <<attempt, running>> /\ zombies' \subseteq zombies
  BY <1>6 DEF Over
<1>7. QED
  BY <1>2, <1>3, <1>4, <1>5, <1>6

\* What a step does to the records: the task whose event it is has none before.
LEMMA RecordedTask ==
  ASSUME TypeOK, SparkInv, RecordsInv, [Next]_vars
  PROVE  \/ /\ UNCHANGED taskRecords
            /\ Range(taskMetricsBuffer') \in {Range(taskMetricsBuffer), {}}
         \/ \E m \in TaskMetrics \ taskRecords :
              /\ taskRecords' = taskRecords \cup {m}
              /\ Range(taskMetricsBuffer') \in
                   {Range(taskMetricsBuffer), Range(taskMetricsBuffer) \cup {m}}
              /\ Over(m.id)'
              /\ UNCHANGED stageRecords
<1>1. ASSUME NEW id \in TaskIds, NEW hasMetrics, Deliver(onTaskEnd(id, hasMetrics)),
             ~Over(id), Over(id)'
      PROVE  \/ UNCHANGED <<taskRecords, taskMetricsBuffer>>
             \/ \E m \in TaskMetrics \ taskRecords :
                  /\ taskRecords' = taskRecords \cup {m}
                  /\ Range(taskMetricsBuffer') \in
                       {Range(taskMetricsBuffer), Range(taskMetricsBuffer) \cup {m}}
                  /\ Over(m.id)'
                  /\ UNCHANGED stageRecords
  <2> DEFINE m == [id |-> id, job |-> stageToJobMapping[id.stage]]
  <2>1. m.id = id
    OBVIOUS
  <2>2. UNCHANGED stageRecords
        /\ \/ UNCHANGED <<taskRecords, taskMetricsBuffer>>
           \/ /\ m \in TaskMetrics
              /\ taskRecords' = taskRecords \cup {m}
              /\ Range(taskMetricsBuffer') \in
                   {Range(taskMetricsBuffer), Range(taskMetricsBuffer) \cup {m}}
    BY <1>1, TaskEndEffect DEF listenerVars, clientVars
  <2> HIDE DEF m
  <2>3. m \notin taskRecords
    BY <1>1, <2>1 DEF RecordsInv
  <2>4. QED
    BY <1>1, <2>1, <2>2, <2>3
<1>2. ASSUME NEW s \in Stages, NEW t \in Tasks, TaskEnd(s, t)
      PROVE  \E id \in TaskIds : \E hasMetrics \in HasMetrics :
               Deliver(onTaskEnd(id, hasMetrics)) /\ ~Over(id) /\ Over(id)'
  <2>1. PICK id \in TaskIds :
          /\ id = [stage |-> s, attempt |-> attempt[s], task |-> t]
          /\ stageState[s] = "running" /\ t \in running[s]
          /\ \E hasMetrics \in HasMetrics : Deliver(onTaskEnd(id, hasMetrics))
    BY <1>2, TaskEnds
  <2>2. ~Over(id) /\ id \notin zombies
    BY <2>1 DEF Over, SparkInv
  <2>3. UNCHANGED <<zombies, attempt>> /\ running' = [running EXCEPT ![s] = @ \ {t}]
    BY <1>2 DEF TaskEnd
  <2>4. Over(id)'
    BY <2>1, <2>2, <2>3 DEF Over, TypeOK
  <2>5. QED
    BY <2>1, <2>2, <2>4
<1>3. ASSUME NEW id \in zombies, LateTaskEnd(id)
      PROVE  id \in TaskIds /\ Deliver(onTaskEnd(id, TRUE)) /\ ~Over(id) /\ Over(id)'
  BY <1>3 DEF LateTaskEnd, Over, SparkInv, TypeOK
<1>4. ASSUME NEW s \in Stages, StageCompleted(s)
      PROVE  /\ UNCHANGED taskRecords
             /\ Range(taskMetricsBuffer') \in {Range(taskMetricsBuffer), {}}
  <2>1. Deliver(onStageCompleted(s))
    BY <1>4 DEF StageCompleted
  <2>2. /\ UNCHANGED taskRecords
        /\ taskMetricsBuffer' = <<>> \/ UNCHANGED taskMetricsBuffer
    BY <2>1, StageCompletedEffect DEF listenerVars
  <2>3. QED
    BY <2>2 DEF Range
<1>5. ASSUME NEW j \in Jobs, JobStart(j)
      PROVE  UNCHANGED <<taskRecords, taskMetricsBuffer>>
  BY <1>5, JobStartEffect DEF JobStart, clientVars
<1>6. \/ UNCHANGED <<taskRecords, taskMetricsBuffer>>
      \/ \E j \in Jobs : JobStart(j)
      \/ \E s \in Stages : StageCompleted(s)
      \/ \E s \in Stages, t \in Tasks : TaskEnd(s, t)
      \/ \E id \in zombies : LateTaskEnd(id)
  BY DEF Next, JobEnd, StageSubmitted, vars, listenerVars, clientVars
<1>7. QED
  BY <1>1, <1>2, <1>3, <1>4, <1>5, <1>6

\* Every step keeps the task records unique and those buffered among them.
LEMMA RecordsSteps ==
  ASSUME TypeOK, SparkInv, RecordsInv, [Next]_vars
  PROVE  RecordsInv'
<1>1. \A m \in taskRecords : m.id \in TaskIds
  BY DEF TypeOK, TaskMetrics
<1>2. \A m \in taskRecords : Over(m.id)'
  BY <1>1, OverStays DEF RecordsInv
<1>3. QED
  BY <1>2, RecordedTask DEF RecordsInv

\* What a step does to the stage records: the new one has what was in the buffer.
LEMMA AddedRecord ==
  ASSUME TypeOK, SparkInv, [Next]_vars
  PROVE  \/ UNCHANGED stageRecords
         \/ \E r \in StageMetrics :
              /\ stageRecords' = Append(stageRecords, r)
              /\ r.tasks = Range(taskMetricsBuffer)
              /\ Range(taskMetricsBuffer') \in {Range(taskMetricsBuffer), {}}
              /\ "throw" \notin faults => Range(taskMetricsBuffer') = {}
              /\ UNCHANGED taskRecords
<1>1. ASSUME NEW s \in Stages, Deliver(onStageCompleted(s)), stageRecords' # stageRecords
      PROVE  \E r \in StageMetrics :
               /\ stageRecords' = Append(stageRecords, r)
               /\ r.tasks = Range(taskMetricsBuffer)
               /\ Range(taskMetricsBuffer') \in {Range(taskMetricsBuffer), {}}
               /\ "throw" \notin faults => Range(taskMetricsBuffer') = {}
               /\ UNCHANGED taskRecords
  <2>1. /\ stageRecords' = Append(stageRecords, collectStageCustomMetrics(s))
        /\ collectStageCustomMetrics(s) \in StageMetrics
        /\ \/ taskMetricsBuffer' = <<>>
           \/ "throw" \in faults /\ UNCHANGED taskMetricsBuffer
        /\ UNCHANGED taskRecords
    BY <1>1, StageCompletedEffect DEF clientVars
  <2>2. collectStageCustomMetrics(s).tasks = Range(taskMetricsBuffer)
    BY DEF collectStageCustomMetrics
  <2>3. QED
    BY <2>1, <2>2 DEF Range
<1>2. QED
  BY <1>1, Callbacks, JobStartEffect, TaskEndEffect DEF clientVars

\* For disjointness it matters that a completed stage leaves an empty buffer; where an add
\* has thrown, that nothing but all of the buffer ever leaves it.
LEMMA AggregateSteps ==
  ASSUME ListenerInv, [Next]_vars
  PROVE  AggregatesAreReported' /\ AggregatedOnce' /\ LeftOver' /\ OverlapIsWhole'
<1>1. /\ TypeOK /\ SparkInv /\ RecordsInv /\ AggregatesAreReported /\ AggregatedOnce
      /\ LeftOver /\ OverlapIsWhole
      /\ stageRecords \in Seq(StageMetrics) /\ Len(stageRecords) \in Nat
  BY DEF ListenerInv, TypeOK
<1>2. faults' = faults
  BY DEF Next, JobStart, JobEnd, StageSubmitted, TaskEnd, LateTaskEnd, StageCompleted, vars,
         sparkVars
<1>3. CASE UNCHANGED stageRecords
  <2>1. AggregatesAreReported'
    BY <1>1, <1>3, RecordedTask DEF AggregatesAreReported, Aggregated
  <2>2. AggregatedOnce'
    BY <1>1, <1>2, <1>3, RecordedTask DEF AggregatesAreReported, AggregatedOnce, Aggregated
  <2>3. LeftOver'
    BY <1>1, <1>3, RecordedTask DEF AggregatesAreReported, LeftOver, Aggregated
  <2>4. OverlapIsWhole'
    BY <1>1, <1>3 DEF OverlapIsWhole, Aggregated
  <2>5. QED
    BY <2>1, <2>2, <2>3, <2>4
<1>4. ASSUME NEW r \in StageMetrics,
             stageRecords' = Append(stageRecords, r),
             r.tasks = Range(taskMetricsBuffer),
             Range(taskMetricsBuffer') \in {Range(taskMetricsBuffer), {}},
             "throw" \notin faults => Range(taskMetricsBuffer') = {},
             UNCHANGED taskRecords
      PROVE  AggregatesAreReported' /\ AggregatedOnce' /\ LeftOver' /\ OverlapIsWhole'
  <2>1. /\ Len(stageRecords') = Len(stageRecords) + 1
        /\ \A i \in 1..Len(stageRecords) : stageRecords'[i] = stageRecords[i]
        /\ stageRecords'[Len(stageRecords) + 1] = r
    BY <1>1, <1>4, RangeAppend
  <2>2. \A i \in 1..Len(stageRecords') :
          i \in 1..Len(stageRecords) \/ i = Len(stageRecords) + 1
    BY <1>1, <2>1
  <2>3. AggregatesAreReported'
    BY <1>1, <1>4, <2>1, <2>2 DEF AggregatesAreReported, Aggregated, RecordsInv
  <2>4. AggregatedOnce'
    BY <1>1, <1>2, <1>4, <2>1, <2>2 DEF AggregatedOnce, Aggregated
  <2>5. LeftOver'
    BY <1>1, <1>4, <2>1, <2>2 DEF LeftOver, Aggregated
  <2>6. ASSUME NEW i \in 1..Len(stageRecords'), NEW k \in 1..Len(stageRecords'), i < k
        PROVE  i \in 1..Len(stageRecords)
    BY <1>1, <2>1, <2>6
  <2>7. OverlapIsWhole'
    BY <1>1, <1>4, <2>1, <2>2, <2>6 DEF OverlapIsWhole, LeftOver, Aggregated
  <2>8. QED
    BY <2>3, <2>4, <2>5, <2>7
<1>5. QED
  BY <1>1, <1>3, <1>4, AddedRecord

\* At first there is no job, no record and no mapping.
LEMMA ListenerInit == Init => ListenerInv
<1> SUFFICES ASSUME Init
             PROVE  ListenerInv
  OBVIOUS
<1>1. /\ DOMAIN stageToJobMapping = {} /\ Range(stageToJobMapping) = {}
      /\ Len(stageRecords) = 0 /\ Range(taskMetricsBuffer) = {}
      /\ stageRecords \in Seq(StageMetrics) /\ taskMetricsBuffer \in Seq(TaskMetrics)
  BY DEF Init, Range
<1>2. TypeOK
  BY <1>1, ListenerAssumption DEF Init, TypeOK, ListenerAssumption
<1>3. SparkInv
  BY ListenerAssumption DEF Init, SparkInv, ListenerAssumption
<1>4. /\ MappingInv /\ TaskAttribution /\ RecordsInv /\ AggregatesAreReported
      /\ AggregatedOnce /\ LeftOver /\ OverlapIsWhole
  BY <1>1 DEF Init, MappingInv, TaskAttribution, RecordsInv, AggregatesAreReported,
              AggregatedOnce, LeftOver, OverlapIsWhole
<1>5. QED
  BY <1>2, <1>3, <1>4 DEF ListenerInv

\* Every step keeps the invariant of the listener.
LEMMA ListenerSteps == ListenerInv /\ [Next]_vars => ListenerInv'
  BY TypeSteps, SparkSteps, MappingSteps, RecordsSteps, AggregateSteps DEF ListenerInv

\* The inductive invariant holds in every behaviour.
LEMMA Invariant == Spec => []ListenerInv
  BY ListenerInit, ListenerSteps, PTL DEF Spec

-----------------------------------------------------------------------------
(* The theorems.                                                           *)

\* Every variable keeps its type; so an attempt that Spark may repeat is never beyond
\* MaxAttempts, and the mapping has only stages and jobs.
THEOREM TypeCorrect == Spec => []TypeOK
<1>1. ListenerInv => TypeOK
  BY DEF ListenerInv
<1>2. QED
  BY Invariant, <1>1, PTL

\* A task is never attributed to a job that does not list its stage or has not started.
THEOREM TasksOfTheirJobs == Spec => []TaskAttribution
<1>1. ListenerInv => TaskAttribution
  BY DEF ListenerInv
<1>2. QED
  BY Invariant, <1>1, PTL

\* No task is aggregated twice while add does not throw.
THEOREM NothingAggregatedTwice == Spec => []AggregatedOnce
<1>1. ListenerInv => AggregatedOnce
  BY DEF ListenerInv
<1>2. QED
  BY Invariant, <1>1, PTL

\* Whatever add throws, of two stage records that share a task the later one has all
\* tasks of the earlier one.
THEOREM OverlapsAreWhole == Spec => []OverlapIsWhole
<1>1. ListenerInv => OverlapIsWhole
  BY DEF ListenerInv
<1>2. QED
  BY Invariant, <1>1, PTL

-----------------------------------------------------------------------------
(* Stages that run once.                                                   *)

\* Nothing is left over of a stage that was neither repeated nor overtaken by its tasks.
OnceInv ==
  "retry" \notin faults /\ "late" \notin faults =>
    /\ zombies = {}
    /\ \A s \in Stages : stageState[s] = "waiting" => attempt[s] = 0

\* The faults of a behaviour are chosen at its start.
LEMMA FaultsStay ==
  ASSUME [Next]_vars
  PROVE  faults' = faults
  BY DEF Next, JobStart, JobEnd, StageSubmitted, TaskEnd, LateTaskEnd, StageCompleted, vars,
         sparkVars

\* Without retries and late tasks no stage has a second attempt.
LEMMA OnceSteps ==
  ASSUME TypeOK, OnceInv, [Next]_vars
  PROVE  OnceInv'
<1> SUFFICES ASSUME "retry" \notin faults, "late" \notin faults
             PROVE  /\ zombies' = {}
                    /\ \A s \in Stages : stageState'[s] = "waiting" => attempt'[s] = 0
  BY FaultsStay DEF OnceInv
<1>1. zombies = {} /\ \A s \in Stages : stageState[s] = "waiting" => attempt[s] = 0
  BY DEF OnceInv
<1>2. ASSUME NEW s \in Stages, StageSubmitted(s)
      PROVE  /\ zombies' = {}
             /\ \A r \in Stages : stageState'[r] = "waiting" => attempt'[r] = 0
  BY <1>1, <1>2 DEF StageSubmitted, TypeOK
<1>3. ASSUME NEW s \in Stages, StageCompleted(s)
      PROVE  /\ zombies' = {}
             /\ \A r \in Stages : stageState'[r] = "waiting" => attempt'[r] = 0
  <2>1. /\ running[s] = {} /\ UNCHANGED attempt
        /\ stageState' = [stageState EXCEPT ![s] = "done"]
        /\ zombies' = zombies \cup
             {[stage |-> s, attempt |-> attempt[s], task |-> t] : t \in running[s]}
    BY <1>3 DEF StageCompleted
  <2>2. QED
    BY <1>1, <2>1 DEF TypeOK
<1>4. \/ UNCHANGED <<zombies, stageState, attempt>>
      \/ \E s \in Stages : StageSubmitted(s) \/ StageCompleted(s)
  BY <1>1 DEF Next, JobStart, JobEnd, TaskEnd, LateTaskEnd, vars, sparkVars
<1>5. QED
  BY <1>1, <1>2, <1>3, <1>4

\* The stage that an event completes is done once its tasks have ended.
LEMMA CompletedOnce ==
  ASSUME TypeOK, NEW s \in Stages, StageCompleted(s), "retry" \notin faults, "late" \notin faults
  PROVE  /\ stageState[s] = "running" /\ running[s] = {}
         /\ stageState' = [stageState EXCEPT ![s] = "done"]
         /\ UNCHANGED <<jobState, attempt>> /\ running' = running
         /\ Deliver(onStageCompleted(s))
  BY DEF StageCompleted, TypeOK

-----------------------------------------------------------------------------
(* Stages that run one at a time.                                          *)

\* The buffer holds all that was recorded of the stage that runs, and nothing else; the
\* record of a stage that is done holds all of that stage.
SequentialInv ==
  faults \subseteq {"noMetrics"} =>
    /\ \A s, t \in Stages : stageState[s] = "running" /\ stageState[t] = "running" => s = t
    /\ \A m \in taskRecords :
         /\ stageState[m.id.stage] # "waiting"
         /\ stageState[m.id.stage] = "running" => m \in Range(taskMetricsBuffer)
    /\ \A m \in Range(taskMetricsBuffer) : stageState[m.id.stage] = "running"
    /\ \A i \in 1..Len(stageRecords) : stageState[stageRecords[i].completed] = "done"
    /\ StageAggregatesOwnTasks

\* Every step keeps the one running stage's tasks alone in the buffer.
LEMMA SequentialSteps ==
  ASSUME ListenerInv, OnceInv, SequentialInv, [Next]_vars
  PROVE  SequentialInv'
<1> SUFFICES ASSUME faults \subseteq {"noMetrics"}
             PROVE  SequentialInv'
  BY FaultsStay DEF SequentialInv
<1>1. /\ "retry" \notin faults /\ "late" \notin faults /\ "concurrent" \notin faults
      /\ "drop" \notin faults /\ "throw" \notin faults /\ zombies = {}
  BY DEF OnceInv
<1>2. /\ TypeOK /\ SparkInv /\ RecordsInv /\ Range(taskMetricsBuffer) \subseteq taskRecords
      /\ Len(stageRecords) \in Nat /\ stageRecords \in Seq(StageMetrics)
      /\ taskMetricsBuffer \in Seq(TaskMetrics)
      /\ \A m \in taskRecords : m \in TaskMetrics /\ m.id.stage \in Stages
      /\ \A i \in 1..Len(stageRecords) : stageRecords[i].completed \in Stages
  <2>1. /\ TypeOK /\ SparkInv /\ RecordsInv /\ Range(taskMetricsBuffer) \subseteq taskRecords
        /\ stageRecords \in Seq(StageMetrics) /\ taskMetricsBuffer \in Seq(TaskMetrics)
        /\ taskRecords \subseteq TaskMetrics
    BY DEF ListenerInv, TypeOK, RecordsInv
  <2>2. \A m \in TaskMetrics : m.id.stage \in Stages
    BY DEF TaskMetrics, TaskIds
  <2>3. Len(stageRecords) \in Nat /\ \A i \in 1..Len(stageRecords) : stageRecords[i] \in StageMetrics
    BY <2>1
  <2>4. \A r \in StageMetrics : r.completed \in Stages
    BY DEF StageMetrics
  <2>5. QED
    BY <2>1, <2>2, <2>3, <2>4
<1>3. /\ \A s, t \in Stages : stageState[s] = "running" /\ stageState[t] = "running" => s = t
      /\ \A m \in taskRecords :
           /\ stageState[m.id.stage] # "waiting"
           /\ stageState[m.id.stage] = "running" => m \in Range(taskMetricsBuffer)
      /\ \A m \in Range(taskMetricsBuffer) : stageState[m.id.stage] = "running"
      /\ \A i \in 1..Len(stageRecords) : stageState[stageRecords[i].completed] = "done"
      /\ StageAggregatesOwnTasks
  BY DEF SequentialInv
<1>4. CASE UNCHANGED <<stageState, taskRecords, taskMetricsBuffer, stageRecords>>
  BY <1>3, <1>4 DEF SequentialInv, StageAggregatesOwnTasks, ExactRecord
<1>5. ASSUME NEW s \in Stages, StageSubmitted(s)
      PROVE  SequentialInv'
  <2>1. /\ \A t \in Stages : stageState[t] # "running"
        /\ stageState[s] = "waiting"
        /\ stageState' = [stageState EXCEPT ![s] = "running"]
        /\ UNCHANGED <<taskRecords, taskMetricsBuffer, stageRecords>>
    BY <1>1, <1>5 DEF StageSubmitted, listenerVars, clientVars
  <2>2. \A m \in taskRecords : m.id.stage # s
    BY <1>3, <2>1
  <2>3. \A t \in Stages : t # s => stageState'[t] = stageState[t]
    BY <2>1 DEF ListenerInv, TypeOK
  <2>4. \A i \in 1..Len(stageRecords) : stageRecords[i].completed # s
    BY <1>3, <2>1
  <2>5. StageAggregatesOwnTasks'
    BY <1>3, <2>1 DEF StageAggregatesOwnTasks, ExactRecord
  <2>6. QED
    BY <1>2, <1>3, <2>1, <2>2, <2>3, <2>4, <2>5 DEF SequentialInv
<1>6. ASSUME NEW s \in Stages, NEW t \in Tasks, TaskEnd(s, t)
      PROVE  SequentialInv'
  <2>1. PICK id \in TaskIds :
          /\ id.stage = s /\ stageState[s] = "running"
          /\ \E hasMetrics \in HasMetrics : Deliver(onTaskEnd(id, hasMetrics))
    BY <1>2, <1>6, TaskEnds
  <2>2. UNCHANGED stageState
    BY <1>6 DEF TaskEnd
  <2>3. PICK hasMetrics \in HasMetrics : onTaskEnd(id, hasMetrics)
    BY <1>1, <2>1 DEF Deliver, MayDrop, onTaskEnd
  <2>4. CASE id.stage \in DOMAIN stageToJobMapping /\ hasMetrics
    <3> DEFINE metrics == [id |-> id, job |-> stageToJobMapping[id.stage]]
    <3>1. /\ taskRecords' = taskRecords \cup {metrics}
          /\ taskMetricsBuffer' = Append(taskMetricsBuffer, metrics)
          /\ UNCHANGED stageRecords
      BY <1>1, <2>3, <2>4 DEF onTaskEnd, MayThrow
    <3>2. metrics.id.stage = s
      BY <2>1
    <3>3. metrics \in TaskMetrics
      BY <1>2, <2>4 DEF TypeOK, Range, TaskMetrics
    <3> HIDE DEF metrics
    <3>4. Range(taskMetricsBuffer') = Range(taskMetricsBuffer) \cup {metrics}
      BY <1>2, <3>1, <3>3, RangeAppend
    <3>5. \A i \in 1..Len(stageRecords) : stageRecords[i].completed # s
      BY <1>3, <2>1
    <3>6. StageAggregatesOwnTasks'
      BY <1>3, <3>1, <3>2, <3>5 DEF StageAggregatesOwnTasks, ExactRecord
    <3>7. QED
      BY <1>3, <2>1, <2>2, <3>1, <3>2, <3>4, <3>6 DEF SequentialInv
  <2>5. CASE ~(id.stage \in DOMAIN stageToJobMapping /\ hasMetrics)
    BY <1>4, <2>2, <2>3, <2>5 DEF onTaskEnd, listenerVars, clientVars
  <2>6. QED
    BY <2>4, <2>5
<1>7. ASSUME NEW s \in Stages, StageCompleted(s)
      PROVE  SequentialInv'
  <2>1. /\ stageState[s] = "running" /\ stageState' = [stageState EXCEPT ![s] = "done"]
        /\ Deliver(onStageCompleted(s))
    BY <1>1, <1>2, <1>7, CompletedOnce
  <2>2. /\ onStageCompleted(s)
        /\ \A t \in Stages : stageState'[t] # "running"
        /\ \A t \in Stages : stageState'[t] = "waiting" => stageState[t] = "waiting"
        /\ \A t \in Stages : stageState[t] = "done" \/ t = s => stageState'[t] = "done"
    BY <1>1, <1>2, <1>3, <2>1 DEF Deliver, MayDrop, TypeOK
  <2>3. UNCHANGED taskRecords
    BY <1>2, <2>1, StageCompletedEffect
  <2>4. \A m \in taskRecords : m.id.stage = s <=> m \in Range(taskMetricsBuffer)
    BY <1>2, <1>3, <2>1
  <2>5. CASE taskMetricsBuffer = <<>>
    <3>1. UNCHANGED <<listenerVars, clientVars>>
      BY <2>2, <2>5 DEF onStageCompleted
    <3>2. Range(taskMetricsBuffer) = {} /\ UNCHANGED <<taskMetricsBuffer, stageRecords>>
      BY <2>5, <3>1 DEF Range, listenerVars, clientVars
    <3>3. \A m \in taskRecords : stageState'[m.id.stage] \notin {"waiting", "running"}
      BY <1>2, <1>3, <2>2
    <3>4. \A i \in 1..Len(stageRecords) : stageState'[stageRecords[i].completed] = "done"
      BY <1>2, <1>3, <2>2
    <3>5. StageAggregatesOwnTasks'
      BY <1>3, <2>3, <3>2 DEF StageAggregatesOwnTasks, ExactRecord
    <3>6. QED
      BY <2>2, <2>3, <3>2, <3>3, <3>4, <3>5 DEF SequentialInv
  <2>6. CASE taskMetricsBuffer # <<>>
    <3> DEFINE r == collectStageCustomMetrics(s)
    <3>1. stageRecords' = Append(stageRecords, r) /\ taskMetricsBuffer' = <<>>
      BY <1>1, <2>2, <2>6 DEF onStageCompleted, MayThrow
    <3>2. Head(taskMetricsBuffer) \in Range(taskMetricsBuffer)
      BY <1>2, <2>6, RangeOfSeq
    <3>3. Head(taskMetricsBuffer).id.stage = s
      BY <1>2, <2>4, <3>2
    <3>4. r.completed = s /\ r.stage = s /\ r.tasks = Range(taskMetricsBuffer)
      BY <3>3 DEF collectStageCustomMetrics
    <3>5. r \in StageMetrics
      BY <1>2, <2>1, <2>6, StageCompletedEffect, <3>1
    <3> HIDE DEF r
    <3>6. /\ Len(stageRecords') = Len(stageRecords) + 1
          /\ \A i \in 1..Len(stageRecords) : stageRecords'[i] = stageRecords[i]
          /\ stageRecords'[Len(stageRecords) + 1] = r
      BY <1>2, <3>1, <3>5, RangeAppend
    <3>7. \A i \in 1..Len(stageRecords') :
            i \in 1..Len(stageRecords) \/ i = Len(stageRecords) + 1
      BY <1>2, <3>6
    <3>8. r.tasks = {m \in taskRecords : m.id.stage = s}
      BY <1>2, <2>4, <3>4
    <3>9. StageAggregatesOwnTasks'
      BY <1>3, <2>3, <3>4, <3>6, <3>7, <3>8 DEF StageAggregatesOwnTasks, ExactRecord
    <3>10. Range(taskMetricsBuffer') = {}
      BY <3>1 DEF Range
    <3>11. QED
      <4>1. \A m \in taskRecords : stageState'[m.id.stage] \notin {"waiting", "running"}
        BY <1>2, <1>3, <2>2
      <4>2. \A i \in 1..Len(stageRecords') : stageState'[stageRecords'[i].completed] = "done"
        BY <1>2, <1>3, <2>2, <3>4, <3>6, <3>7
      <4>3. QED
        BY <2>2, <2>3, <3>9, <3>10, <4>1, <4>2 DEF SequentialInv
  <2>7. QED
    BY <2>5, <2>6
<1>8. \/ UNCHANGED <<stageState, taskRecords, taskMetricsBuffer, stageRecords>>
      \/ \E s \in Stages : StageSubmitted(s) \/ StageCompleted(s)
      \/ \E s \in Stages, t \in Tasks : TaskEnd(s, t)
  <2>1. ASSUME NEW j \in Jobs, JobStart(j)
        PROVE  UNCHANGED <<stageState, taskRecords, taskMetricsBuffer, stageRecords>>
    BY <1>2, <2>1, JobStartEffect DEF JobStart, clientVars
  <2>2. QED
    BY <1>1, <2>1 DEF Next, JobEnd, vars, sparkVars, listenerVars, clientVars
<1>9. QED
  BY <1>4, <1>5, <1>6, <1>7, <1>8

-----------------------------------------------------------------------------
(* Stages that run side by side, once.                                     *)

\* A stage of a started job is mapped until it is done, so that its tasks are reported.
FirstAttemptsInv ==
  faults \subseteq {"concurrent"} =>
    /\ \A s \in Stages :
         stageState[s] # "done" /\ (\E j \in Jobs : jobState[j] # "new" /\ s \in StagesOf[j])
           => s \in DOMAIN stageToJobMapping
    /\ \A s \in Stages :
         stageState[s] = "running" => \E j \in Jobs : jobState[j] # "new" /\ s \in StagesOf[j]
    /\ EveryTaskReported

\* Every step keeps the mapping of the stages that are yet to complete.
LEMMA FirstAttemptsSteps ==
  ASSUME ListenerInv, OnceInv, FirstAttemptsInv, [Next]_vars
  PROVE  FirstAttemptsInv'
<1> SUFFICES ASSUME faults \subseteq {"concurrent"}
             PROVE  FirstAttemptsInv'
  BY FaultsStay DEF FirstAttemptsInv
<1> DEFINE Started(s) == \E j \in Jobs : jobState[j] # "new" /\ s \in StagesOf[j]
<1>1. /\ "retry" \notin faults /\ "late" \notin faults /\ "drop" \notin faults
      /\ "noMetrics" \notin faults /\ zombies = {}
      /\ \A s \in Stages : stageState[s] = "waiting" => attempt[s] = 0
  BY DEF OnceInv
<1>2. TypeOK /\ SparkInv
  BY DEF ListenerInv
<1>3. /\ \A s \in Stages : stageState[s] # "done" /\ Started(s) => s \in DOMAIN stageToJobMapping
      /\ \A s \in Stages : stageState[s] = "running" => Started(s)
      /\ EveryTaskReported
  BY DEF FirstAttemptsInv
<1>4. \A s \in Stages : Started(s) => Started(s)'
  BY <1>2, JobsStayStarted
<1>5. ASSUME NEW j \in Jobs, JobStart(j)
      PROVE  FirstAttemptsInv'
  <2>1. /\ jobState' = [jobState EXCEPT ![j] = "running"] /\ Deliver(onJobStart(j))
        /\ UNCHANGED <<stageState, attempt, running, zombies>>
    BY <1>5 DEF JobStart
  <2>2. /\ UNCHANGED taskRecords
        /\ DOMAIN stageToJobMapping \subseteq DOMAIN stageToJobMapping'
        /\ StagesOf[j] \subseteq DOMAIN stageToJobMapping'
    BY <1>1, <1>2, <2>1, JobStartEffect DEF clientVars
  <2>3. \A s \in Stages : Started(s)' => Started(s) \/ s \in StagesOf[j]
    BY <1>2, <2>1 DEF TypeOK
  <2>4. EveryTaskReported'
    BY <1>3, <2>1, <2>2 DEF EveryTaskReported, Ended
  <2>5. QED
    BY <1>3, <1>4, <2>1, <2>2, <2>3, <2>4 DEF FirstAttemptsInv
<1>6. ASSUME NEW j \in Jobs, JobEnd(j)
      PROVE  FirstAttemptsInv'
  <2>1. /\ jobState[j] = "running" /\ jobState' = [jobState EXCEPT ![j] = "ended"]
        /\ UNCHANGED <<stageState, attempt, running, zombies, stageToJobMapping, taskRecords>>
    BY <1>6 DEF JobEnd, listenerVars, clientVars
  <2>2. \A s \in Stages : Started(s)' => Started(s)
    BY <1>2, <2>1 DEF TypeOK
  <2>3. EveryTaskReported'
    BY <1>3, <2>1 DEF EveryTaskReported, Ended
  <2>4. QED
    BY <1>3, <1>4, <2>1, <2>2, <2>3 DEF FirstAttemptsInv
<1>7. ASSUME NEW s \in Stages, StageSubmitted(s)
      PROVE  FirstAttemptsInv'
  <2>1. /\ stageState[s] = "waiting" /\ Started(s)
        /\ stageState' = [stageState EXCEPT ![s] = "running"]
        /\ attempt' = [attempt EXCEPT ![s] = @ + 1]
        /\ running' = [running EXCEPT ![s] = StageTasks[s]]
        /\ UNCHANGED <<jobState, zombies, stageToJobMapping, taskRecords>>
    BY <1>7 DEF StageSubmitted, listenerVars, clientVars
  <2>2. Ended(s)' = {}
    BY <1>2, <2>1 DEF Ended, TypeOK
  <2>3. \A r \in Stages : r # s => Ended(r)' = Ended(r) /\ attempt'[r] = attempt[r]
    BY <1>2, <2>1 DEF Ended, TypeOK
  <2>4. EveryTaskReported'
    BY <1>3, <2>1, <2>2, <2>3 DEF EveryTaskReported
  <2>5. QED
    BY <1>2, <1>3, <2>1, <2>4 DEF FirstAttemptsInv, TypeOK
<1>8. ASSUME NEW s \in Stages, NEW t \in Tasks, TaskEnd(s, t)
      PROVE  FirstAttemptsInv'
  <2>1. PICK id \in TaskIds :
          /\ id = [stage |-> s, attempt |-> attempt[s], task |-> t]
          /\ stageState[s] = "running" /\ t \in running[s]
          /\ \E hasMetrics \in HasMetrics : Deliver(onTaskEnd(id, hasMetrics))
    BY <1>2, <1>8, TaskEnds
  <2>2. /\ UNCHANGED <<jobState, stageState, attempt, zombies>>
        /\ running' = [running EXCEPT ![s] = @ \ {t}]
    BY <1>8 DEF TaskEnd
  <2>3. s \in DOMAIN stageToJobMapping /\ onTaskEnd(id, TRUE)
    BY <1>1, <1>3, <2>1 DEF Deliver, MayDrop, HasMetrics
  <2>4. /\ UNCHANGED stageToJobMapping
        /\ taskRecords' = taskRecords \cup {[id |-> id, job |-> stageToJobMapping[id.stage]]}
    BY <2>1, <2>3 DEF onTaskEnd
  <2>5. \E m \in taskRecords' : m.id = id
    <3>1. [id |-> id, job |-> stageToJobMapping[id.stage]].id = id
      OBVIOUS
    <3>2. [id |-> id, job |-> stageToJobMapping[id.stage]] \in taskRecords'
      BY <2>4
    <3>3. QED
      BY <3>1, <3>2
  <2>6. \A r \in Stages : \A u \in Ended(r)' : u \in Ended(r) \/ (r = s /\ u = t)
    BY <1>2, <2>2 DEF Ended, TypeOK
  <2>7. EveryTaskReported'
    BY <1>3, <2>1, <2>2, <2>4, <2>5, <2>6 DEF EveryTaskReported
  <2>8. QED
    BY <1>3, <2>2, <2>4, <2>7 DEF FirstAttemptsInv
<1>9. ASSUME NEW s \in Stages, StageCompleted(s)
      PROVE  FirstAttemptsInv'
  <2>1. /\ stageState' = [stageState EXCEPT ![s] = "done"] /\ running[s] = {}
        /\ UNCHANGED <<jobState, attempt>> /\ running' = running
        /\ Deliver(onStageCompleted(s))
    BY <1>1, <1>2, <1>9, CompletedOnce
  <2>2. /\ UNCHANGED taskRecords
        /\ DOMAIN stageToJobMapping \subseteq DOMAIN stageToJobMapping' \cup {s}
    BY <1>2, <2>1, StageCompletedEffect
  <2>3. zombies' = {}
    BY <1>1, <2>1, <1>9 DEF StageCompleted
  <2>4. EveryTaskReported'
    BY <1>1, <1>3, <2>1, <2>2, <2>3 DEF EveryTaskReported, Ended
  <2>5. QED
    BY <1>2, <1>3, <2>1, <2>2, <2>4 DEF FirstAttemptsInv, TypeOK
<1>10. CASE UNCHANGED vars
  BY <1>3, <1>10 DEF vars, sparkVars, listenerVars, clientVars, FirstAttemptsInv,
                     EveryTaskReported, Ended
<1>11. QED
  BY <1>1, <1>5, <1>6, <1>7, <1>8, <1>9, <1>10 DEF Next

\* At first nothing is recorded, buffered or aggregated.
LEMMA StrongerInit == Init => OnceInv /\ SequentialInv /\ FirstAttemptsInv
<1> SUFFICES ASSUME Init
             PROVE  OnceInv /\ SequentialInv /\ FirstAttemptsInv
  OBVIOUS
<1>1. Range(taskMetricsBuffer) = {} /\ Len(stageRecords) = 0
  BY DEF Init, Range
<1>2. OnceInv /\ SequentialInv
  BY <1>1 DEF Init, OnceInv, SequentialInv, StageAggregatesOwnTasks
<1>3. FirstAttemptsInv
  BY DEF Init, FirstAttemptsInv, EveryTaskReported, Ended
<1>4. QED
  BY <1>2, <1>3

\* The three stronger invariants hold together.
LEMMA OnceInvariant == Spec => [](ListenerInv /\ OnceInv /\ SequentialInv /\ FirstAttemptsInv)
<1>1. ListenerInv /\ OnceInv /\ SequentialInv /\ FirstAttemptsInv /\ [Next]_vars
        => ListenerInv' /\ OnceInv' /\ SequentialInv' /\ FirstAttemptsInv'
  <2>1. ListenerInv => TypeOK
    BY DEF ListenerInv
  <2>2. QED
    BY <2>1, ListenerSteps, OnceSteps, SequentialSteps, FirstAttemptsSteps
<1>2. QED
  BY <1>1, ListenerInit, StrongerInit, PTL DEF Spec

\* What the comment on collectStageCustomMetrics promises holds of stages that run one
\* at a time: each record has all tasks of its stage and no others.
THEOREM SequentialStages == Spec => []SequentialStagesAreSeparate
<1>1. SequentialInv => SequentialStagesAreSeparate
  BY DEF SequentialInv, SequentialStagesAreSeparate
<1>2. QED
  BY OnceInvariant, <1>1, PTL

\* What the comment on onTaskEnd promises holds of stages that run once, side by side:
\* every task that has ended is reported.
THEOREM FirstAttempts == Spec => []FirstAttemptsAreReported
<1>1. FirstAttemptsInv => FirstAttemptsAreReported
  BY DEF FirstAttemptsInv, FirstAttemptsAreReported
<1>2. QED
  BY OnceInvariant, <1>1, PTL
=============================================================================
