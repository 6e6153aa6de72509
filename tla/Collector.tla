----------------------------- MODULE Collector -----------------------------
(***************************************************************************)
(* The driver's metrics collection as a whole: Spark's listener bus, the   *)
(* listener (MetricsListener) and its client (ObservabilityClient), from   *)
(* the start of the application to its end.                                *)
(*                                                                         *)
(* The bus runs one callback at a time, and a callback that adds or        *)
(* flushes lasts as long as the client's HTTP call.  A callback begins     *)
(* with what it asks of the client; it finishes once the client has        *)
(* returned or thrown, with the listener's part of it.  Whether add throws,*)
(* open in MetricsListener, is here what the client does.                  *)
(*                                                                         *)
(* While the bus runs SparkEnv knows all context fields: it is complete    *)
(* before the first event and goes away after the last.                    *)
(***************************************************************************)
EXTENDS ObservabilityClient

CONSTANTS Jobs, Stages, Tasks, StagesOf, StageTasks, MaxAttempts, FaultSets

\* Every event arrives, and has its metrics, before its stage ends.  Metrics are names and
\* numbers, so that the conversion to JSON never throws.
ASSUME CollectorAssumption ==
  /\ StagesOf \in [Jobs -> SUBSET Stages]
  /\ StageTasks \in [Stages -> SUBSET Tasks]
  /\ MaxAttempts \in Nat \ {0}
  /\ FaultSets \subseteq SUBSET {"concurrent", "retry", "throw"}
  /\ Malformed = {}

VARIABLES
  \* MetricsListener
  faults, jobState, stageState, attempt, running, zombies,
  stageToJobMapping, taskMetricsBuffer, taskRecords, stageRecords,
  \* the bus
  app,              \* the application: "new", "running" or "ended"
  callback,         \* the callback in progress, Idle if there is none
  \* history
  appStart,         \* when the application started
  addThrew,         \* an add has thrown since a stage last left the task buffer empty
  failedIn          \* the callback whose flush has failed last

Listener == INSTANCE MetricsListener

listenerVars == <<faults, jobState, stageState, attempt, running, zombies,
                  stageToJobMapping, taskMetricsBuffer, taskRecords, stageRecords>>
historyVars == <<appStart, addThrew, failedIn>>
busVars == <<app, callback, historyVars>>
allVars == <<vars, listenerVars, busVars>>

Idle == [event |-> "none"]
TaskEnded(s, t) == [event |-> "taskEnd", stage |-> s, task |-> t]
StageEnded(s) == [event |-> "stageCompleted", stage |-> s]
JobEnded(j) == [event |-> "jobEnd", job |-> j]
ApplicationEnded == [event |-> "applicationEnd"]

Callbacks ==
  {Idle, ApplicationEnded} \cup {TaskEnded(s, t) : s \in Stages, t \in Tasks}
    \cup {StageEnded(s) : s \in Stages} \cup {JobEnded(j) : j \in Jobs}

\* The variables of the client, of the listener and of the bus.
BusTypeOK ==
  /\ TypeOK
  /\ Listener!TypeOK
  /\ app \in {"new", "running", "ended"}
  /\ callback \in Callbacks
  /\ appStart \in 0..MaxTime
  /\ addThrew \in BOOLEAN
  /\ failedIn \in Callbacks

CollectorInit ==
  /\ buffer = <<>> /\ lastFlush = InitialDelay
  /\ isBackingOff = FALSE /\ backOff = InitialBackoff /\ retries = MaxRetries
  /\ context = {} /\ sparkEnv = ContextFields
  /\ credentials = "unresolved" /\ leased = 0
  /\ call = "none" /\ content = <<>> /\ raised = "none"
  /\ now = 0 /\ added = 0 /\ stored = {}
  /\ Listener!Init
  /\ app = "new" /\ callback = Idle
  /\ appStart = 0 /\ addThrew = FALSE /\ failedIn = Idle

-----------------------------------------------------------------------------
(* The callbacks.                                                          *)

BusIsFree == app = "running" /\ callback = Idle

Begin(event) == callback' = event /\ UNCHANGED <<listenerVars, app, historyVars>>

\* Mutant: the time of the last flush stays that of the client's creation.
onApplicationStart_NoReset ==
  /\ app = "new"
  /\ app' = "running"
  /\ appStart' = now
  /\ UNCHANGED <<vars, listenerVars, callback, addThrew, failedIn>>

onApplicationStart ==
  /\ app = "new"
  /\ SetLastFlush
  /\ app' = "running"
  /\ appStart' = now
  /\ UNCHANGED <<listenerVars, callback, addThrew, failedIn>>

\* Events that do not concern the client.
JobStart(j) == BusIsFree /\ Listener!JobStart(j) /\ UNCHANGED <<vars, busVars>>
StageSubmitted(s) ==
  BusIsFree /\ Listener!StageSubmitted(s) /\ UNCHANGED <<vars, busVars>>

\* A task of an unmapped stage is not added.
BeginTaskEnd(s, t) ==
  /\ BusIsFree
  /\ t \in running[s]
  /\ IF s \in DOMAIN stageToJobMapping THEN Add ELSE UNCHANGED vars
  /\ Begin(TaskEnded(s, t))

\* An empty task buffer has no aggregate.
BeginStageCompleted(s) ==
  /\ BusIsFree
  /\ stageState[s] = "running" /\ running[s] = {}
  /\ IF taskMetricsBuffer # <<>> THEN Add ELSE UNCHANGED vars
  /\ Begin(StageEnded(s))

BeginJobEnd(j) ==
  /\ BusIsFree
  /\ jobState[j] = "running"
  /\ \A s \in StagesOf[j] : stageState[s] = "done"
  /\ FlushEvents
  /\ Begin(JobEnded(j))

\* Mutant: the application ends without a last flush.
onApplicationEnd_NoFlush ==
  /\ BusIsFree
  /\ \A j \in Jobs : jobState[j] = "ended"
  /\ Begin(ApplicationEnded)
  /\ UNCHANGED vars

onApplicationEnd ==
  /\ BusIsFree
  /\ \A j \in Jobs : jobState[j] = "ended"
  /\ FlushEvents
  /\ Begin(ApplicationEnded)

-----------------------------------------------------------------------------
(* The rest of a callback, after the client.                               *)

Return ==
  /\ call = "none"
  /\ callback' = Idle
  /\ UNCHANGED <<vars, appStart, failedIn>>

\* Mutant: a callback takes a batch that is kept for a retry for a failed add.
FinishAdd_OnlyIfSent(adds) ==
  /\ Return
  /\ (taskMetricsBuffer' # taskMetricsBuffer)
       <=> (adds /\ raised = "none" /\ ~isBackingOff)
  /\ UNCHANGED app

\* The listener's part, cut short if add has thrown: its task buffer changes (a
\* task enters it, or a stage empties it) exactly if an add has returned.
FinishAdd(adds) ==
  /\ Return
  /\ (taskMetricsBuffer' # taskMetricsBuffer) <=> (adds /\ raised = "none")
  /\ UNCHANGED app

FinishTaskEnd(s, t) ==
  /\ callback = TaskEnded(s, t)
  /\ Listener!TaskEnd(s, t)
  /\ FinishAdd(s \in DOMAIN stageToJobMapping)
  /\ addThrew' = (addThrew \/ (s \in DOMAIN stageToJobMapping /\ raised # "none"))

FinishStageCompleted(s) ==
  /\ callback = StageEnded(s)
  /\ Listener!StageCompleted(s)
  /\ FinishAdd(taskMetricsBuffer # <<>>)
  /\ addThrew' = (taskMetricsBuffer' # <<>>)

FinishJobEnd(j) ==
  /\ callback = JobEnded(j)
  /\ Return
  /\ Listener!JobEnd(j)
  /\ UNCHANGED <<app, addThrew>>

FinishApplicationEnd ==
  /\ callback = ApplicationEnded
  /\ Return
  /\ app' = "ended"
  /\ UNCHANGED <<listenerVars, addThrew>>

-----------------------------------------------------------------------------
\* The bus thread, between and in callbacks.
Bus ==
  \/ onApplicationStart \/ onApplicationEnd \/ FinishApplicationEnd
  \/ \E j \in Jobs : JobStart(j) \/ BeginJobEnd(j) \/ FinishJobEnd(j)
  \/ \E s \in Stages :
       StageSubmitted(s) \/ BeginStageCompleted(s) \/ FinishStageCompleted(s)
  \/ \E s \in Stages, t \in Tasks : BeginTaskEnd(s, t) \/ FinishTaskEnd(s, t)

\* The end of the client's call: a buffer that is not empty then has failed.
CallEnds ==
  /\ Outcome
  /\ failedIn' = IF buffer' = <<>> THEN failedIn ELSE callback
  /\ UNCHANGED <<listenerVars, app, callback, appStart, addThrew>>

\* The pipeline, the clock and the credentials.
Surroundings ==
  /\ PipelineStores \/ Tick \/ ExpireCredentials
  /\ UNCHANGED <<listenerVars, busVars>>

CollectorNext == Bus \/ CallEnds \/ Surroundings

\* Spark runs the application to its end, and an HTTP call ends (the HTTP client
\* times out).  Nothing is assumed of the pipeline.
CollectorSpec ==
  /\ CollectorInit /\ [][CollectorNext]_allVars
  /\ WF_allVars(Bus)
  /\ WF_allVars(CallEnds)

-----------------------------------------------------------------------------
(* Properties.                                                             *)

\* The application ends with every record in the pipeline unless the flush of its
\* very end fails: earlier failures, exhausted retries and a retry cycle that is
\* still waiting do not keep records back.
EndDelivers ==
  app = "ended" =>
    \/ 1..added \subseteq stored /\ buffer = <<>>
    \/ failedIn = ApplicationEnded

\* An exception of add tells on the records of stages until a stage has emptied the
\* task buffer, and no longer: from then on, and whatever lost answers, failed flushes
\* and retries the client copes with, the record of a stage has all tasks of that
\* stage and no others, where stages run one at a time and once.
StagesRecover ==
  [][faults \subseteq {"throw"} /\ ~addThrew /\ stageRecords' # stageRecords =>
       Listener!ExactRecord(stageRecords'[Len(stageRecords')])]_allVars

\* The comment on onApplicationStart: the first metric is not sent alone because
\* Spark took longer than BatchTime to start.  A task or stage end sends less than
\* a batch only BatchTime after the start, however late the start was.
FirstMetricNotAlone ==
  [][callback = Idle /\ callback'.event \in {"taskEnd", "stageCompleted"}
       /\ call' = "sent" /\ Len(content') < BatchSize =>
         now - appStart >= BatchTime]_allVars

\* Neither a pipeline that is away for good nor what the client throws keeps the
\* listener bus from the end of the application.
ApplicationEnds == <>(app = "ended")
=============================================================================
