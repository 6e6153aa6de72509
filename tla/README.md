# TLA+ models of the Spark observability guidance

This directory holds a verification project for the code of this repository: TLA+
modules translated from the Scala collector and from the Python handlers of the
backend, the TLC configurations that check them, and proofs that the TLA+ proof
system checks. Paths below are relative to `src/`; the collector's classes are in
`source/collector/src/main/scala/com/amazonaws/sparkobservability/`, the backend
in `deployment/infra/`.

## The system

A jar on the class path of a Spark application collects two kinds of records. Log
events go through a log4j appender, one per JVM (driver and executors); metrics
come from a listener on the driver's listener bus. Each owns an
`ObservabilityClient`, which batches records and posts them to an OpenSearch
Ingestion pipeline. The pipelines write to an OpenSearch domain that a CDK
application deploys and a custom resource prepares.

```
 log4j ──▶ CollectorAppender ──▶ ObservabilityClient ──HTTP──▶ logs pipeline ────┐
                                                                                 ├─▶ OpenSearch
 Spark ──▶ CustomMetricsListener ─▶ ObservabilityClient ─HTTP─▶ metrics pipeline ┘   domain
 listener bus   (stage aggregation)                                                   ▲ ▲
                                    CloudFormation ──▶ bootstrap.py (users, templates)┘ │
                                    Secrets Manager ──▶ rotate.py (password rotation) ──┘
```

| Component | State it keeps | Operations | Interacts with | Hard behaviour | What makes it correct |
|---|---|---|---|---|---|
| **Observability client** (`ObservabilityClient.scala`) | buffer, time of the last flush, retry cycle (flag, back-off, retries), Spark context, lazily resolved credentials, HTTP connection pool | `add`, `flushEvents`, `setLastFlush`, `sendContent` | called by appender and listener; HTTP to the pipeline; reads `SparkEnv` and the clock | lost answers, refused batches, timeouts, a retry cycle driven by later calls only, a context that comes and goes, leaked connections, expiring credentials, threads | no record is lost or sent without its context; retry variables stay in step; a record is delivered in the end unless one of four failures, each of them named, keeps it |
| **Log appender** (`CollectorAppender.scala`) | its client | `append` | log4j, the client | no timer, no flush at shutdown, one dispatcher thread or many logging threads | records are delivered in time; retries last for a known time; appends do not interfere |
| **Metrics listener** (`CustomMetricsListener.scala`) | stage-to-job map, buffer of light task metrics | one callback per Spark event | Spark's listener bus, its client | concurrent stages, retried stages, late tasks, dropped events, exceptions from `add` | every task has a record of the right job; a stage record sums up its own tasks, each once; what an exception spoils is made good |
| **Stage aggregation** (`collectStageCustomMetrics`) | none | max, range, average, relative distance | the listener's buffer | empty buffer, equal values | a defined measure of skewness |
| **Bootstrap** (`resources/lambda/opensearch-bootstrap/bootstrap.py`) | none of its own: users, roles, templates and dashboards in the domain | `on_create`, `on_update`, `on_delete` | CloudFormation through the CDK provider framework; the domain's REST API; Secrets Manager | half-done requests, repeats and rollbacks; a change of the domain that is only asked for | created means complete; a delete ends |
| **Secret rotation** (`resources/lambda/opensearch-rotation/rotate.py`, `opensearch_secret.py`) | staging labels of secret versions; the user's password in the domain | `createSecret`, `setSecret`, `testSecret`, `finishSecret` | Secrets Manager, the domain | overlapping, repeated and abandoned calls; a cancelled rotation; an incomplete environment | the current secret is the password in force |
| **Proxy address finder** (inline in `opensearch_rp_cr.py`) | none | create, update, delete | EC2, CloudFormation | instances of earlier deployments that EC2 still lists, starting ones without an address, swallowed exceptions, a time limit | the address is that of a proxy of this deployment |
| **Cluster sizing, stack wiring** (`cluster_sizing.py`, `backend_stack.py`, `app.py`) | none | parameters to a template | CDK, CloudFormation | references and declared dependencies decide the order of creation and deletion; off-by-one in the list of subnets | the subnets chosen fit the domain; a handler runs only when what it uses is there |
| **Other CDK constructs** (`opensearch*.py`, `ingestor_stack.py`, `emr_serverless_stack.py`, `vpc.py`, `network.py`) | none | declarations | CDK | a reference by text that orders nothing | every resource exists only beside what it uses |
| **CloudFormation** (external) | template, state of each resource, phase of the stack | create, delete, roll back | the handlers of the two custom resources | any resource may fail; a failed handler blocks a rollback | - |
| **Pipeline YAML, proxy script, Docker files** | none | configuration | - | none that a model checker reaches | - |

## The modules

| Module | Models | State and actions |
|---|---|---|
| `BatchDelivery` | what a client promises: at-least-once delivery in order | counters of submitted and released records, the set stored; `Submit`, `Store`, `Release` |
| `ObservabilityClient` | the client, one caller at a time | one variable per field of the class, `call`/`content` for the HTTP call that is out, and the environment. `Add`, `FlushEvents` and `SetLastFlush` are the public methods up to the HTTP call; `PipelineStores` is the server side; `FlushSucceeds`, `Rejected`, `CallThrows`, `PoolTimeout` and `CredentialsError` are its outcomes with all that `flushEvents` does about them |
| `CollectorAppender` | the appender on the client behind log4j's Async appender (`examples/log4j2.xml`, `docker/log4j2.xml`) | extends `ObservabilityClient`: `append` is `Add`, nothing asks for a flush |
| `SharedClient` | the client statement by statement with a set of threads inside, for `examples/log4j2.properties` where loggers refer to the appender directly | a program counter per thread, one action per statement that touches shared state |
| `MetricsListener` | the listener and the event orders of Spark's scheduler | Spark's jobs, stages, attempts and tasks; the map and the buffer; the records handed to the client. One action per Spark event, the whole callback included. `faults`, chosen at the start from `FaultSets`, says what Spark and the client may do in this behaviour |
| `StageAggregation` | the arithmetic of `collectStageCustomMetrics` | operators on a list of bytes read; fractions instead of doubles |
| `StageSkewness` | that arithmetic on the buffers the listener gathers | extends `MetricsListener`: each task has its bytes |
| `MCMetricsListener` | values for TLC | two jobs that share a stage, the tasks of each stage, their bytes, the fault sets |
| `Collector` | the driver from application start to end: listener bus, listener and client composed | the variables of `ObservabilityClient` and `MetricsListener`, the callback in progress, the application's phase. A callback begins with what it asks of the client and finishes with the listener's part, once the client has returned or thrown |
| `MCCollector` | values for TLC | one job of two stages |
| `Bootstrap` | the custom resource under CloudFormation | the stack's view, the request, the next call of the handler, what exists in the domain. One action per call of the handler, refused or accepted, and a crash at any point; `DatabaseEnabled` is the domain's, which makes the change it has been asked for in its own time |
| `SecretRotation` | `rotate.py` under Secrets Manager | staging labels, values of versions, requests that may be sent again, and per invocation where it is. One action per stretch between two calls of the handler to Secrets Manager: `Load`, `LookUp`, `Put`, each of which may fail or be abandoned |
| `Backend` | bootstrap and rotation on one user's secret | their variables, what the bootstrap has read and the domain's password. Putting a user becomes two steps, `ReadSecret` and `PutUser`, with the rotation free to move in between |
| `MCBackend` | symmetry for TLC | - |
| `CloudFormation` | the service, as far as the code relies on it (external) | template, `status` per resource, `phase`; one action per start, end and failure of a creation or deletion |
| `BackendStack` | parameters to a domain's description (`cluster_sizing.py`, `backend_stack.py`) and to a template (all constructs of the backend) | operators: one `Fragment` of resources and needs per construct, `Assemble` |
| `PipelineStacks` | the templates of the ingestor, the example and the VPC | operators, likewise |
| `Deployment` | one stack from `cdk deploy` to `cdk destroy` and the next deployment | CloudFormation's variables, the proxy's instances, the finder's answer. The handlers of the two custom resources are actions; of the bootstrap's it keeps that a create may fail and a delete always does; the finder's may crash or run into its time limit in either |
| `MCDeployment` | values for TLC | a VPC with two subnets in one zone, and 20 command lines |
| `ObservabilityClientProofs`, `SharedClientProofs`, `MetricsListenerProofs`, `StageAggregationProofs`, `CollectorProofs`, `BackendProofs`, `DeploymentProofs` | - | the theorems about the modules they are named for; those about `CollectorAppender` are in `ObservabilityClientProofs`, those about `Bootstrap` alone in `BackendProofs`, those about the subnets of `BackendStack` in `DeploymentProofs`, those about `StageSkewness` in `StageAggregationProofs` |
| `InductionLemmas` | - | the induction principles, and the existence of what recursive functions and folds define, for those proofs |

How they compose: `CollectorAppender` extends the client;
`ObservabilityClient` implements `BatchDelivery` (`RefinesBatchDelivery`, proved);
`SharedClient` with one thread implements `CollectorAppender` (`RefinesAppender`,
proved), which justifies the atomic actions of `ObservabilityClient`: a flush is
two steps, the call and its outcome, and nothing that happens between the
statements of one thread can be told apart. `MetricsListener` keeps of the client
only that `add` takes the record first and may throw afterwards; `Collector` puts
the client itself in that place. Each `Finish...` action of `Collector` is a conjunction of
the listener's action and the callback's return, so that every behaviour of `Collector` is
one of `MetricsListener` in which `add` throws when the client does
(`CollectorImplementsListener`, proved). `Backend` puts `Bootstrap` and `SecretRotation` on
one secret; every behaviour of it is one of `Bootstrap` (`BackendImplementsBootstrap`,
proved). `Deployment` gives the templates of `BackendStack` and `PipelineStacks` to
`CloudFormation`; the handler that is one action there, `BootstrapCreates` or a failure, is
spelt out in `Bootstrap`.

Abstractions. A record is its number. JSON text, log wording and SigV4 are left
out, but for two facts about a record: whether gson and the JSON parser can convert it at all
(`Malformed` has those they cannot; the exception leaves `flushEvents` before any call), and whether
its JSON is longer in bytes than in characters (`Wide`; the Content-Length of
`ObservabilityClient.scala:164` then cuts the body off). A pipeline takes in a batch of at most
`RequestLimit` records with no wide one (`Acceptable`); the size of a request is its number of records. Time is in whole seconds (`getSeconds`). An HTTP status is 200 or not; the
text of an exception is retryable or not. A refused batch may or may not hold its
connection: `Rejected` chooses, because an answer without a body holds none.
`PipelineStores` may precede any failure, for answers are lost. In `Bootstrap` one
name stands for a user, a template or a role; an import of saved objects that is accepted
may bring in only part of them. A secret's value is its password and whether it is JSON with
a user name. In a template one name stands for the resources that always come and go
together, such as a function with its layer and its provider; the template has no more than
that and who needs whom. CDK's own custom resources (the deployment of the image, the emptying
of the repository and of a bucket) count as ordinary resources; that which empties the repository
(`imageCleaner`) is told apart from it, that which empties the bucket is not.

What is assumed of CloudFormation: one operation on the stack at a time; a creation that
runs when a rollback begins is waited for; only a handler of this code can fail a deletion; a custom
resource is not updated, because no property of the two ever changes.

## What the runs show

Runs that must pass:

| Run | Module | Shows |
|---|---|---|
| `client` | `ObservabilityClient` | no record is lost (`NoRecordLost`) or sent without its context (`StoredAreEnriched`), the retry variables stay in step (`RetryStateConsistent`), a full batch waits only for a reason (`FullBatchIsExplained`), a retry cycle ends only in delivery (`CycleEndsInDelivery`), the client implements `BatchDelivery`, and a record leaves the buffer in the end unless all connections have leaked, the credentials have expired, the buffer has a record that cannot be converted, or it has become a request that the pipeline refuses for its length (`Delivered`) |
| `shared_single` | `SharedClient` | one thread, statement by statement, implements `CollectorAppender` (`RefinesAppender`), clears only what is stored (`ClearedWereSent`), and runs out of retries no sooner than the time threshold plus the final back-off after its last success, whatever the rate of log events (`ExhaustedAfterSilence`; this counts the quiet before an outage, too, and says nothing of how long the outage has lasted) |
| `listener_faults` | `MCMetricsListener` | under every mix of faults: tasks are attributed to a started job that lists their stage (`TaskAttribution`); a task is aggregated once unless `add` throws (`AggregatedOnce`), and even then, of two stage records that share a task, the later has all of the earlier (`OverlapIsWhole`); stages that run one at a time are kept apart (`SequentialStagesAreSeparate`), and stages that run once have all their tasks reported (`FirstAttemptsAreReported`); the skewness of every buffer gathered is defined, in 0..1, zero exactly for even reads, and bounded by the imbalance (`SkewnessIsDefined`, `SkewnessMeasuresImbalance`) |
| `collector` | `MCCollector` | over the life of an application: a stage record is exact again once a stage has emptied the buffer after the last `add` that threw, so that refused flushes which throw nothing spoil none (`StagesRecover`), the first metric is not sent alone (`FirstMetricNotAlone`), the end delivers what is left unless its own flush fails (`EndDelivers`), and the listener bus is never held up (`ApplicationEnds`) |
| `backend` | `MCBackend` | under refused calls, crashes, repeated requests and a rotation of the user's secret whose calls overlap, repeat and are abandoned: a created resource has all that is checked (`CreatedIsComplete`), and the current secret can be parsed and is the password in force (`PasswordInForce`) |
| `deployment` | `MCDeployment` | for each stack and several command lines, over all orders of creation and deletion with failures, rollbacks, destruction and a second deployment: the bootstrap's handler finds all it uses (`BootstrapCanRun`), the URL in the outputs is no instance of an earlier deployment (`DashboardUrl`), the subnets that the stack chooses itself are one per zone of the domain (`ChosenSubnetsFit`), and a rollback ends unless a handler cannot (`RollbackEnds`) |

Runs in which TLC finds what the code does and a comment or document denies:

| Run | Property | Finding |
|---|---|---|
| `client_first_wait` | `FirstWaitIsInitial` | the first retry of a cycle is not `INITIAL_BACKOFF` away: the back-off is doubled before its first use, and counts from the last success (`ObservabilityClient.scala:284`, `:208`; comment at `:30`) |
| `client_retries` | `RetriesAreUsedUp` | the pool of four connections is exhausted by refused batches before the five retries are (`ObservabilityClient.scala:182`, `:62`; comment at `:103`) |
| `appender_freshness` | `Freshness` | without new log events the time threshold flushes nothing (`ObservabilityClient.scala:304`; `README.md:304` says it does) |
| `shared_threads` | `ClearedWereSent` | a record appended while a batch is out is cleared unsent (`ObservabilityClient.scala:274`; comment at `:230`) |
| `listener_concurrent` | `StageAggregatesOwnTasks` | the tasks of concurrent stages are mixed (`CustomMetricsListener.scala:147`; comment at `:138`) |
| `bootstrap_delete` | `DeleteCompletes` | a delete fails for ever on `event['Data']` (`bootstrap.py:289`; comment at `:287`) |

Met while modelling, in the models, with no property of their own because no document
promises otherwise, or because the line speaks for itself:

- With the back-off doubled first, the shipped schedule is 10, 20, 40, 60, 60 seconds.
- The wait before a retry is counted from the last success (`ObservabilityClient.scala:209`). After a
  quiet period a retry follows its failure at once, and as many adds as there are retries spend
  all of them within a second; `ExhaustedAfterSilence` is what remains true.
- The Content-Length is the number of characters (`:164`) of a body that is sent in UTF-8, so that a batch
  with other than ASCII text is refused however often it is sent; and since the buffer is
  sent and cleared as a whole, one record that cannot be converted (`:236`) or sent keeps all that come
  after it, and a buffer that has outgrown a request never shrinks. `Delivered` names these ends.
- When the retries are exhausted collection goes on, and the next due `add` tries and
  throws again (`:287`).
- When `add` throws in `onStageCompleted`, the clean-up is skipped and the next stage
  inherits the tasks (`CustomMetricsListener.scala:80`); `StagesRecover` says how far the
  damage goes, `OverlapIsWhole` how it shows.
- The map keeps the entries of stages that are skipped, or that a later job maps again (`:62`).
- A stage's entry is removed when the stage first completes (`:81`), so that the tasks of a
  retried attempt make `onTaskEnd` throw a `NoSuchElementException` (`:115`) and are not
  reported, while the comment at `:86` excepts none. `FirstAttemptsAreReported` is what remains
  true.
- `on_create` notices neither a refused role (`bootstrap.py:191`) nor a partial import of
  saved objects (`:236`); `CreatedIsComplete` therefore leaves both out.
- `update_domain_config` only accepts the change to an internal user database (`bootstrap.py:205`);
  nothing waits for it before the users are put, and nothing in the models says that it has
  happened by then.
- A rotation cannot end. The handler reads variables at `rotate.py:18` and `:25`
  that `backend_stack.py:97-99` does not set, and fails as it is loaded; with them set it passes three
  arguments to functions of two (`:120-126` against `:167`, `:189`, `:210`). Were that
  repaired, the pending version would be a bare password (`:163`) where `get_secret` parses
  JSON, and the password would be set by a `PATCH` without its payload (`:183`).
  Even with both repaired, `test_secret` raises at `:207` and the last step is never asked for.
  `PasswordInForce` therefore holds because nothing moves `AWSCURRENT`: that no pending version, however
  often it is put, takes the label. Its mutant stages a new version as current, and the password is lost.
- The list of subnets is not capped as the comment at `backend_stack.py:51` says: `split(',', n)`
  leaves up to n + 1 pieces (`:58`), so that the example of `README.md:148`, size XS with two subnets,
  describes a domain that is refused. Of a list that is given no property says that it fits;
  `ChosenSubnetsFit` is about the subnets that the stack chooses when there is none.
- `OpensearchSubnetsIDs` without `VpcID` puts foreign subnets beside the security groups of
  a new VPC, which is refused.
- Size XL has the type `r6.4xlarge.search` (`cluster_sizing.py:96`; `README.md:192` has
  `r6g.4xlarge.search`), which OpenSearch does not have: a backend of this size is always rolled back.
- `cdk destroy` as in `README.md:421`, without a stack parameter, raises (`app.py:66`).
- `Role.from_role_name` describes a role and never throws, so that the service-linked role of
  `opensearch_prereq.py:97` is never made.
- The images of the example are emptied out of the repository by a resource of the CDK that needs the
  repository only (`emr_serverless_stack.py:61-64`). On a rollback or destruction they may go
  before the application that runs them, in spite of the dependency of `:162`.
- The finder swallows every exception and answers success (`opensearch_rp_cr.py:108-111`); if an instance
  without an address is listed, the attribute is missing and the stack is rolled back. When the
  group replaces the instance later, the URL in the outputs is stale.
- Log groups, functions and roles have fixed names: one deployment per account and region.
- A bootstrap that was created blocks a rollback or destruction for ever, its delete being
  what `bootstrap_delete` shows. A delete of the finder fails if its function crashes outside
  its `try` or runs into the time limit, for which its 30 seconds of sleep count although a delete needs
  none. `RollbackEnds` names these two as the other ends.

### Bounds

- `MaxRecords` (3 to 5) and `MaxTime` (1 to 7) end behaviours. Batches of two records
  with up to five records give several batches in a behaviour, buffers longer than a
  batch, and a new batch after a retry cycle. Where the wait between attempts
  matters, `MaxTime` reaches the time threshold and the back-off together (4 in
  `collector`) and the initial delay as well (6 in `client`, 7 in `shared_single`); where
  flushes come from job ends (`client_retries`) the clock plays no part and stops at 1.
- `MaxRetries = 2`, back-off 1 to 3: the shortest cycle in which the back-off is
  doubled (2) and then capped (3). `client_retries` runs the shipped values, `collector`
  one retry, so that a cycle is exhausted within one application.
- `MaxConnections` is 2, so that two leaks exhaust the pool; 3 in `shared_single`, more
  than the retries, so that they can be exhausted without it; the shipped 4 in `client_retries`.
- `RequestLimit = 3` in `client` and 4 in `shared_single` and `collector`: a batch that could not be
  sent grows too large with the next one. In the runs of three records it is out of reach.
- `Malformed = {5}` in `client` and `shared_single`, `Wide = {4}` in the latter: late enough for
  behaviours to go through a whole retry cycle first. Both are empty in `collector`, whose records the
  listener makes of numbers and ids (an application name with other than ASCII characters would make
  all of them wide); its pipeline may refuse any of them all the same.
- `MaxAttempts = 2`, two jobs that share stage 2, two tasks in stage 1 and one in
  stage 2: one retry, a stage mapped twice, two stages side by side, a task that ends late.
  `FaultSets` goes from no fault to all faults of Spark; a client that throws is combined
  with all of them but retries and dropped events.
- `collector` has one job of two stages and three tasks, hence five records, and no fault but a
  throwing client; the others are the subject of `listener_faults`.
- `VariedBytes`: a task that reads nothing, two alike and, in a second attempt, one that reads far
  more, so that buffers are even, uneven and of one task.
- `MaxRequests = 2` in `backend`: a create that fails, at any call, and another, or a create and an
  update or a delete; 4 in `bootstrap_delete`. Three versions of the secret, two passwords, two invocations: a rotation
  after a cancelled one, and two calls for one version with different passwords. Versions,
  passwords, invocations and saved objects are interchangeable, which `Symmetry` uses; the
  run has no liveness property.
- `MaxDeployments = 2`, `MaxInstances = 2`: a second deployment while instances of the
  first are listed, or one replacement within a deployment. The command lines of
  `MCDeployment` cover every size, lists of subnets that are short, fitting, too long and in the same
  zone, and parameters that are missing or unknown; every stack in an existing VPC and with none given.
  A backend with a VPC of its own, whose template only has more needs than the others, is tried in the size
  XL alone, whose domain is refused: creations and rollbacks, but no destruction.

### Fairness

- `FairSpec` of the client: jobs keep ending, and each end calls `flushEvents`
  (`CustomMetricsListener.scala:70-72`), hence weak fairness of `FlushEvents`. The
  Apache client has socket and connection-acquisition timeouts, so a call that is
  out ends: weak fairness of `Outcome`. An outage is not for ever, and an answer is
  not lost for ever: strong fairness of `PipelineStores` and `FlushSucceeds`. The former asks something of
  the pipeline for acceptable batches only.
  Nothing is assumed of the clock, of `SparkEnv`, or of new records.
- `CollectorSpec`: Spark runs the application to its end (weak fairness of `Bus`), and a
  call that is out ends (weak fairness of `CallEnds`). Nothing is assumed of the
  pipeline, which may be away for good.
- `FairSpec` of `Deployment`: CloudFormation goes on with a rollback or a deletion, and a handler
  answers, if only by its crash or time limit (weak fairness of `TakeDown`, of which `FinderCrashes` is part). Nothing is assumed of EC2,
  of the user, or of creations.
- `HealthySpec` of the appender, for the violation `Freshness`: clock, pipeline and
  successes are fair, and nothing fails; only log events may stop.
- `HealthySpec` of `Bootstrap`, for the violation `DeleteCompletes`: the handler goes
  on and every call is accepted.

Deadlock is checked in the runs of the client, the shared client and the appender:
the environment can always move (`SparkEnv` may go away). It is off where the system stops of itself: the
application ends, or CloudFormation sends no more requests.

## What is proved

The theorems hold for all values of the constants that satisfy the assumptions of the modules
they are about: any batch size, pool and number of records; any jobs, stages, tasks and
attempts, under any faults; any versions, passwords and number of overlapping invocations; any
command lines and private subnets, instances and deployments.

**The client** (`ObservabilityClientProofs`, from `ClientAssumption`)

| Theorem | States |
|---|---|
| `TypeCorrect` | `TypeOK`: among others the back-off keeps its bounds, retries never go below zero, no more connections leak than there are |
| `NothingIsLost` | `NoRecordLost` |
| `Enriched` | `StoredAreEnriched` |
| `FullBatch` | `FullBatchIsExplained` |
| `CycleEnds` | `CycleEndsInDelivery` |
| `RetryState` | `RetryStateConsistent`, for any number of retries, any maximal back-off and any initial one up to it |
| `Exhaustion` | `ExhaustedAfterSilence` of the appender, if there is at least one retry (the code has five, `ObservabilityClient.scala:29`) |
| `Refinement` | `RefinesBatchDelivery`: initial states map to initial states, every step to a step or a stutter |

`NoRecordLost` is not inductive: when a success clears the buffer, one
has to know that the batch that was out is the buffer that is cleared, and that a
batch the pipeline took in is in `stored`. `IInv` adds exactly that: `InFlight` (while a call
is out, `content` is the buffer and the context is known; once stored, its records are in
`stored`) and `CycleFlag` (retries are missing only in a retry cycle). `IInv` is proved
inductive with one step per action and one lemma per shared helper (`BeginFlush`,
`FlushFails`); the theorems follow from it. `InFlight` is where the single caller is
needed: it is what `SharedClient` breaks with two threads.

The back-off is the initial one times a power of two, `PowerOfTwo[MaxRetries - retries]`, until it is
capped: the invariant `BackOffSchedule` keeps the equation, by lemmas about the doubling of
the power (`PowerOfTwoDoubles`). `Exhaustion` adds that a retryable failure happens only to a flush
that had waited for the back-off and the time threshold (`WaitedForBackOff`); that is where it
matters that nothing but an add asks the appender's client for a flush.

**The listener** (`MetricsListenerProofs`, from `ListenerAssumption`)

| Theorem | States |
|---|---|
| `TypeCorrect` | `TypeOK` |
| `TasksOfTheirJobs` | `TaskAttribution` |
| `NothingAggregatedTwice` | `AggregatedOnce` |
| `OverlapsAreWhole` | `OverlapIsWhole` |
| `SequentialStages` | `SequentialStagesAreSeparate` |
| `FirstAttempts` | `FirstAttemptsAreReported` |

`ListenerInv` holds under all faults: what the scheduler may have running (`SparkInv`), that a
mapping entry names a started job that lists the stage (`MappingInv`), and that a recorded task
is over and a buffered one recorded (`RecordsInv`); without the last, an event could
record a task a second time. The properties that hold under some faults only have invariants
of their own, implications from the faults of the behaviour: `OnceInv` (no second attempt without
retries and late tasks), `SequentialInv` (the buffer has the tasks of the one running stage)
and `FirstAttemptsInv` (a stage that is still to complete is mapped). The actions are first reduced
to their effects (`TaskEndEffect` and its like), so that each invariant is
preserved by a handful of cases.

**The stage aggregation** (`StageAggregationProofs`, from `ListenerAssumption` and `BytesAssumption`)

| Theorem | States |
|---|---|
| `Defined` | `SkewnessIsDefined` |
| `Measures` | `SkewnessMeasuresImbalance` |

for every buffer that a listener can gather, of any number of tasks, and any number of bytes. `TotalBounds` bounds the sum of a list from one of
its values and the two extremes, by induction over the tasks; the properties follow by arithmetic
on the distances of the extremes to the average.

**Listener and client together** (`CollectorProofs`, from the assumptions of both and
`CollectorAssumption`)

| Theorem | States |
|---|---|
| `CollectorImplementsListener` | `CollectorSpec` implies the listener's `Spec`: no client, however it fails, makes the listener do what `MetricsListener` does not allow |
| `ListenerInCollector` | attribution and whole overlaps, in the application |

and, with the invariants of both,

| Theorem | States |
|---|---|
| `BusTypeCorrect` | `BusTypeOK`, that is the types of the bus, of the listener and of the client |
| `LastFlushDelivers` | `EndDelivers` |
| `FirstMetric` | `FirstMetricNotAlone` |
| `StagesRecovered` | `StagesRecover` |

Every step of the application is a step of the client or none (`ClientStep`), so that the client's
`IInv` holds there. `EndInv` says that once the flush of `onApplicationEnd` is over, the buffer
is empty or that flush failed; `ClockInv` ties `lastFlush` to the time of the start, which a
success can only move on; `RecoverInv` says that since a stage last emptied the buffer, until an add
throws, the buffer has all that was recorded of the running stage and nothing else.

**The client statement by statement** (`SharedClientProofs`, from `SharedAssumption`)

| Theorem | States |
|---|---|
| `StatementsRefineActions` | with one thread, `Spec` implies `RefinesAppender` |
| `ExhaustionOfOneThread` | with one thread and at least one retry, `ExhaustedAfterSilence`, carried over from the appender by the refinement |
| `OneThreadClearsWhatItSent` | with one thread, `ClearedWereSent`, which two threads violate (`shared_threads`) |

One lemma per statement says which action of `CollectorAppender` it is, or that it is a stutter.
An add happens where its flush begins or is found not to be due, a success at its first
statement. `SharedInv` has what that needs: the record being added is the last of the
buffer, and a flush that was found due is still due when the buffer is mapped, for only the clock
moves in between.

**Bootstrap and rotation** (`BackendProofs`, from `BootstrapAssumption`,
`SavedObjectsAssumption` and `RotationAssumption`)

| Theorem | States |
|---|---|
| `BackendImplementsBootstrap` | `BackendSpec` implies the bootstrap's `Spec` |
| `CreatedComplete` | `CreatedIsComplete` |
| `BackendTypeCorrect` | `BackendTypeOK` |
| `PasswordStaysInForce` | `PasswordInForce` |

`BootstrapInv` says how much of `createCalls` is in the domain at each `step`, and that it stays
there while the resource counts as created. `BackendInv` adds that `AWSCURRENT` stays with
the first version (`CurrentIsFirst`), that this version's value never changes, and that what the bootstrap
has read, and what it has put, is that value: the read and the put lie apart, and any
number of calls of the rotation lie between them.

**Deployment** (`DeploymentProofs`, from `CloudFormationAssumption`, `BackendAssumption` and
`DeploymentAssumption`)

| Theorem | States |
|---|---|
| `TypeCorrect` | `TypeOK` |
| `BootstrapReachesDomain` | `BootstrapCanRun` |
| `UrlOfThisDeployment` | `DashboardUrl` |
| `ChosenFit` | `ChosenSubnetsFit`: for any subnets of the VPC |

`EngineInv` is CloudFormation's part: `NeedsInPlace` is inductive only with `OnlyTemplate`
(nothing is there that the template does not name) and `CreatedIsWhole`. `TemplateInv` says
which pairs every template with the bootstrap has, read off the constructs;
`BootstrapReachesDomain` follows from both. `InstancesInv` says that instances that are up
belong to this deployment, for the URL: the finder's handler runs only while the group it
refers to is there.

`ChosenFit` rests on `ChosenDiffer`: the fold that goes through the subnets, however many,
keeps the zones of what it has chosen different and leaves none out, so that there are as many
choices as zones (`AsManyAsZones`).

**Induction over data.** The library's induction theorems take a predicate, which the provers
cannot instantiate. `InductionLemmas` states induction about sets instead: a set of numbers with 0
that is closed under successor has all of them (`ClosedUnderSuccessor`), and a family of subsets of a
finite set that has every set all of whose parts with one element less are in it has all of them
(`ClosedUnderAddition`); both rest on the well-foundedness of the natural numbers. With these,
`IterationExists` and `FoldExists` show that the equations of recursive functions and of the folds
of the community modules have a solution, so that what `PowerOfTwo`, `total` and `OnePerZone` compute
can be reasoned about for arguments of any size.

**Only model-checked**: liveness, which is out of the prover's reach like everything about
`ENABLED`: `Delivered`, `ApplicationEnds`, `RollbackEnds`, and the violated `Freshness` and
`DeleteCompletes`.

## Not modelled, and why

- The end of the JVM under the appender: its client is not flushed then
  (`CollectorAppender.scala` has no `stop`), so that what is in the buffer is lost. The
  listener's client is flushed at the end of the application, see `EndDelivers`.
- The bodies of `set_secret`, `test_secret` and `finish_secret` in `rotate.py`: no call enters
  them, see above; that no invocation gets there is part of `BackendTypeOK`.
- Defaults of `batchSize` and `timeThreshold`: the models start from the values the
  objects are built with. (A parameter left out of the log4j configuration arrives as 0,
  not as the 100 records and 10 seconds of `README.md:302`. The theorems about the client hold
  for these zeros, too.)
- Memory: the buffer is unbounded in the code and in the models; its size in bytes against the limit of a
  request is `RequestLimit`.
- When the domain is through with the change to internal users, and what becomes of users that are put
  before: the service's.
- Updates of a stack (`cdk deploy` over an existing one): which resources CloudFormation
  replaces is the service's, property by property. The update handler of the bootstrap is
  modelled.
- The contents of policies, ports, capacities and names in the templates, and the suppressions of
  cdk-nag: text, with nothing that happens in an order. Copying outputs of one stack into
  the parameters of the next is done by hand.
- Pipeline YAML, Docker files and the proxy's script: configuration of other programs.
- The tests: one synthesises the backend stack and looks for cdk-nag's warnings, the other is an empty
  class.

## Open ends

In order of interest: updates of a stack over an existing one; `SharedClient` with the
unsynchronised `ListBuffer` itself, in which even an append is several steps.
