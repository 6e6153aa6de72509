-------------------------- MODULE CollectorProofs --------------------------
(***************************************************************************)
(* Proofs about the driver's metrics collection as a whole, for any jobs,  *)
(* stages and tasks, any parameters of the client and any outage: what     *)
(* each half does inside it, then what takes both halves, the delivery at  *)
(* the end, the first metric, and the aggregation beside a failing client. *)
(***************************************************************************)
EXTENDS Collector, ObservabilityClientProofs, TLAPS

\* The proofs about the listener on its own, of the same variables.
L == INSTANCE MetricsListenerProofs

-----------------------------------------------------------------------------
(* The listener inside the collector is the listener on its own.           *)

\* The two instances of the listener say the same.
LEMMA SameActions ==
  /\ Listener!Init => L!Init
  /\ \A j \in Jobs : /\ Listener!JobStart(j) => L!JobStart(j)
                     /\ Listener!JobEnd(j) => L!JobEnd(j)
  /\ \A s \in Stages : /\ Listener!StageSubmitted(s) => L!StageSubmitted(s)
                       /\ Listener!StageCompleted(s) => L!StageCompleted(s)
  /\ \A s \in Stages, t \in Tasks : Listener!TaskEnd(s, t) => L!TaskEnd(s, t)
<1> USE DEF Listener!Deliver, L!Deliver, Listener!MayDrop, L!MayDrop,
            Listener!MayThrow, L!MayThrow, Listener!listenerVars, L!listenerVars,
            Listener!clientVars, L!clientVars
<1>1. Listener!Init => L!Init
  BY DEF Listener!Init, L!Init
<1>2. ASSUME NEW j \in Jobs
      PROVE  /\ Listener!JobStart(j) => L!JobStart(j)
             /\ Listener!JobEnd(j) => L!JobEnd(j)
  BY DEF Listener!JobStart, L!JobStart, Listener!onJobStart, L!onJobStart,
         Listener!JobEnd, L!JobEnd
<1>3. ASSUME NEW s \in Stages
      PROVE  Listener!StageSubmitted(s) => L!StageSubmitted(s)
  BY DEF Listener!StageSubmitted, L!StageSubmitted
<1>4. ASSUME NEW s \in Stages
      PROVE  Listener!StageCompleted(s) => L!StageCompleted(s)
  <2>1. Listener!collectStageCustomMetrics(s) = L!collectStageCustomMetrics(s)
    BY DEF Listener!collectStageCustomMetrics, L!collectStageCustomMetrics, Listener!Range,
           L!Range
  <2>2. Listener!onStageCompleted(s) => L!onStageCompleted(s)
    BY <2>1 DEF Listener!onStageCompleted, L!onStageCompleted, Listener!Restrict, L!Restrict
  <2>3. Listener!Deliver(Listener!onStageCompleted(s)) => L!Deliver(L!onStageCompleted(s))
    BY <2>2
  <2>4. QED
    BY <2>3 DEF Listener!StageCompleted, L!StageCompleted
<1>5. ASSUME NEW s \in Stages, NEW t \in Tasks
      PROVE  Listener!TaskEnd(s, t) => L!TaskEnd(s, t)
  BY DEF Listener!TaskEnd, L!TaskEnd, Listener!HasMetrics, L!HasMetrics,
         Listener!onTaskEnd, L!onTaskEnd
<1>6. QED
  BY <1>1, <1>2, <1>3, <1>4, <1>5

\* Outside the end of a callback nothing of the listener changes.
LEMMA ListenerStep == [CollectorNext]_allVars => [L!Next]_(L!vars)
<1> SUFFICES ASSUME [CollectorNext]_allVars
             PROVE  [L!Next]_(L!vars)
  OBVIOUS
<1>1. UNCHANGED listenerVars => UNCHANGED L!vars
  BY DEF listenerVars, L!vars, L!sparkVars, L!listenerVars, L!clientVars
<1>2. ASSUME NEW j \in Jobs, JobStart(j) \/ BeginJobEnd(j) \/ FinishJobEnd(j)
      PROVE  [L!Next]_(L!vars)
  BY <1>1, <1>2, SameActions DEF JobStart, BeginJobEnd, Begin, FinishJobEnd, L!Next
<1>3. ASSUME NEW s \in Stages,
             StageSubmitted(s) \/ BeginStageCompleted(s) \/ FinishStageCompleted(s)
      PROVE  [L!Next]_(L!vars)
  BY <1>1, <1>3, SameActions
     DEF StageSubmitted, BeginStageCompleted, Begin, FinishStageCompleted, L!Next
<1>4. ASSUME NEW s \in Stages, NEW t \in Tasks, BeginTaskEnd(s, t) \/ FinishTaskEnd(s, t)
      PROVE  [L!Next]_(L!vars)
  BY <1>1, <1>4, SameActions DEF BeginTaskEnd, Begin, FinishTaskEnd, L!Next
<1>5. CASE \/ onApplicationStart \/ onApplicationEnd \/ FinishApplicationEnd
           \/ CallEnds \/ Surroundings \/ UNCHANGED allVars
  BY <1>1, <1>5
     DEF onApplicationStart, onApplicationEnd, Begin, FinishApplicationEnd, CallEnds,
         Surroundings, allVars
<1>6. QED
  BY <1>2, <1>3, <1>4, <1>5 DEF CollectorNext, Bus

\* Whatever the client does, the listener beside it behaves as MetricsListener says; what
\* is proved of the listener for an add that may throw holds in the application.
THEOREM CollectorImplementsListener == CollectorSpec => L!Spec
<1>1. CollectorInit => L!Init
  BY SameActions DEF CollectorInit
<1>2. QED
  BY <1>1, ListenerStep, PTL DEF CollectorSpec, L!Spec

\* The constants meet what the listener assumes.
LEMMA ListenerConstants == L!ListenerAssumption
  BY CollectorAssumption DEF CollectorAssumption, L!ListenerAssumption, L!Hazards

\* The listener's invariant holds in the application, its steps being the listener's.
LEMMA ListenerInvariant == CollectorSpec => []L!ListenerInv
  BY ListenerConstants, CollectorImplementsListener, L!Invariant, PTL

\* In the whole application, too, no task is attributed to a foreign job, and of two stage
\* records that share a task the later one has all of the earlier one, whatever the client
\* throws.
THEOREM ListenerInCollector ==
  CollectorSpec => [](L!TaskAttribution /\ L!OverlapIsWhole)
<1>1. L!ListenerInv => L!TaskAttribution /\ L!OverlapIsWhole
  BY DEF L!ListenerInv
<1>2. QED
  BY <1>1, ListenerInvariant, PTL

-----------------------------------------------------------------------------
(* The client inside the collector is the client on its own.               *)

\* The bus asks of the client what its interface offers, one call at a time.
LEMMA ClientStep == [CollectorNext]_allVars => [Next]_vars
<1> SUFFICES ASSUME [CollectorNext]_allVars
             PROVE  Next \/ UNCHANGED vars
  OBVIOUS
<1>1. ASSUME NEW j \in Jobs, JobStart(j) \/ BeginJobEnd(j) \/ FinishJobEnd(j)
      PROVE  Next \/ UNCHANGED vars
  BY <1>1 DEF JobStart, BeginJobEnd, FinishJobEnd, Return, Next
<1>2. ASSUME NEW s \in Stages,
             StageSubmitted(s) \/ BeginStageCompleted(s) \/ FinishStageCompleted(s)
      PROVE  Next \/ UNCHANGED vars
  BY <1>2 DEF StageSubmitted, BeginStageCompleted, FinishStageCompleted, FinishAdd, Return, Next
<1>3. ASSUME NEW s \in Stages, NEW t \in Tasks, BeginTaskEnd(s, t) \/ FinishTaskEnd(s, t)
      PROVE  Next \/ UNCHANGED vars
  BY <1>3 DEF BeginTaskEnd, FinishTaskEnd, FinishAdd, Return, Next
<1>4. CASE \/ onApplicationStart \/ onApplicationEnd \/ FinishApplicationEnd
           \/ CallEnds \/ Surroundings \/ UNCHANGED allVars
  BY <1>4 DEF onApplicationStart, onApplicationEnd, FinishApplicationEnd, Return, CallEnds,
              Surroundings, allVars, Next, Environment
<1>5. QED
  BY <1>1, <1>2, <1>3, <1>4 DEF CollectorNext, Bus

\* The driver's client starts as any other, in a SparkEnv that is complete.
LEMMA ClientInit == CollectorInit => IInv
<1> SUFFICES ASSUME CollectorInit
             PROVE  IInv
  OBVIOUS
<1>1. TypeOK
  <2>1. isBackingOff \in BOOLEAN
    BY Zenon DEF CollectorInit
  <2>2. /\ lastFlush \in Nat
        /\ backOff \in InitialBackoff..MaxBackoff
        /\ retries \in 0..MaxRetries
        /\ leased \in 0..MaxConnections
        /\ now \in Nat
        /\ added \in Nat
    BY ClientAssumption DEF ClientAssumption, CollectorInit
  <2>3. buffer \in Seq(Nat) /\ content \in Seq(Nat)
    BY EmptySeqNat DEF CollectorInit
  <2>4. /\ context \in SUBSET ContextFields
        /\ credentials \in {"unresolved", "valid", "expired"}
        /\ call \in {"none", "sent", "stored"}
        /\ raised \in {"none", "exhausted", "transport", "pool", "credentials", "conversion"}
        /\ sparkEnv \in SUBSET ContextFields
        /\ stored \in SUBSET Nat
    BY DEF CollectorInit
  <2>5. QED
    BY <2>1, <2>2, <2>3, <2>4 DEF TypeOK
<1>2. Len(buffer) <= added /\ NoRecordLost
  BY DEF CollectorInit, NoRecordLost
<1>3. InFlight /\ StoredAreEnriched
  BY DEF CollectorInit, InFlight, StoredAreEnriched
<1>4. ~(retries < MaxRetries)
  BY ClientAssumption DEF ClientAssumption, CollectorInit
<1>5. CycleFlag
  BY <1>4, Zenon DEF CollectorInit, CycleFlag
<1>6. QED
  BY <1>1, <1>2, <1>3, <1>5 DEF IInv

\* No record is lost in an application, whatever the bus asks for and the pipeline does.
LEMMA ClientInvariant == CollectorSpec => []IInv
  BY ClientInit, ClientStep, IInvStep, PTL DEF CollectorSpec

-----------------------------------------------------------------------------
(* The bus.                                                                *)

\* The variables of the bus; a callback runs in a running application, and a call of the
\* client in a callback.
BusInv ==
  /\ sparkEnv = ContextFields
  /\ app \in {"new", "running", "ended"}
  /\ callback \in Callbacks
  /\ addThrew \in BOOLEAN
  /\ failedIn \in Callbacks
  /\ callback # Idle => app = "running"
  /\ call # "none" => callback # Idle

\* Once the callback of the application's end has come back from the client, all is
\* delivered or its own flush has failed.
EndInv ==
  (callback = ApplicationEnded /\ call = "none") \/ app = "ended" =>
    buffer = <<>> \/ failedIn = ApplicationEnded

\* The outcome of a call, whatever it is, ends the call.
LEMMA OutcomeEffect ==
  ASSUME Outcome
  PROVE  /\ call # "none" /\ call' = "none"
         /\ UNCHANGED <<sparkEnv, now, added, stored>>
         /\ lastFlush' \in {lastFlush, now}
  BY DEF Outcome, FlushSucceeds, StatusOK, Rejected, CallThrows, PoolTimeout,
         CredentialsError, FlushFails, envVars

\* What the bus does in one step, as far as the end of the application depends on it.
LEMMA BusStep ==
  ASSUME BusInv, EndInv, [CollectorNext]_allVars
  PROVE  BusInv' /\ EndInv'
<1>0. Idle \in Callbacks /\ ApplicationEnded \in Callbacks /\ Idle # ApplicationEnded
  BY DEF Callbacks, Idle, ApplicationEnded
<1>1. ASSUME NEW s \in Stages, NEW t \in Tasks, BeginTaskEnd(s, t)
      PROVE  BusInv' /\ EndInv'
  <2>1. /\ app = "running" /\ callback = Idle /\ callback' = TaskEnded(s, t)
        /\ UNCHANGED <<app, addThrew, failedIn, sparkEnv>>
    BY <1>1 DEF BeginTaskEnd, BusIsFree, Begin, historyVars, Add, envVars, vars
  <2>2. TaskEnded(s, t) \in Callbacks /\ TaskEnded(s, t) \notin {Idle, ApplicationEnded}
    BY DEF Callbacks, TaskEnded, Idle, ApplicationEnded
  <2>3. QED
    BY <2>1, <2>2 DEF BusInv, EndInv
<1>2. ASSUME NEW s \in Stages, BeginStageCompleted(s)
      PROVE  BusInv' /\ EndInv'
  <2>1. /\ app = "running" /\ callback = Idle /\ callback' = StageEnded(s)
        /\ UNCHANGED <<app, addThrew, failedIn, sparkEnv>>
    BY <1>2 DEF BeginStageCompleted, BusIsFree, Begin, historyVars, Add, envVars, vars
  <2>2. StageEnded(s) \in Callbacks /\ StageEnded(s) \notin {Idle, ApplicationEnded}
    BY DEF Callbacks, StageEnded, Idle, ApplicationEnded
  <2>3. QED
    BY <2>1, <2>2 DEF BusInv, EndInv
<1>3. ASSUME NEW j \in Jobs, BeginJobEnd(j)
      PROVE  BusInv' /\ EndInv'
  <2>1. /\ app = "running" /\ callback = Idle /\ callback' = JobEnded(j)
        /\ UNCHANGED <<app, addThrew, failedIn, sparkEnv>>
    BY <1>3 DEF BeginJobEnd, BusIsFree, Begin, historyVars, FlushEvents, envVars
  <2>2. JobEnded(j) \in Callbacks /\ JobEnded(j) \notin {Idle, ApplicationEnded}
    BY DEF Callbacks, JobEnded, Idle, ApplicationEnded
  <2>3. QED
    BY <2>1, <2>2 DEF BusInv, EndInv
<1>4. CASE onApplicationEnd
  <2>1. /\ app = "running" /\ callback = Idle /\ callback' = ApplicationEnded
        /\ UNCHANGED <<app, addThrew, failedIn, sparkEnv, buffer>>
        /\ BeginFlush(buffer)
    BY <1>4 DEF onApplicationEnd, BusIsFree, Begin, historyVars, FlushEvents, envVars
  <2>2. Convertible(buffer) /\ Convertible(<<Head(buffer)>>)
    BY CollectorAssumption DEF CollectorAssumption, Convertible
  <2>3. buffer # <<>> => call' = "sent"
    BY <2>1, <2>2 DEF BeginFlush, BusInv, contextAtFlush, logContextInitialized
  <2>4. QED
    BY <1>0, <2>1, <2>3 DEF BusInv, EndInv
<1>5. ASSUME NEW s \in Stages,
             FinishStageCompleted(s) \/ \E t \in Tasks : FinishTaskEnd(s, t)
      PROVE  BusInv' /\ EndInv'
  <2>0. addThrew' \in BOOLEAN
    BY <1>5, Zenon DEF FinishTaskEnd, FinishStageCompleted
  <2>1. /\ call = "none" /\ callback' = Idle
        /\ UNCHANGED <<app, call, sparkEnv, failedIn>>
    BY <1>5 DEF FinishTaskEnd, FinishStageCompleted, FinishAdd, Return, vars, callVars,
                envVars, BusInv
  <2>2. callback.event \in {"taskEnd", "stageCompleted"}
    BY <1>5 DEF FinishTaskEnd, FinishStageCompleted, TaskEnded, StageEnded
  <2>3. app = "running"
    BY <2>2 DEF BusInv, Idle
  <2>4. QED
    BY <1>0, <2>0, <2>1, <2>3 DEF BusInv, EndInv
<1>6. ASSUME NEW j \in Jobs, FinishJobEnd(j)
      PROVE  BusInv' /\ EndInv'
  <2>1. /\ call = "none" /\ callback' = Idle /\ callback = JobEnded(j)
        /\ UNCHANGED <<app, call, sparkEnv, failedIn, addThrew>>
    BY <1>6 DEF FinishJobEnd, Return, vars, callVars, envVars
  <2>2. app = "running"
    BY <2>1 DEF BusInv, JobEnded, Idle
  <2>3. QED
    BY <1>0, <2>1, <2>2 DEF BusInv, EndInv
<1>7. CASE FinishApplicationEnd
  <2>1. /\ call = "none" /\ callback' = Idle /\ callback = ApplicationEnded
        /\ app' = "ended"
        /\ UNCHANGED <<buffer, call, sparkEnv, failedIn, addThrew>>
    BY <1>7 DEF FinishApplicationEnd, Return, vars, callVars, envVars
  <2>2. QED
    BY <1>0, <2>1 DEF BusInv, EndInv
<1>8. CASE CallEnds
  <2>1. /\ call # "none" /\ call' = "none"
        /\ UNCHANGED <<sparkEnv, app, callback, addThrew>>
        /\ failedIn' = IF buffer' = <<>> THEN failedIn ELSE callback
    BY <1>8, OutcomeEffect DEF CallEnds
  <2>2. app = "running" /\ callback # Idle
    BY <2>1 DEF BusInv
  <2>3. QED
    BY <1>0, <2>1, <2>2 DEF BusInv, EndInv
<1>9. CASE onApplicationStart
  <2>1. /\ app = "new" /\ app' = "running" /\ call = "none"
        /\ UNCHANGED <<sparkEnv, call, callback, addThrew, failedIn>>
    BY <1>9 DEF onApplicationStart, SetLastFlush, callVars, envVars
  <2>2. callback = Idle
    BY <2>1 DEF BusInv
  <2>3. QED
    BY <1>0, <2>1, <2>2 DEF BusInv, EndInv
<1>10. CASE \/ \E j \in Jobs : JobStart(j)
            \/ \E s \in Stages : StageSubmitted(s)
            \/ Surroundings \/ UNCHANGED allVars
  <2>1. /\ UNCHANGED <<sparkEnv, buffer, app, callback, addThrew, failedIn>>
        /\ call' = call \/ (call = "sent" /\ call' = "stored")
    BY <1>10 DEF JobStart, StageSubmitted, Surroundings, PipelineStores, Tick,
                 ExpireCredentials, allVars, vars, busVars, historyVars, callVars, envVars
  <2>2. QED
    BY <2>1 DEF BusInv, EndInv
<1>11. QED
  BY <1>1, <1>2, <1>3, <1>4, <1>5, <1>6, <1>7, <1>8, <1>9, <1>10 DEF CollectorNext, Bus

\* At first there is no callback and nothing to deliver.
LEMMA BusInit == CollectorInit => BusInv /\ EndInv
<1> SUFFICES ASSUME CollectorInit
             PROVE  BusInv /\ EndInv
  OBVIOUS
<1>1. Idle \in Callbacks
  BY DEF Callbacks
<1>2. addThrew \in BOOLEAN
  BY Zenon DEF CollectorInit
<1>3. QED
  BY <1>1, <1>2 DEF CollectorInit, BusInv, EndInv

-----------------------------------------------------------------------------
(* The first metric.                                                       *)

\* Once the application has started, the last flush is no older than its start.
ClockInv ==
  /\ now \in 0..MaxTime /\ appStart \in 0..now
  /\ app # "new" => appStart <= lastFlush

\* Time goes on, and a flush that succeeds is the last one.
LEMMA ClockStep ==
  ASSUME TypeOK, BusInv, ClockInv, [CollectorNext]_allVars
  PROVE  ClockInv'
<1> USE ClientAssumption DEF ClientAssumption
<1>1. CASE onApplicationStart
  <2>1. lastFlush' = now /\ appStart' = now /\ now' = now
    BY <1>1 DEF onApplicationStart, SetLastFlush, envVars
  <2>2. QED
    BY <2>1 DEF ClockInv
<1>2. CASE CallEnds
  <2>1. lastFlush' \in {lastFlush, now} /\ UNCHANGED <<now, appStart, app>>
    BY <1>2, OutcomeEffect DEF CallEnds
  <2>2. QED
    BY <2>1 DEF ClockInv, TypeOK
<1>3. CASE Surroundings
  <2>1. /\ now' = now \/ (now < MaxTime /\ now' = now + 1)
        /\ UNCHANGED <<lastFlush, appStart, app>>
    BY <1>3 DEF Surroundings, PipelineStores, Tick, ExpireCredentials, envVars, busVars,
                historyVars
  <2>2. QED
    BY <2>1 DEF ClockInv, TypeOK
<1>4. ASSUME NEW s \in Stages,
             \/ StageSubmitted(s) \/ BeginStageCompleted(s) \/ FinishStageCompleted(s)
             \/ \E t \in Tasks : BeginTaskEnd(s, t) \/ FinishTaskEnd(s, t)
      PROVE  ClockInv'
  <2>1. UNCHANGED <<now, lastFlush, appStart, app>>
    BY <1>4 DEF StageSubmitted, BeginStageCompleted, FinishStageCompleted, BeginTaskEnd,
                FinishTaskEnd, FinishAdd, Return, Begin, Add, vars, envVars, busVars, historyVars
  <2>2. QED
    BY <2>1 DEF ClockInv
<1>5. ASSUME NEW j \in Jobs, JobStart(j) \/ BeginJobEnd(j) \/ FinishJobEnd(j)
      PROVE  ClockInv'
  <2>1. UNCHANGED <<now, lastFlush, appStart, app>>
    BY <1>5 DEF JobStart, BeginJobEnd, FinishJobEnd, Return, Begin, FlushEvents, vars,
                envVars, busVars, historyVars
  <2>2. QED
    BY <2>1 DEF ClockInv
<1>6. CASE onApplicationEnd \/ FinishApplicationEnd \/ UNCHANGED allVars
  <2>1. /\ UNCHANGED <<now, lastFlush, appStart>>
        /\ app' = "new" => app = "new"
        /\ app = "new" => app' = "new"
    BY <1>6 DEF onApplicationEnd, FinishApplicationEnd, BusIsFree, Return, Begin, FlushEvents,
                allVars, vars, envVars, busVars, historyVars, BusInv, ApplicationEnded, Idle
  <2>2. QED
    BY <2>1 DEF ClockInv
<1>7. QED
  BY <1>1, <1>2, <1>3, <1>4, <1>5, <1>6 DEF CollectorNext, Bus

\* The bus and the clock keep their invariants in every behaviour.
LEMMA BusInvariant == CollectorSpec => [](BusInv /\ EndInv /\ ClockInv)
<1>1. CollectorInit => BusInv /\ EndInv /\ ClockInv
  BY BusInit, ClientAssumption DEF ClientAssumption, CollectorInit, ClockInv
<1>2. IInv /\ BusInv /\ EndInv /\ ClockInv /\ [CollectorNext]_allVars
        => (BusInv /\ EndInv /\ ClockInv)'
  BY BusStep, ClockStep DEF IInv
<1>3. QED
  BY <1>1, <1>2, ClientInvariant, PTL DEF CollectorSpec

\* Every variable of the application, of the client, the listener and the bus, keeps its
\* type.
THEOREM BusTypeCorrect == CollectorSpec => []BusTypeOK
<1>1. L!ListenerInv => Listener!TypeOK
  <2>1. L!ListenerInv => L!TypeOK
    BY DEF L!ListenerInv
  <2>2. L!TaskMetrics = Listener!TaskMetrics
    BY DEF L!TaskMetrics, Listener!TaskMetrics, L!TaskIds, Listener!TaskIds
  <2>3. L!TypeOK => Listener!TypeOK
    BY <2>2 DEF L!TypeOK, Listener!TypeOK, L!TaskIds, Listener!TaskIds,
         L!StageMetrics, Listener!StageMetrics, L!Range, Listener!Range
  <2>4. QED
    BY <2>1, <2>3
<1>2. BusInv /\ ClockInv /\ TypeOK /\ Listener!TypeOK => BusTypeOK
  BY ClientAssumption DEF ClientAssumption, BusInv, ClockInv, BusTypeOK
<1>3. IInv => TypeOK
  BY DEF IInv
<1>4. L!ListenerInv /\ IInv /\ BusInv /\ ClockInv => BusTypeOK
  BY <1>1, <1>2, <1>3
<1>5. QED
  BY <1>4, ListenerInvariant, ClientInvariant, BusInvariant, PTL

\* The application ends with every record in the pipeline unless its very last flush
\* fails: for any jobs, any parameters of the client and any failures before that.
THEOREM LastFlushDelivers == CollectorSpec => []EndDelivers
<1>1. IInv /\ EndInv => EndDelivers
  <2>1. SUFFICES ASSUME IInv, buffer = <<>>
                 PROVE  1..added \subseteq stored
    BY DEF EndInv, EndDelivers
  <2>2. Len(buffer) = 0 /\ added \in Nat
    BY <2>1 DEF IInv, TypeOK
  <2>3. 1..added - Len(buffer) = 1..added
    BY <2>2
  <2>4. QED
    BY <2>1, <2>3 DEF IInv, NoRecordLost
<1>2. QED
  BY <1>1, BusInvariant, ClientInvariant, PTL

\* An add that sends less than a batch does so for the time that has passed.
LEMMA SmallBatch ==
  ASSUME TypeOK, Add, call' = "sent", Len(content') < BatchSize
  PROVE  now - lastFlush >= BatchTime
<1>1. FlushIsDue(Len(buffer) + 1) /\ content' = Append(buffer, added + 1)
  BY DEF Add, BeginFlush
<1>2. Len(content') = Len(buffer) + 1 /\ Len(buffer) \in Nat
  BY <1>1 DEF TypeOK
<1>3. durationSinceLastFlush >= BatchTime
  BY <1>1, <1>2, ClientAssumption DEF ClientAssumption, FlushIsDue
<1>4. now - lastFlush >= durationSinceLastFlush
  BY ClientAssumption DEF ClientAssumption, durationSinceLastFlush, TypeOK
<1>5. durationSinceLastFlush \in Int
  BY ClientAssumption DEF ClientAssumption, durationSinceLastFlush, TypeOK
<1>6. QED
  BY <1>3, <1>4, <1>5, ClientAssumption DEF ClientAssumption, TypeOK

\* The comment on onApplicationStart holds whatever the time threshold, and however long
\* Spark takes to start: no metric is sent in less than a batch before the threshold has
\* passed since the start.
THEOREM FirstMetric == CollectorSpec => FirstMetricNotAlone
<1> DEFINE A == callback = Idle /\ callback'.event \in {"taskEnd", "stageCompleted"}
                  /\ call' = "sent" /\ Len(content') < BatchSize
                    => now - appStart >= BatchTime
<1>1. IInv /\ BusInv /\ ClockInv /\ [CollectorNext]_allVars => [A]_allVars
  <2> SUFFICES ASSUME IInv, BusInv, ClockInv, CollectorNext, callback = Idle,
                      callback'.event \in {"taskEnd", "stageCompleted"}, call' = "sent",
                      Len(content') < BatchSize
               PROVE  now - appStart >= BatchTime
    OBVIOUS
  <2>1. call = "none"
    BY DEF BusInv
  <2>2. PICK s \in Stages : BeginStageCompleted(s) \/ \E t \in Tasks : BeginTaskEnd(s, t)
    <3>1. callback.event = "none" /\ callback' # callback
      BY DEF Idle
    <3>2. \A j \in Jobs : ~JobStart(j) /\ ~BeginJobEnd(j) /\ ~FinishJobEnd(j)
      BY <3>1 DEF JobStart, BeginJobEnd, FinishJobEnd, Begin, JobEnded, busVars
    <3>3. \A s \in Stages :
            /\ ~StageSubmitted(s) /\ ~FinishStageCompleted(s)
            /\ \A t \in Tasks : ~FinishTaskEnd(s, t)
      BY <3>1 DEF StageSubmitted, FinishStageCompleted, FinishTaskEnd, TaskEnded, StageEnded,
                  busVars
    <3>4. /\ ~onApplicationStart /\ ~onApplicationEnd /\ ~FinishApplicationEnd
          /\ ~CallEnds /\ ~Surroundings
      BY <3>1 DEF onApplicationStart, onApplicationEnd, Begin, FinishApplicationEnd,
                  ApplicationEnded, CallEnds, Surroundings, busVars
    <3>5. QED
      BY <3>2, <3>3, <3>4 DEF CollectorNext, Bus
  <2>3. Add /\ app = "running"
    BY <2>1, <2>2 DEF BeginStageCompleted, BeginTaskEnd, BusIsFree, vars, callVars
  <2>4. now - lastFlush >= BatchTime
    BY <2>3, SmallBatch DEF IInv
  <2>5. QED
    BY <2>3, <2>4, ClientAssumption DEF ClientAssumption, ClockInv, IInv, TypeOK
<1>2. QED
  BY <1>1, ClientInvariant, BusInvariant, PTL DEF CollectorSpec, FirstMetricNotAlone

-----------------------------------------------------------------------------
(* What a failing client does to the aggregation.                          *)

\* Where stages run one at a time and once, and since a stage last emptied the buffer no
\* add has thrown, the buffer has all that was recorded of the stage that runs, and
\* nothing else.
RecoverInv ==
  faults \subseteq {"throw"} =>
    /\ \A s, t \in Stages : stageState[s] = "running" /\ stageState[t] = "running" => s = t
    /\ \A m \in taskRecords : stageState[m.id.stage] # "waiting"
    /\ ~addThrew =>
         /\ \A m \in taskRecords :
              stageState[m.id.stage] = "running" => m \in L!Range(taskMetricsBuffer)
         /\ \A m \in L!Range(taskMetricsBuffer) : stageState[m.id.stage] = "running"

\* What the end of a task does, if its event arrives: the task is recorded, and is in the
\* buffer too unless add has thrown.
LEMMA TaskFinished ==
  ASSUME L!TypeOK, L!SparkInv, faults \subseteq {"throw"}, NEW s \in Stages, NEW t \in Tasks,
         FinishTaskEnd(s, t)
  PROVE  /\ UNCHANGED <<stageState, stageRecords>>
         /\ \/ UNCHANGED <<taskRecords, taskMetricsBuffer>> /\ (~addThrew' => ~addThrew)
            \/ \E m \in L!TaskMetrics :
                 /\ m.id.stage = s /\ stageState[s] = "running"
                 /\ taskRecords' = taskRecords \cup {m}
                 /\ ~addThrew' =>
                      /\ ~addThrew
                      /\ L!Range(taskMetricsBuffer') = L!Range(taskMetricsBuffer) \cup {m}
<1>1. L!MayDrop = {FALSE} /\ L!HasMetrics = {TRUE}
  BY DEF L!MayDrop, L!HasMetrics
<1>2. L!TaskEnd(s, t)
  BY SameActions DEF FinishTaskEnd
<1>3. PICK id \in L!TaskIds :
        /\ id = [stage |-> s, attempt |-> attempt[s], task |-> t]
        /\ stageState[s] = "running"
        /\ \E hasMetrics \in L!HasMetrics : L!Deliver(L!onTaskEnd(id, hasMetrics))
  BY <1>2, ListenerConstants, L!TaskEnds
<1>4. L!onTaskEnd(id, TRUE) /\ id.stage = s /\ UNCHANGED stageState
  BY <1>1, <1>2, <1>3 DEF L!TaskEnd, L!Deliver
<1>5. /\ (taskMetricsBuffer' # taskMetricsBuffer)
           <=> (s \in DOMAIN stageToJobMapping /\ raised = "none")
      /\ addThrew' = (addThrew \/ (s \in DOMAIN stageToJobMapping /\ raised # "none"))
  BY Zenon DEF FinishTaskEnd, FinishAdd
<1>6. CASE s \in DOMAIN stageToJobMapping
  <2> DEFINE metrics == [id |-> id, job |-> stageToJobMapping[id.stage]]
  <2>1. /\ taskRecords' = taskRecords \cup {metrics} /\ UNCHANGED stageRecords
        /\ \/ taskMetricsBuffer' = taskMetricsBuffer
           \/ taskMetricsBuffer' = Append(taskMetricsBuffer, metrics)
    BY <1>4, <1>6 DEF L!onTaskEnd
  <2>2. metrics.id.stage = s
    BY <1>4
  <2>3. metrics \in L!TaskMetrics
    BY <1>4, <1>6 DEF L!TypeOK, L!Range, L!TaskMetrics
  <2>4. taskMetricsBuffer \in Seq(L!TaskMetrics)
    BY DEF L!TypeOK
  <2> HIDE DEF metrics
  <2>5. L!Range(Append(taskMetricsBuffer, metrics)) = L!Range(taskMetricsBuffer) \cup {metrics}
    BY <2>3, <2>4, ListenerConstants, L!RangeAppend
  <2>6. ~addThrew' => ~addThrew /\ taskMetricsBuffer' # taskMetricsBuffer
    BY <1>5, <1>6, Zenon
  <2>7. QED
    BY <1>3, <1>4, <2>1, <2>2, <2>3, <2>5, <2>6
<1>7. CASE s \notin DOMAIN stageToJobMapping
  <2>1. UNCHANGED <<taskRecords, taskMetricsBuffer, stageRecords>>
    BY <1>4, <1>7 DEF L!onTaskEnd, L!listenerVars, L!clientVars
  <2>2. ~addThrew' => ~addThrew
    BY <1>5, <1>7, Zenon
  <2>3. QED
    BY <1>4, <2>1, <2>2
<1>8. QED
  BY <1>6, <1>7

\* What the end of a stage does, if its event arrives: the buffer is aggregated, and is
\* empty then unless add has thrown.
LEMMA StageFinished ==
  ASSUME L!TypeOK, faults \subseteq {"throw"}, NEW s \in Stages, FinishStageCompleted(s)
  PROVE  /\ UNCHANGED taskRecords /\ stageState[s] = "running"
         /\ stageState' = [stageState EXCEPT ![s] = "done"]
         /\ ~addThrew' => L!Range(taskMetricsBuffer') = {}
         /\ \/ UNCHANGED stageRecords
            \/ /\ taskMetricsBuffer # <<>>
               /\ stageRecords' = Append(stageRecords, L!collectStageCustomMetrics(s))
               /\ L!collectStageCustomMetrics(s) \in L!StageMetrics
<1>1. L!StageCompleted(s)
  BY SameActions DEF FinishStageCompleted
<1>2. /\ stageState[s] = "running" /\ stageState' = [stageState EXCEPT ![s] = "done"]
      /\ L!Deliver(L!onStageCompleted(s))
  BY <1>1, ListenerConstants, L!CompletedOnce
<1>3. ~addThrew' => taskMetricsBuffer' = <<>>
  BY Zenon DEF FinishStageCompleted
<1>4. ~addThrew' => L!Range(taskMetricsBuffer') = {}
  BY <1>3 DEF L!Range
<1>5. UNCHANGED taskRecords
      /\ \/ UNCHANGED stageRecords
         \/ /\ taskMetricsBuffer # <<>>
            /\ stageRecords' = Append(stageRecords, L!collectStageCustomMetrics(s))
            /\ L!collectStageCustomMetrics(s) \in L!StageMetrics
  BY <1>2, ListenerConstants, L!StageCompletedEffect DEF L!clientVars
<1>6. QED
  BY <1>2, <1>4, <1>5

\* Only the ends of tasks and stages change what is recorded, and only the ends and the
\* submission of stages their states.
LEMMA QuietSteps ==
  ASSUME [CollectorNext]_allVars
  PROVE  \/ /\ UNCHANGED <<stageState, taskRecords, taskMetricsBuffer, stageRecords>>
            /\ addThrew' = addThrew
         \/ \E s \in Stages : StageSubmitted(s) \/ FinishStageCompleted(s)
         \/ \E s \in Stages, t \in Tasks : FinishTaskEnd(s, t)
<1>1. UNCHANGED listenerVars
        => UNCHANGED <<stageState, taskRecords, taskMetricsBuffer, stageRecords>>
  BY DEF listenerVars
<1>2. ASSUME NEW j \in Jobs, JobStart(j)
      PROVE  /\ UNCHANGED <<stageState, taskRecords, taskMetricsBuffer, stageRecords>>
             /\ addThrew' = addThrew
  <2>1. L!JobStart(j) /\ addThrew' = addThrew
    BY <1>2, SameActions DEF JobStart, busVars, historyVars
  <2>2. QED
    BY <2>1 DEF L!JobStart, L!Deliver, L!onJobStart, L!listenerVars, L!clientVars
<1>3. ASSUME NEW j \in Jobs, FinishJobEnd(j)
      PROVE  /\ UNCHANGED <<stageState, taskRecords, taskMetricsBuffer, stageRecords>>
             /\ addThrew' = addThrew
  <2>1. L!JobEnd(j) /\ addThrew' = addThrew
    BY <1>3, SameActions DEF FinishJobEnd
  <2>2. QED
    BY <2>1 DEF L!JobEnd, L!listenerVars, L!clientVars
<1>4. ASSUME NEW s \in Stages,
             BeginStageCompleted(s) \/ \E t \in Tasks : BeginTaskEnd(s, t)
      PROVE  UNCHANGED listenerVars /\ addThrew' = addThrew
  BY <1>4 DEF BeginStageCompleted, BeginTaskEnd, Begin, historyVars
<1>5. CASE \/ onApplicationStart \/ onApplicationEnd \/ FinishApplicationEnd
           \/ \E j \in Jobs : BeginJobEnd(j)
           \/ CallEnds \/ Surroundings \/ UNCHANGED allVars
  <2>1. UNCHANGED listenerVars /\ addThrew' = addThrew
    BY <1>5 DEF onApplicationStart, onApplicationEnd, Begin, FinishApplicationEnd, BeginJobEnd,
                CallEnds, Surroundings, allVars, busVars, historyVars
  <2>2. QED
    BY <1>1, <2>1
<1>6. QED
  BY <1>1, <1>2, <1>3, <1>4, <1>5 DEF CollectorNext, Bus

\* A stage that is submitted finds an empty buffer, and one that completes leaves one.
LEMMA RecoverSteps ==
  ASSUME L!ListenerInv, L!OnceInv, RecoverInv, [CollectorNext]_allVars
  PROVE  RecoverInv'
<1>1. faults' = faults
  BY ListenerStep, ListenerConstants, L!FaultsStay
<1> SUFFICES ASSUME faults \subseteq {"throw"}
             PROVE  RecoverInv'
  BY <1>1 DEF RecoverInv
<1>2. /\ L!TypeOK /\ L!SparkInv
      /\ \A m \in taskRecords : m.id.stage \in Stages
      /\ \A m \in L!Range(taskMetricsBuffer) : m \in taskRecords
  BY DEF L!ListenerInv, L!TypeOK, L!RecordsInv, L!TaskMetrics, L!TaskIds
<1>3. /\ \A s, t \in Stages : stageState[s] = "running" /\ stageState[t] = "running" => s = t
      /\ \A m \in taskRecords : stageState[m.id.stage] # "waiting"
      /\ ~addThrew =>
           /\ \A m \in taskRecords :
                stageState[m.id.stage] = "running" => m \in L!Range(taskMetricsBuffer)
           /\ \A m \in L!Range(taskMetricsBuffer) : stageState[m.id.stage] = "running"
  BY DEF RecoverInv
<1>4. CASE /\ UNCHANGED <<stageState, taskRecords, taskMetricsBuffer>>
           /\ ~addThrew' => ~addThrew
  BY <1>3, <1>4 DEF RecoverInv
<1>5. ASSUME NEW s \in Stages, StageSubmitted(s)
      PROVE  RecoverInv'
  <2>1. /\ stageState[s] = "waiting" /\ \A t \in Stages : stageState[t] # "running"
        /\ stageState' = [stageState EXCEPT ![s] = "running"]
        /\ UNCHANGED <<taskRecords, taskMetricsBuffer>>
    BY <1>5, SameActions DEF StageSubmitted, L!StageSubmitted, L!listenerVars, L!clientVars
  <2>2. addThrew' = addThrew
    BY <1>5 DEF StageSubmitted, busVars, historyVars
  <2>3. \A t \in Stages : t # s => stageState'[t] = stageState[t]
    BY <1>2, <2>1 DEF L!TypeOK
  <2>4. \A m \in taskRecords : m.id.stage # s /\ stageState'[m.id.stage] \notin {"waiting", "running"}
    BY <1>2, <1>3, <2>1, <2>3
  <2>5. ~addThrew => L!Range(taskMetricsBuffer) = {}
    BY <1>2, <1>3, <2>1
  <2>6. \A t, u \in Stages : stageState'[t] = "running" /\ stageState'[u] = "running" => t = u
    BY <2>1, <2>3
  <2>7. QED
    BY <2>1, <2>2, <2>4, <2>5, <2>6 DEF RecoverInv
<1>6. ASSUME NEW s \in Stages, NEW t \in Tasks, FinishTaskEnd(s, t)
      PROVE  RecoverInv'
  BY <1>2, <1>3, <1>4, <1>6, TaskFinished DEF RecoverInv
<1>7. ASSUME NEW s \in Stages, FinishStageCompleted(s)
      PROVE  RecoverInv'
  <2>1. /\ UNCHANGED taskRecords /\ stageState[s] = "running"
        /\ stageState' = [stageState EXCEPT ![s] = "done"]
        /\ ~addThrew' => L!Range(taskMetricsBuffer') = {}
    BY <1>2, <1>7, StageFinished
  <2>2. \A t \in Stages : stageState'[t] # "running" /\ (stageState'[t] = "waiting" => stageState[t] = "waiting")
    BY <1>2, <1>3, <2>1 DEF L!TypeOK
  <2>3. QED
    BY <1>2, <1>3, <2>1, <2>2 DEF RecoverInv
<1>8. QED
  BY <1>4, <1>5, <1>6, <1>7, QuietSteps

\* The listener's invariants and this one hold in every behaviour.
LEMMA RecoverInvariant == CollectorSpec => [](L!ListenerInv /\ L!OnceInv /\ RecoverInv)
<1>1. CollectorInit => RecoverInv
  <2>1. CollectorInit => taskRecords = {} /\ taskMetricsBuffer = <<>>
                           /\ stageState = [s \in Stages |-> "waiting"]
    BY SameActions DEF CollectorInit, L!Init
  <2>2. QED
    BY <2>1 DEF RecoverInv, L!Range
<1>2. L!ListenerInv /\ L!OnceInv /\ RecoverInv /\ [CollectorNext]_allVars => RecoverInv'
  BY RecoverSteps
<1>3. CollectorSpec => [](L!ListenerInv /\ L!OnceInv)
  BY CollectorImplementsListener, ListenerConstants, L!OnceInvariant, PTL
<1>4. QED
  BY <1>1, <1>2, <1>3, PTL DEF CollectorSpec

\* An exception of add tells on no stage record beyond the next stage that empties the
\* buffer: every other record has all tasks of its stage and no others, for any stages that
\* run one at a time and once and any client.
THEOREM StagesRecovered == CollectorSpec => StagesRecover
<1> DEFINE A == faults \subseteq {"throw"} /\ ~addThrew /\ stageRecords' # stageRecords
                  => Listener!ExactRecord(stageRecords'[Len(stageRecords')])
<1>1. L!ListenerInv /\ RecoverInv /\ [CollectorNext]_allVars => [A]_allVars
  <2> SUFFICES ASSUME L!ListenerInv, RecoverInv, [CollectorNext]_allVars,
                      faults \subseteq {"throw"}, ~addThrew, stageRecords' # stageRecords
               PROVE  Listener!ExactRecord(stageRecords'[Len(stageRecords')])
    OBVIOUS
  <2>1. /\ L!TypeOK /\ L!SparkInv
        /\ \A m \in L!Range(taskMetricsBuffer) : m \in taskRecords /\ m.id.stage \in Stages
    BY DEF L!ListenerInv, L!TypeOK, L!RecordsInv, L!TaskMetrics, L!TaskIds
  <2>2. PICK s \in Stages : FinishStageCompleted(s)
    <3>1. \A s \in Stages : ~StageSubmitted(s)
      BY SameActions DEF StageSubmitted, L!StageSubmitted, L!clientVars
    <3>2. \A s \in Stages, t \in Tasks : ~FinishTaskEnd(s, t)
      BY <2>1, TaskFinished
    <3>3. QED
      BY <3>1, <3>2, QuietSteps
  <2> DEFINE r == L!collectStageCustomMetrics(s)
  <2>3. /\ stageState[s] = "running" /\ taskMetricsBuffer # <<>>
        /\ stageRecords' = Append(stageRecords, r) /\ r \in L!StageMetrics
    BY <2>1, <2>2, StageFinished
  <2>4. \A m \in taskRecords : m.id.stage = s <=> m \in L!Range(taskMetricsBuffer)
    BY <2>1, <2>3 DEF RecoverInv
  <2>5. Head(taskMetricsBuffer) \in L!Range(taskMetricsBuffer)
    BY <2>1, <2>3, ListenerConstants, L!RangeOfSeq DEF L!TypeOK
  <2>6. /\ r.completed = s /\ r.stage = s
        /\ r.tasks = {m \in taskRecords : m.id.stage = s}
    BY <2>1, <2>4, <2>5 DEF L!collectStageCustomMetrics
  <2>7. stageRecords \in Seq(L!StageMetrics)
    BY <2>1 DEF L!TypeOK
  <2> HIDE DEF r
  <2>8. stageRecords'[Len(stageRecords')] = r
    BY <2>3, <2>7, ListenerConstants, L!RangeAppend
  <2>9. QED
    BY <2>6, <2>8 DEF Listener!ExactRecord
<1>2. QED
  BY <1>1, RecoverInvariant, PTL DEF CollectorSpec, StagesRecover
=============================================================================
