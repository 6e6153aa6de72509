------------------------ MODULE ObservabilityClient ------------------------
(***************************************************************************)
(* The client that the log appender and the metrics listener share: it     *)
(* batches records, enriches them with the Spark context and posts them to *)
(* an OpenSearch Ingestion pipeline, with an exponential back-off cycle.   *)
(*                                                                         *)
(* One thread at a time calls the client: the dispatcher of log4j's Async  *)
(* appender, or the thread of Spark's listener bus.  A call that sends     *)
(* lasts as long as the HTTP call: the clock, the pipeline, SparkEnv and   *)
(* the credentials move on while it is out.                                *)
(*                                                                         *)
(* A record is its number.  Of its text it matters whether it can be       *)
(* converted to JSON at all, and whether the JSON has characters of more   *)
(* than one byte: the Content-Length of a request counts characters, so    *)
(* that its body then is cut off.                                          *)
(***************************************************************************)
EXTENDS Integers, Sequences, Functions

CONSTANTS
  BatchSize,        \* records that make a batch
  BatchTime,        \* seconds after which a batch is sent though not full
  MaxRetries,       \* MAX_RETRIES
  InitialBackoff,   \* INITIAL_BACKOFF, in seconds
  MaxBackoff,       \* MAX_BACKOFF, in seconds
  InitialDelay,     \* lastFlush starts this many seconds in the future
  MaxConnections,   \* connections of the HTTP client's pool
  CredentialsExpire,\* TRUE for session credentials, FALSE for static keys
  Malformed,        \* records whose conversion to JSON throws
  Wide,             \* records whose JSON has characters of several bytes
  RequestLimit,     \* records that a request the pipeline accepts can hold
  MaxRecords,       \* bound: records added in a behaviour
  MaxTime           \* bound: the clock stops here

ASSUME ClientAssumption ==
  /\ BatchSize \in Nat
  /\ BatchTime \in Nat
  /\ MaxRetries \in Nat
  /\ InitialBackoff \in Nat
  /\ MaxBackoff \in Nat
  /\ InitialBackoff <= MaxBackoff
  /\ InitialDelay \in Nat
  /\ MaxConnections \in Nat \ {0}
  /\ CredentialsExpire \in BOOLEAN
  /\ Malformed \subseteq Nat
  /\ Wide \subseteq Nat
  /\ RequestLimit \in Nat
  /\ MaxRecords \in Nat
  /\ MaxTime \in Nat

VARIABLES
  \* the client object
  buffer,           \* records waiting, oldest first
  lastFlush,        \* time of the last successful flush
  isBackingOff,     \* in a retry cycle
  backOff,          \* current back-off duration
  retries,          \* retries left in the cycle
  context,          \* which of appName, appId, executorId are not UNDEFINED
  credentials,      \* the lazily resolved signing parameters
  leased,           \* pool connections never given back
  \* the call in progress
  call,             \* "none", "sent" (no answer yet) or "stored" (by the pipeline)
  content,          \* the batch in flight
  raised,           \* why the last add or flush threw, "none" if it returned
  \* the environment
  now,              \* the clock, in seconds
  sparkEnv,         \* the context fields SparkEnv.get can provide
  added,            \* records handed to the client so far: 1..added
  stored            \* records the pipeline has stored

retryVars  == <<isBackingOff, backOff, retries>>
callVars   == <<call, content, raised>>
envVars    == <<now, sparkEnv>>
vars == <<buffer, lastFlush, retryVars, context, credentials, leased,
          callVars, envVars, added, stored>>

ContextFields == {"appName", "appId", "executorId"}

Records == 1..added

-----------------------------------------------------------------------------
TypeOK ==
  /\ buffer \in Seq(Nat)
  /\ lastFlush \in Nat
  /\ isBackingOff \in BOOLEAN
  /\ backOff \in InitialBackoff..MaxBackoff
  /\ retries \in 0..MaxRetries
  /\ context \in SUBSET ContextFields
  /\ credentials \in {"unresolved", "valid", "expired"}
  /\ leased \in 0..MaxConnections
  /\ call \in {"none", "sent", "stored"}
  /\ content \in Seq(Nat)
  /\ raised \in {"none", "exhausted", "transport", "pool", "credentials", "conversion"}
  /\ now \in Nat
  /\ sparkEnv \in SUBSET ContextFields
  /\ added \in Nat
  /\ stored \in SUBSET Nat

Init ==
  /\ buffer = <<>>
  /\ lastFlush = InitialDelay
  /\ isBackingOff = FALSE
  /\ backOff = InitialBackoff
  /\ retries = MaxRetries
  /\ context = {}
  /\ credentials = "unresolved"
  /\ leased = 0
  /\ call = "none"
  /\ content = <<>>
  /\ raised = "none"
  /\ now = 0
  /\ sparkEnv = {}
  /\ added = 0
  /\ stored = {}

-----------------------------------------------------------------------------
(* Starting a flush.                                                       *)

\* Mutant: the application id, which Spark sets last, is not waited for.
logContextInitialized_NoAppId(fields) == {"appName", "executorId"} \subseteq fields

logContextInitialized(fields) == fields = ContextFields

\* initLogContext: all three fields are read again from SparkEnv.
contextAtFlush == IF logContextInitialized(context) THEN context ELSE sparkEnv

\* gson and the JSON parser make an object of every record of the batch.
Convertible(batch) == Range(batch) \cap Malformed = {}

\* flushEvents up to the HTTP call, with batch as the buffer: an empty buffer
\* sends nothing.  The context is looked at once the first record is converted:
\* an unknown one is read again and, if it stays unknown, leaves the batch in the
\* buffer.  Then all records are converted; an exception leaves flushEvents.
BeginFlush(batch) ==
  LET entered == batch # <<>> /\ Convertible(<<Head(batch)>>)
      known   == entered /\ logContextInitialized(contextAtFlush)
  IN  /\ context' = IF entered THEN contextAtFlush ELSE context
      /\ IF known /\ Convertible(batch)
           THEN call' = "sent" /\ content' = batch
           ELSE UNCHANGED <<call, content>>
      /\ raised' = IF ~Convertible(batch) /\ (known \/ ~entered)
                     THEN "conversion" ELSE "none"

\* Mutant: the back-off is not waited for.
durationSinceLastFlush_NoBackOff == now - lastFlush

durationSinceLastFlush ==
  now - lastFlush - (IF isBackingOff THEN backOff ELSE 0)

\* Mutant: the batch goes out one record late.
FlushIsDue_OffByOne(size) ==
  \/ durationSinceLastFlush >= BatchTime
  \/ ~isBackingOff /\ size > BatchSize

\* The batch is due: by time alone in a retry cycle, else by size or time.
FlushIsDue(size) ==
  \/ durationSinceLastFlush >= BatchTime
  \/ ~isBackingOff /\ size >= BatchSize

Add ==
  /\ call = "none"
  /\ added < MaxRecords
  /\ added' = added + 1
  /\ buffer' = Append(buffer, added + 1)
  /\ IF FlushIsDue(Len(buffer) + 1)
       THEN BeginFlush(Append(buffer, added + 1))
       ELSE raised' = "none" /\ UNCHANGED <<context, call, content>>
  /\ UNCHANGED <<lastFlush, retryVars, credentials, leased, envVars, stored>>

\* Mutant: an explicit flush is refused in a retry cycle.
FlushEvents_NotBackingOff ==
  /\ call = "none"
  /\ ~isBackingOff
  /\ BeginFlush(buffer)
  /\ UNCHANGED <<buffer, lastFlush, retryVars, credentials, leased, envVars,
                 added, stored>>

\* A flush asked for by the caller: it waits for no back-off.
FlushEvents ==
  /\ call = "none"
  /\ BeginFlush(buffer)
  /\ UNCHANGED <<buffer, lastFlush, retryVars, credentials, leased, envVars,
                 added, stored>>

SetLastFlush ==
  /\ call = "none"
  /\ lastFlush' = now
  /\ UNCHANGED <<buffer, retryVars, context, credentials, leased, callVars,
                 envVars, added, stored>>

-----------------------------------------------------------------------------
(* The HTTP call and its outcomes.                                         *)

\* params is a lazy value: resolved by the first request that is signed.
ResolveCredentials ==
  credentials' = IF credentials = "unresolved" THEN "valid" ELSE credentials

ConnectionFree == leased < MaxConnections

\* A request that arrives whole, no larger than the pipeline allows.
Acceptable(batch) == Range(batch) \cap Wide = {} /\ Len(batch) <= RequestLimit

\* The pipeline takes the request in, whatever becomes of the answer.
PipelineStores ==
  /\ call = "sent"
  /\ Acceptable(content)
  /\ ConnectionFree
  /\ credentials # "expired"
  /\ call' = "stored"
  /\ stored' = stored \cup Range(content)
  /\ ResolveCredentials
  /\ UNCHANGED <<buffer, lastFlush, retryVars, context, leased, content, raised,
                 envVars, added>>

\* Mutant: any answer counts as a success.
StatusOK_AnyAnswer == call # "none"

\* The pipeline answers 200 only for a batch it has taken in.
StatusOK == call = "stored"

\* Mutant: the back-off starts afresh but the retries spent stay spent.
ResetBackOff_KeepRetries ==
  /\ isBackingOff' = FALSE
  /\ backOff' = InitialBackoff
  /\ UNCHANGED retries

ResetBackOff ==
  IF isBackingOff
    THEN /\ isBackingOff' = FALSE
         /\ backOff' = InitialBackoff
         /\ retries' = MaxRetries
    ELSE UNCHANGED retryVars

\* Status 200: the connection is closed and the buffer emptied.
FlushSucceeds ==
  /\ StatusOK
  /\ call' = "none"
  /\ content' = <<>>
  /\ lastFlush' = now
  /\ buffer' = <<>>
  /\ ResetBackOff
  /\ UNCHANGED <<context, credentials, leased, raised, envVars, added, stored>>

\* Mutant: the cap on the back-off becomes a floor.
Lesser_Greater(a, b) == IF a <= b THEN b ELSE a

Lesser(a, b) == IF a <= b THEN a ELSE b

\* The Failure branch of flushEvents: another turn of the retry cycle, or an
\* exception that leaves the buffer and the retry state as they are.
FlushFails(retryable, cause) ==
  /\ call' = "none"
  /\ content' = <<>>
  /\ IF retryable /\ retries > 0
       THEN /\ isBackingOff' = TRUE
            /\ backOff' = Lesser(2 * backOff, MaxBackoff)
            /\ retries' = retries - 1
            /\ UNCHANGED raised
       ELSE /\ raised' = IF retryable THEN "exhausted" ELSE cause
            /\ UNCHANGED retryVars
  /\ UNCHANGED <<buffer, lastFlush, context, envVars, added, stored>>

\* Any other status is retryable.  The answer's body is neither read nor
\* aborted, so its connection stays leased; an answer without a body holds none.
Rejected ==
  /\ call # "none"
  /\ ConnectionFree
  /\ leased' \in {leased, leased + 1}
  /\ ResolveCredentials
  /\ FlushFails(TRUE, "none")

\* The call throws: the message tells a retryable error from the others.
CallThrows ==
  /\ call # "none"
  /\ ConnectionFree
  /\ \E retryable \in BOOLEAN : FlushFails(retryable, "transport")
  /\ ResolveCredentials
  /\ UNCHANGED leased

\* No connection left: the lease times out, which is not a retryable error.
PoolTimeout ==
  /\ call = "sent"
  /\ ~ConnectionFree
  /\ FlushFails(FALSE, "pool")
  /\ ResolveCredentials
  /\ UNCHANGED leased

CredentialsError ==
  /\ call = "sent"
  /\ credentials = "unresolved"
  /\ FlushFails(FALSE, "credentials")
  /\ UNCHANGED <<credentials, leased>>

-----------------------------------------------------------------------------
(* The environment.                                                        *)

Tick ==
  /\ now < MaxTime
  /\ now' = now + 1
  /\ UNCHANGED <<buffer, lastFlush, retryVars, context, credentials, leased,
                 callVars, sparkEnv, added, stored>>

\* A driver creates SparkEnv before it knows the application id, an executor
\* with it; stopping the SparkContext takes SparkEnv away.
SparkEnvChanges ==
  /\ \/ /\ sparkEnv # ContextFields
        /\ sparkEnv' \in {sparkEnv \cup {"appName", "executorId"}, ContextFields}
     \/ sparkEnv' = {}
  /\ UNCHANGED <<buffer, lastFlush, retryVars, context, credentials, leased,
                 callVars, now, added, stored>>

ExpireCredentials ==
  /\ CredentialsExpire
  /\ credentials = "valid"
  /\ credentials' = "expired"
  /\ UNCHANGED <<buffer, lastFlush, retryVars, context, leased, callVars,
                 envVars, added, stored>>

Outcome == FlushSucceeds \/ Rejected \/ CallThrows \/ PoolTimeout \/ CredentialsError

Environment == Tick \/ SparkEnvChanges \/ ExpireCredentials

Next ==
  \/ Add \/ FlushEvents \/ SetLastFlush
  \/ PipelineStores \/ Outcome
  \/ Environment

Spec == Init /\ [][Next]_vars

-----------------------------------------------------------------------------
(* Properties.                                                             *)

\* The buffer holds the newest records in the order they were added, and all
\* older ones are in the pipeline: over any sequence of failed, half-failed
\* (stored, but the answer lost) and successful flushes, clearing the whole
\* buffer on success drops no record that was not part of the batch.
NoRecordLost ==
  /\ \A i \in 1..Len(buffer) : buffer[i] = added - Len(buffer) + i
  /\ 1 .. added - Len(buffer) \subseteq stored

\* No record reaches the pipeline without its application name, application id
\* and executor id, though SparkEnv provides them one after the other and may
\* go away again between the flush that asked and the flush that sends.
StoredAreEnriched == stored # {} => context = ContextFields

\* The three retry variables never drift apart, whatever mix of retryable and
\* non-retryable failures precedes: no retry cycle has all its retries left, and
\* outside of one no retry is missing and no back-off is left over.
RetryStateConsistent ==
  /\ isBackingOff <=> retries < MaxRetries
  /\ ~isBackingOff => backOff = InitialBackoff

\* The earliest time at which an add may send the batch of a retry cycle.
RetryDue == lastFlush + BatchTime + backOff

\* The comment on INITIAL_BACKOFF: it is the initial time to wait before retrying,
\* so the first failure of a cycle puts the retry off by as much.
FirstWaitIsInitial ==
  [][~isBackingOff /\ isBackingOff' => RetryDue' - now = InitialBackoff]_vars

\* Between calls a full batch stays in the buffer only for a reason: a retry
\* cycle, an unknown context, or an exception the caller has been given.
FullBatchIsExplained ==
  call = "none" /\ buffer # <<>> /\ Len(buffer) >= BatchSize =>
    isBackingOff \/ context # ContextFields \/ raised # "none"

\* A retry cycle ends in one way only: every record added so far is stored and
\* the buffer is empty.  Running out of retries does not start a new cycle.
CycleEndsInDelivery ==
  [][retries' > retries => buffer' = <<>> /\ Records \subseteq stored]_vars

\* The comment on retries: an exception is thrown once the remaining retries are
\* used up.  Refused batches alone never end a cycle that has retries left.
RetriesAreUsedUp == raised = "pool" => retries = 0

\* The client implements at-least-once delivery in order.
Delivery == INSTANCE BatchDelivery WITH
  submitted <- added,
  released  <- added - Len(buffer)

RefinesBatchDelivery == Delivery!Spec

\* Fairness for Delivered: jobs keep ending, and each end flushes; an HTTP call
\* ends (the HTTP client times out); and an outage is not for ever, so of
\* acceptable requests sent again and again one is taken in, and of requests
\* taken in again and again one is answered with 200.
FairSpec ==
  /\ Spec
  /\ WF_vars(FlushEvents)
  /\ WF_vars(Outcome)
  /\ SF_vars(PipelineStores)
  /\ SF_vars(FlushSucceeds)

\* Once the context is known, retry cycles, exhausted retries and exceptions
\* only delay a record: it leaves the buffer unless one of the four failures that
\* the client cannot recover from strikes first.  The pool's connections have all
\* leaked; session credentials expired after they were resolved; the buffer, which
\* is only ever sent as a whole, holds a record that cannot be converted; or it
\* makes a request that the pipeline refuses for its length.
Delivered ==
  \A r \in 1..MaxRecords :
    (r \in Range(buffer) /\ context = ContextFields) ~>
      \/ r \notin Range(buffer)
      \/ leased = MaxConnections
      \/ credentials = "expired"
      \/ ~Convertible(buffer)
      \/ ~Acceptable(buffer)
=============================================================================
