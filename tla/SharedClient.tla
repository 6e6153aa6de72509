---------------------------- MODULE SharedClient ----------------------------
(***************************************************************************)
(* ObservabilityClient line by line, with several threads inside: what     *)
(* happens when the appender is referenced by the loggers themselves, as   *)
(* in examples/log4j2.properties, and log4j's synchronous loggers call     *)
(* append on whatever thread logs.  Neither the appender nor the client    *)
(* takes a lock.                                                           *)
(*                                                                         *)
(* A step is one statement, or a run of them that touch no shared state.   *)
(* Statements are atomic here; the unsynchronised ListBuffer of the code   *)
(* can do worse, so that a violation found here is a real one, while a     *)
(* property that holds for several threads would not be.                   *)
(***************************************************************************)
EXTENDS Integers, Sequences, SequencesExt

CONSTANTS
  Threads,          \* threads that log
  BatchSize, BatchTime, MaxRetries, InitialBackoff, MaxBackoff, InitialDelay,
  MaxConnections, CredentialsExpire, Malformed, Wide, RequestLimit,
  MaxRecords, MaxTime

ASSUME SharedAssumption ==
  /\ BatchSize \in Nat /\ BatchTime \in Nat
  /\ MaxRetries \in Nat /\ InitialBackoff \in Nat /\ MaxBackoff \in Nat
  /\ InitialBackoff <= MaxBackoff
  /\ InitialDelay \in Nat /\ MaxConnections \in Nat \ {0}
  /\ CredentialsExpire \in BOOLEAN
  /\ Malformed \subseteq Nat /\ Wide \subseteq Nat /\ RequestLimit \in Nat
  /\ MaxRecords \in Nat /\ MaxTime \in Nat

VARIABLES
  pc,               \* where each thread is: a state of States
  content,          \* the batch each thread has in flight
  raised,           \* why the last add of each thread threw
  buffer, lastFlush, isBackingOff, backOff, retries, context, credentials,
  leased, now, sparkEnv, added, stored

States == {"idle", "check", "map", "sent", "stored", "clear",
           "reset"}

callVars  == <<pc, content, raised>>
retryVars == <<isBackingOff, backOff, retries>>
envVars   == <<now, sparkEnv>>
vars == <<callVars, buffer, lastFlush, retryVars, context, credentials, leased,
          envVars, added, stored>>

ContextFields == {"appName", "appId", "executorId"}

Init ==
  /\ pc = [t \in Threads |-> "idle"]
  /\ content = [t \in Threads |-> <<>>]
  /\ raised = [t \in Threads |-> "none"]
  /\ buffer = <<>>
  /\ lastFlush = InitialDelay
  /\ isBackingOff = FALSE
  /\ backOff = InitialBackoff
  /\ retries = MaxRetries
  /\ context = {}
  /\ credentials = "unresolved"
  /\ leased = 0
  /\ now = 0
  /\ sparkEnv = {}
  /\ added = 0
  /\ stored = {}

GoTo(t, state) == pc' = [pc EXCEPT ![t] = state]

-----------------------------------------------------------------------------
(* add.                                                                    *)

\* buffer += event
AppendEvent(t) ==
  /\ pc[t] = "idle"
  /\ added < MaxRecords
  /\ added' = added + 1
  /\ buffer' = Append(buffer, added + 1)
  /\ GoTo(t, "check")
  /\ UNCHANGED <<content, raised, lastFlush, retryVars, context, credentials,
                 leased, envVars, stored>>

\* Mutant: a full buffer is sent in a retry cycle too.
FlushIsDue_BySize ==
  \/ now - lastFlush - (IF isBackingOff THEN backOff ELSE 0) >= BatchTime
  \/ Len(buffer) >= BatchSize

\* Mutant: the back-off is not waited for.
FlushIsDue_NoBackOff ==
  \/ now - lastFlush >= BatchTime
  \/ ~isBackingOff /\ Len(buffer) >= BatchSize

FlushIsDue ==
  \/ now - lastFlush - (IF isBackingOff THEN backOff ELSE 0) >= BatchTime
  \/ ~isBackingOff /\ Len(buffer) >= BatchSize

CheckDue(t) ==
  /\ pc[t] = "check"
  /\ GoTo(t, IF FlushIsDue THEN "map" ELSE "idle")
  /\ IF FlushIsDue THEN UNCHANGED raised
                   ELSE raised' = [raised EXCEPT ![t] = "none"]
  /\ UNCHANGED <<content, buffer, lastFlush, retryVars, context, credentials,
                 leased, envVars, added, stored>>

-----------------------------------------------------------------------------
(* flushEvents.                                                            *)

\* The records are converted one by one; the conversion may throw.
Convertible(batch) == Range(batch) \cap Malformed = {}

\* val content = buffer.map ..., with the context read again, at the first record,
\* if it is unknown.
MapBuffer(t) ==
  LET entered  == buffer # <<>> /\ Convertible(<<Head(buffer)>>)
      context1 == IF context = ContextFields THEN context ELSE sparkEnv
      known    == entered /\ context1 = ContextFields
  IN  /\ pc[t] = "map"
      /\ context' = IF entered THEN context1 ELSE context
      /\ IF known /\ Convertible(buffer)
           THEN GoTo(t, "sent") /\ content' = [content EXCEPT ![t] = buffer]
           ELSE GoTo(t, "idle") /\ UNCHANGED content
      /\ raised' = [raised EXCEPT ![t] =
                      IF ~Convertible(buffer) /\ (known \/ ~entered)
                        THEN "conversion" ELSE "none"]
      /\ UNCHANGED <<buffer, lastFlush, retryVars, credentials, leased,
                     envVars, added, stored>>

\* Connections in use by other threads count as well as the leaked ones.
Calling(t) == pc[t] \in {"sent", "stored"}

ConnectionFree(t) ==
  leased + Cardinality({u \in Threads \ {t} : Calling(u)}) < MaxConnections

ResolveCredentials ==
  credentials' = IF credentials = "unresolved" THEN "valid" ELSE credentials

\* The request arrives whole, no larger than the pipeline allows.
Acceptable(batch) == Range(batch) \cap Wide = {} /\ Len(batch) <= RequestLimit

PipelineStores(t) ==
  /\ pc[t] = "sent"
  /\ Acceptable(content[t])
  /\ ConnectionFree(t)
  /\ credentials # "expired"
  /\ GoTo(t, "stored")
  /\ stored' = stored \cup Range(content[t])
  /\ ResolveCredentials
  /\ UNCHANGED <<content, raised, buffer, lastFlush, retryVars, context, leased,
                 envVars, added>>

\* Mutant: the answer is not looked at.
SetFlushTime_AnyAnswer(t) ==
  /\ pc[t] \in {"sent", "stored"}
  /\ lastFlush' = now
  /\ GoTo(t, "clear")
  /\ UNCHANGED <<content, raised, buffer, retryVars, context, credentials,
                 leased, envVars, added, stored>>

\* case Success(_) => lastFlush = Instant.now
SetFlushTime(t) ==
  /\ pc[t] = "stored"
  /\ lastFlush' = now
  /\ GoTo(t, "clear")
  /\ UNCHANGED <<content, raised, buffer, retryVars, context, credentials,
                 leased, envVars, added, stored>>

\* buffer.clear()
ClearBuffer(t) ==
  /\ pc[t] = "clear"
  /\ buffer' = <<>>
  /\ GoTo(t, "reset")
  /\ UNCHANGED <<content, raised, lastFlush, retryVars, context, credentials,
                 leased, envVars, added, stored>>

\* if (isBackingOff == true) ...
ResetBackOff(t) ==
  /\ pc[t] = "reset"
  /\ IF isBackingOff
       THEN /\ isBackingOff' = FALSE
            /\ backOff' = InitialBackoff
            /\ retries' = MaxRetries
       ELSE UNCHANGED retryVars
  /\ GoTo(t, "idle")
  /\ content' = [content EXCEPT ![t] = <<>>]
  /\ UNCHANGED <<raised, buffer, lastFlush, context, credentials, leased,
                 envVars, added, stored>>

Lesser(a, b) == IF a <= b THEN a ELSE b

FlushFails(t, retryable, cause) ==
  /\ GoTo(t, "idle")
  /\ content' = [content EXCEPT ![t] = <<>>]
  /\ IF retryable /\ retries > 0
       THEN /\ isBackingOff' = TRUE
            /\ backOff' = Lesser(2 * backOff, MaxBackoff)
            /\ retries' = retries - 1
            /\ UNCHANGED raised
       ELSE /\ raised' = [raised EXCEPT ![t] = IF retryable THEN "exhausted" ELSE cause]
            /\ UNCHANGED retryVars
  /\ UNCHANGED <<buffer, lastFlush, context, envVars, added, stored>>

Rejected(t) ==
  /\ Calling(t)
  /\ ConnectionFree(t)
  /\ leased' \in {leased, leased + 1}
  /\ ResolveCredentials
  /\ FlushFails(t, TRUE, "none")

CallThrows(t) ==
  /\ Calling(t)
  /\ ConnectionFree(t)
  /\ \E retryable \in BOOLEAN : FlushFails(t, retryable, "transport")
  /\ ResolveCredentials
  /\ UNCHANGED leased

PoolTimeout(t) ==
  /\ pc[t] = "sent"
  /\ ~ConnectionFree(t)
  /\ FlushFails(t, FALSE, "pool")
  /\ ResolveCredentials
  /\ UNCHANGED leased

CredentialsError(t) ==
  /\ pc[t] = "sent"
  /\ credentials = "unresolved"
  /\ FlushFails(t, FALSE, "credentials")
  /\ UNCHANGED <<credentials, leased>>

-----------------------------------------------------------------------------
Tick ==
  /\ now < MaxTime
  /\ now' = now + 1
  /\ UNCHANGED <<callVars, buffer, lastFlush, retryVars, context, credentials,
                 leased, sparkEnv, added, stored>>

SparkEnvChanges ==
  /\ \/ /\ sparkEnv # ContextFields
        /\ sparkEnv' \in {sparkEnv \cup {"appName", "executorId"}, ContextFields}
     \/ sparkEnv' = {}
  /\ UNCHANGED <<callVars, buffer, lastFlush, retryVars, context, credentials,
                 leased, now, added, stored>>

ExpireCredentials ==
  /\ CredentialsExpire
  /\ credentials = "valid"
  /\ credentials' = "expired"
  /\ UNCHANGED <<callVars, buffer, lastFlush, retryVars, context, leased,
                 envVars, added, stored>>

Step(t) ==
  \/ AppendEvent(t) \/ CheckDue(t) \/ MapBuffer(t)
  \/ PipelineStores(t) \/ SetFlushTime(t) \/ ClearBuffer(t) \/ ResetBackOff(t)
  \/ Rejected(t) \/ CallThrows(t) \/ PoolTimeout(t) \/ CredentialsError(t)

Next ==
  \/ \E t \in Threads : Step(t)
  \/ Tick \/ SparkEnvChanges \/ ExpireCredentials

Spec == Init /\ [][Next]_vars

-----------------------------------------------------------------------------
\* The comment on flushEvents: after sending the events, it clears the buffer.
\* What is cleared has been sent, so that a record is buffered or stored.
ClearedWereSent == 1..added \subseteq stored \cup Range(buffer)

(* With one thread the statements behave as the atomic actions of           *)
(* CollectorAppender.  An add happens when its flush begins, or when it is  *)
(* found not to be due; a success happens at its first statement.           *)
Only == CHOOSE t \in Threads : TRUE
at == pc[Only]
Adding == at \in {"check", "map"}
Succeeded == at \in {"clear", "reset"}

atomicBuffer  == IF Adding THEN Front(buffer) ELSE IF Succeeded THEN <<>> ELSE buffer
atomicAdded   == IF Adding THEN added - 1 ELSE added
atomicBacking == isBackingOff /\ ~Succeeded
atomicBackOff == IF Succeeded THEN InitialBackoff ELSE backOff
atomicRetries == IF Succeeded THEN MaxRetries ELSE retries
atomicCall    == IF Calling(Only) THEN at ELSE "none"
atomicContent == IF Calling(Only) THEN content[Only] ELSE <<>>
atomicRaised  == raised[Only]

Appender == INSTANCE CollectorAppender WITH
  buffer <- atomicBuffer, added <- atomicAdded,
  isBackingOff <- atomicBacking, backOff <- atomicBackOff, retries <- atomicRetries,
  call <- atomicCall, content <- atomicContent, raised <- atomicRaised

\* A client used by one thread does what its atomic model says, though the clock,
\* SparkEnv and the credentials move between any two of its statements.
RefinesAppender == Appender!AppenderSpec

\* So its retries, too, run out only BatchTime and the final back-off after the
\* last success: a burst of log events in a retry cycle spends none of them early.
ExhaustedAfterSilence == Appender!ExhaustedAfterSilence
=============================================================================
