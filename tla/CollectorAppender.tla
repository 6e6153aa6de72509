------------------------- MODULE CollectorAppender -------------------------
(***************************************************************************)
(* The log4j appender: every log event is added to its own client, and the *)
(* client is never asked to flush.  The appender overrides neither start   *)
(* nor stop, and owns no timer.                                            *)
(*                                                                         *)
(* This module is the deployment of examples/log4j2.xml and of             *)
(* docker/log4j2.xml: the Async appender's single dispatcher thread calls  *)
(* append, so that one event at a time is in the client, and it survives   *)
(* an exception of append.                                                 *)
(***************************************************************************)
EXTENDS ObservabilityClient

append == Add

AppenderNext == append \/ PipelineStores \/ Outcome \/ Environment

AppenderSpec == Init /\ [][AppenderNext]_vars

\* A pipeline that takes in and acknowledges every batch, and no failures.
HealthyNext ==
  append \/ PipelineStores \/ FlushSucceeds \/ Tick \/ SparkEnvChanges

\* Everything that owns a thread or a clock is fair; new log events are not.
HealthySpec ==
  /\ Init /\ [][HealthyNext]_vars
  /\ WF_vars(Tick)
  /\ WF_vars(PipelineStores)
  /\ WF_vars(FlushSucceeds)

-----------------------------------------------------------------------------
\* 2^n, as n doublings.
PowerOfTwo[n \in 0..MaxRetries] == IF n = 0 THEN 1 ELSE 2 * PowerOfTwo[n - 1]

\* The back-off with every retry spent.
FinalBackOff == Lesser(InitialBackoff * PowerOfTwo[MaxRetries], MaxBackoff)

\* The retries run out only when the last success is BatchTime plus the final
\* back-off in the past.  This counts the silence before the outage as well: it is
\* no bound on how long the outage has lasted.
ExhaustedAfterSilence ==
  [][raised # "exhausted" /\ raised' = "exhausted" =>
       now - lastFlush >= BatchTime + FinalBackOff]_vars

\* README.md on timeThreshold: even if there is no new log, the logs already
\* generated are flushed once the threshold has passed.
Freshness ==
  \A r \in 1..MaxRecords :
    (r \in Range(buffer) /\ context = ContextFields
       /\ now - lastFlush >= BatchTime) ~> r \in stored
=============================================================================
