--------------------- MODULE ObservabilityClientProofs ---------------------
(***************************************************************************)
(* Proofs about ObservabilityClient and the appender on it, for every      *)
(* batch size, retry budget, back-off range, pool size and bound.          *)
(***************************************************************************)
EXTENDS CollectorAppender, InductionLemmas

\* What is known of the call in progress: the batch in flight is the buffer, so
\* that clearing the buffer after a 200 forgets exactly what was sent.
InFlight ==
  call # "none" =>
    /\ content = buffer
    /\ content # <<>>
    /\ context = ContextFields
    /\ call = "stored" => Range(content) \subseteq stored

\* The flag and the counter of the retry cycle agree.
CycleFlag == isBackingOff <=> retries < MaxRetries

\* The inductive invariant.  NoRecordLost alone is not inductive: it needs
\* InFlight to know that an acknowledged batch was the whole buffer, and a
\* buffer no longer than what was added to keep the released prefix in range.
IInv ==
  /\ TypeOK
  /\ Len(buffer) <= added
  /\ NoRecordLost
  /\ InFlight
  /\ CycleFlag
  /\ StoredAreEnriched

-----------------------------------------------------------------------------
\* Two facts about arithmetic the actions need.
LEMMA LesserRange ==
  ASSUME NEW lo \in Nat, NEW hi \in Nat, lo <= hi, NEW b \in lo..hi
  PROVE  Lesser(2 * b, hi) \in lo..hi
  BY DEF Lesser

\* The buffer of a new client.
LEMMA EmptySeqNat == <<>> \in Seq(Nat)
  OBVIOUS

\* A new client has a state of its types.
LEMMA TypeInit == Init => TypeOK
<1> SUFFICES ASSUME Init
             PROVE  TypeOK
  OBVIOUS
<1>1. isBackingOff \in BOOLEAN
  BY Zenon DEF Init
<1>2. /\ lastFlush \in Nat
      /\ backOff \in InitialBackoff..MaxBackoff
      /\ retries \in 0..MaxRetries
      /\ leased \in 0..MaxConnections
      /\ now \in Nat
      /\ added \in Nat
  BY ClientAssumption DEF ClientAssumption, Init
<1>3. buffer \in Seq(Nat) /\ content \in Seq(Nat)
  BY EmptySeqNat DEF Init
<1>4. /\ context \in SUBSET ContextFields
      /\ credentials \in {"unresolved", "valid", "expired"}
      /\ call \in {"none", "sent", "stored"}
      /\ raised \in {"none", "exhausted", "transport", "pool", "credentials", "conversion"}
      /\ sparkEnv \in SUBSET ContextFields
      /\ stored \in SUBSET Nat
  BY DEF Init
<1>5. QED
  BY <1>1, <1>2, <1>3, <1>4 DEF TypeOK

\* The part of TypeOK that starting a flush can disturb.
LEMMA BeginFlushType ==
  ASSUME TypeOK, NEW batch \in Seq(Nat), BeginFlush(batch)
  PROVE  /\ context' \in SUBSET ContextFields
         /\ call' \in {"none", "sent", "stored"}
         /\ content' \in Seq(Nat)
         /\ raised' \in {"none", "conversion"}
  BY DEF TypeOK, BeginFlush, contextAtFlush, logContextInitialized

\* The part of TypeOK that a failed call can disturb.
LEMMA FlushFailsType ==
  ASSUME TypeOK, NEW retryable \in BOOLEAN,
         NEW cause \in {"none", "transport", "pool", "credentials"},
         FlushFails(retryable, cause)
  PROVE  /\ isBackingOff' \in BOOLEAN
         /\ backOff' \in InitialBackoff..MaxBackoff
         /\ retries' \in 0..MaxRetries
         /\ call' = "none"
         /\ content' = <<>>
         /\ raised' \in {"none", "exhausted", "transport", "pool", "credentials", "conversion"}
<1>1. CASE retryable /\ retries > 0
  <2>1. backOff' \in InitialBackoff..MaxBackoff
    BY <1>1, ClientAssumption, LesserRange DEF ClientAssumption, FlushFails, TypeOK
  <2>2. retries' \in 0..MaxRetries
    BY <1>1, ClientAssumption DEF ClientAssumption, FlushFails, TypeOK
  <2>3. QED
    BY <1>1, <2>1, <2>2 DEF FlushFails, TypeOK
<1>2. CASE ~(retryable /\ retries > 0)
  BY <1>2 DEF FlushFails, TypeOK, retryVars
<1>3. QED
  BY <1>1, <1>2

\* Every action keeps the types.
LEMMA TypeStep == TypeOK /\ [Next]_vars => TypeOK'
<1> SUFFICES ASSUME TypeOK, [Next]_vars
             PROVE  TypeOK'
  OBVIOUS
<1> USE ClientAssumption DEF ClientAssumption
<1>1. CASE Add
  <2>1. added' \in Nat /\ buffer' \in Seq(Nat) /\ stored' \in SUBSET Nat
    BY <1>1 DEF Add, TypeOK
  <2>2. /\ context' \in SUBSET ContextFields
        /\ call' \in {"none", "sent", "stored"}
        /\ content' \in Seq(Nat)
        /\ raised' \in {"none", "conversion"}
    <3>1. Append(buffer, added + 1) \in Seq(Nat)
      BY DEF TypeOK
    <3>2. CASE FlushIsDue(Len(buffer) + 1)
      BY <1>1, <3>1, <3>2, BeginFlushType DEF Add
    <3>3. CASE ~FlushIsDue(Len(buffer) + 1)
      BY <1>1, <3>3 DEF Add, TypeOK
    <3>4. QED
      BY <3>2, <3>3
  <2>3. QED
    BY <1>1, <2>1, <2>2 DEF Add, TypeOK, retryVars, envVars
<1>2. CASE FlushEvents
  <2>1. buffer \in Seq(Nat) /\ BeginFlush(buffer)
    BY <1>2 DEF FlushEvents, TypeOK
  <2>2. QED
    BY <1>2, <2>1, BeginFlushType DEF FlushEvents, TypeOK, retryVars, envVars
<1>3. CASE SetLastFlush
  BY <1>3 DEF SetLastFlush, TypeOK, retryVars, callVars, envVars
<1>4. CASE PipelineStores
  <2>1. Range(content) \subseteq Nat
    BY DEF TypeOK, Range
  <2>2. QED
    BY <1>4, <2>1 DEF PipelineStores, ResolveCredentials, TypeOK, retryVars, envVars
<1>5. CASE FlushSucceeds
  <2>1. isBackingOff' \in BOOLEAN
    BY <1>5, Zenon DEF FlushSucceeds, ResetBackOff, TypeOK, retryVars
  <2>2. /\ backOff' \in InitialBackoff..MaxBackoff
        /\ retries' \in 0..MaxRetries
    BY <1>5 DEF FlushSucceeds, ResetBackOff, TypeOK, retryVars
  <2>3. lastFlush' \in Nat /\ buffer' \in Seq(Nat) /\ content' \in Seq(Nat)
    BY <1>5, EmptySeqNat DEF FlushSucceeds, TypeOK
  <2>4. QED
    BY <1>5, <2>1, <2>2, <2>3 DEF FlushSucceeds, TypeOK, envVars
<1>6. CASE Rejected
  <2>1. FlushFails(TRUE, "none")
    BY <1>6 DEF Rejected
  <2>2. leased' \in 0..MaxConnections
    BY <1>6 DEF Rejected, ConnectionFree, TypeOK
  <2>3. QED
    BY <1>6, <2>1, <2>2, FlushFailsType, EmptySeqNat
    DEF Rejected, ResolveCredentials, FlushFails, TypeOK, envVars
<1>7. CASE CallThrows
  <2>1. PICK retryable \in BOOLEAN : FlushFails(retryable, "transport")
    BY <1>7 DEF CallThrows
  <2>2. QED
    BY <1>7, <2>1, FlushFailsType, EmptySeqNat
    DEF CallThrows, ResolveCredentials, FlushFails, TypeOK, envVars
<1>8. CASE PoolTimeout
  <2>1. FlushFails(FALSE, "pool")
    BY <1>8 DEF PoolTimeout
  <2>2. QED
    BY <1>8, <2>1, FlushFailsType, EmptySeqNat
    DEF PoolTimeout, ResolveCredentials, FlushFails, TypeOK, envVars
<1>9. CASE CredentialsError
  <2>1. FlushFails(FALSE, "credentials")
    BY <1>9 DEF CredentialsError
  <2>2. QED
    BY <1>9, <2>1, FlushFailsType, EmptySeqNat
    DEF CredentialsError, FlushFails, TypeOK, envVars
<1>10. CASE Tick
  BY <1>10 DEF Tick, TypeOK, retryVars, callVars
<1>11. CASE SparkEnvChanges
  BY <1>11 DEF SparkEnvChanges, TypeOK, ContextFields, retryVars, callVars
<1>12. CASE ExpireCredentials
  BY <1>12 DEF ExpireCredentials, TypeOK, retryVars, callVars, envVars
<1>13. CASE UNCHANGED vars
  BY <1>13 DEF vars, TypeOK, retryVars, callVars, envVars
<1>14. QED
  BY <1>1, <1>2, <1>3, <1>4, <1>5, <1>6, <1>7, <1>8, <1>9, <1>10, <1>11,
     <1>12, <1>13 DEF Next, Outcome, Environment

\* Every variable keeps its range: in particular the back-off stays between its
\* initial value and its cap, the retries never go below zero, and no more
\* connections leak than the pool has.
THEOREM TypeCorrect == Spec => []TypeOK
<1>1. Init => TypeOK
  BY TypeInit
<1>2. TypeOK /\ [Next]_vars => TypeOK'
  BY TypeStep
<1>3. QED
  BY <1>1, <1>2, PTL DEF Spec

-----------------------------------------------------------------------------
(* The inductive invariant.                                                *)

\* A new client has no call out and no retry spent.
LEMMA IInvInit == Init => IInv
<1> SUFFICES ASSUME Init
             PROVE  IInv
  OBVIOUS
<1>1. TypeOK
  BY TypeInit
<1>2. Len(buffer) <= added /\ NoRecordLost
  BY DEF Init, NoRecordLost
<1>3. InFlight /\ StoredAreEnriched
  BY DEF Init, InFlight, StoredAreEnriched
<1>4. ~(retries < MaxRetries)
  BY ClientAssumption DEF ClientAssumption, Init
<1>5. CycleFlag
  BY <1>4, Zenon DEF Init, CycleFlag
<1>6. QED
  BY <1>1, <1>2, <1>3, <1>5 DEF IInv

\* A failed call leaves the buffer, the context and the pipeline alone and ends
\* the call; whichever branch it takes, flag and counter stay in agreement.
LEMMA FlushFailsIInv ==
  ASSUME IInv, NEW retryable \in BOOLEAN, NEW cause, FlushFails(retryable, cause)
  PROVE  /\ Len(buffer') <= added'
         /\ NoRecordLost'
         /\ InFlight'
         /\ CycleFlag'
         /\ StoredAreEnriched'
<1>1. Len(buffer') <= added' /\ NoRecordLost'
  BY DEF IInv, FlushFails, NoRecordLost
<1>2. InFlight' /\ StoredAreEnriched'
  BY DEF IInv, FlushFails, InFlight, StoredAreEnriched
<1>3. CASE retryable /\ retries > 0
  <2>1. retries' < MaxRetries
    BY <1>3, ClientAssumption DEF ClientAssumption, IInv, TypeOK, FlushFails
  <2>2. isBackingOff'
    BY <1>3 DEF FlushFails
  <2>3. QED
    BY <1>1, <1>2, <2>1, <2>2 DEF CycleFlag
<1>4. CASE ~(retryable /\ retries > 0)
  BY <1>1, <1>2, <1>4 DEF IInv, FlushFails, CycleFlag, retryVars
<1>5. QED
  BY <1>3, <1>4

\* A batch that can be converted starts with a record that can.
LEMMA HeadConverts ==
  ASSUME NEW batch \in Seq(Nat), batch # <<>>, Convertible(batch)
  PROVE  Convertible(<<Head(batch)>>)
<1>1. Head(batch) \in Range(batch)
  BY DEF Range
<1>2. Range(<<Head(batch)>>) = {Head(batch)}
  BY DEF Range
<1>3. QED
  BY <1>1, <1>2 DEF Convertible

\* What a flush that begins with batch does to the call and the context.
LEMMA BeginFlushIInv ==
  ASSUME IInv, call = "none", NEW batch, BeginFlush(batch), buffer' = batch,
         UNCHANGED stored
  PROVE  InFlight' /\ StoredAreEnriched'
<1>1. InFlight'
  BY DEF IInv, BeginFlush, InFlight, logContextInitialized
<1>2. StoredAreEnriched'
  BY DEF IInv, BeginFlush, StoredAreEnriched, contextAtFlush, logContextInitialized
<1>3. QED
  BY <1>1, <1>2

\* A batch answered with 200 is the whole buffer, so that all records are stored.
LEMMA SuccessStoresAll == IInv /\ FlushSucceeds => Records \subseteq stored
<1> SUFFICES ASSUME IInv, FlushSucceeds, NEW r \in 1..added
             PROVE  r \in stored
  BY DEF Records
<1>1. Range(buffer) \subseteq stored
  BY DEF FlushSucceeds, StatusOK, IInv, InFlight
<1>2. Len(buffer) \in Nat /\ DOMAIN buffer = 1..Len(buffer) /\ added \in Nat
  BY DEF IInv, TypeOK
<1>3. CASE r <= added - Len(buffer)
  BY <1>2, <1>3 DEF IInv, NoRecordLost
<1>4. CASE r > added - Len(buffer)
  <2>1. PICK i \in 1..Len(buffer) : r = added - Len(buffer) + i
    <3>1. r - (added - Len(buffer)) \in 1..Len(buffer)
      BY <1>2, <1>4
    <3>2. r = added - Len(buffer) + (r - (added - Len(buffer)))
      BY <1>2
    <3>3. QED
      BY <3>1, <3>2
  <2>2. buffer[i] = r
    BY <2>1 DEF IInv, NoRecordLost
  <2>3. QED
    BY <1>1, <1>2, <2>2 DEF Range
<1>5. QED
  BY <1>2, <1>3, <1>4

\* Every action keeps the inductive invariant.
LEMMA IInvStep == IInv /\ [Next]_vars => IInv'
<1> SUFFICES ASSUME IInv, [Next]_vars
             PROVE  IInv'
  OBVIOUS
<1>0. TypeOK'
  BY TypeStep DEF IInv
<1>1. CASE Add
  <2>1. /\ buffer' = Append(buffer, added + 1)
        /\ added' = added + 1
        /\ stored' = stored
        /\ call = "none"
        /\ UNCHANGED retryVars
    BY <1>1 DEF Add
  <2>2. Len(buffer') <= added' /\ NoRecordLost'
    <3>1. /\ Len(buffer') = Len(buffer) + 1
          /\ \A i \in 1..Len(buffer) : buffer'[i] = buffer[i]
          /\ buffer'[Len(buffer) + 1] = added + 1
      BY <2>1 DEF IInv, TypeOK
    <3>2. Len(buffer) \in Nat /\ added \in Nat
      BY DEF IInv, TypeOK
    <3>3. QED
      BY <2>1, <3>1, <3>2 DEF IInv, NoRecordLost
  <2>3. InFlight' /\ StoredAreEnriched'
    <3>1. CASE FlushIsDue(Len(buffer) + 1)
      BY <1>1, <2>1, <3>1, BeginFlushIInv DEF Add
    <3>2. CASE ~FlushIsDue(Len(buffer) + 1)
      BY <1>1, <2>1, <3>2 DEF Add, IInv, InFlight, StoredAreEnriched
    <3>3. QED
      BY <3>1, <3>2
  <2>4. CycleFlag'
    BY <2>1 DEF IInv, CycleFlag, retryVars
  <2>5. QED
    BY <1>0, <2>2, <2>3, <2>4 DEF IInv
<1>2. CASE FlushEvents
  <2>1. InFlight' /\ StoredAreEnriched'
    BY <1>2, BeginFlushIInv DEF FlushEvents
  <2>2. QED
    BY <1>0, <1>2, <2>1 DEF FlushEvents, IInv, NoRecordLost, CycleFlag, retryVars
<1>3. CASE SetLastFlush
  BY <1>0, <1>3 DEF SetLastFlush, IInv, NoRecordLost, InFlight, CycleFlag,
                    StoredAreEnriched, retryVars, callVars
<1>4. CASE PipelineStores
  <2>1. NoRecordLost' /\ Len(buffer') <= added'
    BY <1>4 DEF PipelineStores, IInv, NoRecordLost
  <2>2. InFlight' /\ StoredAreEnriched'
    BY <1>4 DEF PipelineStores, IInv, InFlight, StoredAreEnriched
  <2>3. QED
    BY <1>0, <1>4, <2>1, <2>2 DEF PipelineStores, IInv, CycleFlag, retryVars
<1>5. CASE FlushSucceeds
  <2>1. 1..added \subseteq stored
    BY <1>5, SuccessStoresAll DEF Records
  <2>2. Len(buffer') <= added' /\ NoRecordLost'
    BY <1>5, <2>1 DEF FlushSucceeds, IInv, TypeOK, NoRecordLost
  <2>3. InFlight' /\ StoredAreEnriched'
    BY <1>5 DEF FlushSucceeds, IInv, InFlight, StoredAreEnriched
  <2>4. CycleFlag'
    <3>1. CASE isBackingOff
      <4>1. ~isBackingOff' /\ ~(retries' < MaxRetries)
        BY <1>5, <3>1, ClientAssumption
        DEF ClientAssumption, FlushSucceeds, ResetBackOff
      <4>2. QED
        BY <4>1 DEF CycleFlag
    <3>2. CASE ~isBackingOff
      BY <1>5, <3>2 DEF FlushSucceeds, ResetBackOff, IInv, CycleFlag, retryVars
    <3>3. QED
      BY <3>1, <3>2
  <2>5. QED
    BY <1>0, <2>2, <2>3, <2>4 DEF IInv
<1>6. CASE Rejected
  <2>1. FlushFails(TRUE, "none")
    BY <1>6 DEF Rejected
  <2>2. QED
    BY <1>0, <2>1, FlushFailsIInv DEF IInv
<1>7. CASE CallThrows
  <2>1. PICK retryable \in BOOLEAN : FlushFails(retryable, "transport")
    BY <1>7 DEF CallThrows
  <2>2. QED
    BY <1>0, <2>1, FlushFailsIInv DEF IInv
<1>8. CASE PoolTimeout
  <2>1. FlushFails(FALSE, "pool")
    BY <1>8 DEF PoolTimeout
  <2>2. QED
    BY <1>0, <2>1, FlushFailsIInv DEF IInv
<1>9. CASE CredentialsError
  <2>1. FlushFails(FALSE, "credentials")
    BY <1>9 DEF CredentialsError
  <2>2. QED
    BY <1>0, <2>1, FlushFailsIInv DEF IInv
<1>10. CASE Environment \/ UNCHANGED vars
  <2>1. UNCHANGED <<buffer, added, stored, call, content, context, isBackingOff, retries>>
    BY <1>10 DEF Environment, Tick, SparkEnvChanges, ExpireCredentials, vars,
                 retryVars, callVars
  <2>2. QED
    BY <1>0, <2>1 DEF IInv, NoRecordLost, InFlight, CycleFlag, StoredAreEnriched
<1>11. QED
  BY <1>1, <1>2, <1>3, <1>4, <1>5, <1>6, <1>7, <1>8, <1>9, <1>10 DEF Next, Outcome

\* The inductive invariant holds in every behaviour.
LEMMA IInvAlways == Spec => []IInv
  BY IInvInit, IInvStep, PTL DEF Spec

\* No record is lost: in every behaviour, whatever fails and however often, the
\* client holds or the pipeline has stored every record ever added.
THEOREM NothingIsLost == Spec => []NoRecordLost
<1>1. IInv => NoRecordLost
  BY DEF IInv
<1>2. QED
  BY <1>1, IInvAlways, PTL

\* Every stored record was sent with its application name, id and executor id.
THEOREM Enriched == Spec => []StoredAreEnriched
<1>1. IInv => StoredAreEnriched
  BY DEF IInv
<1>2. QED
  BY <1>1, IInvAlways, PTL

-----------------------------------------------------------------------------
(* A full batch that waits, and the end of a retry cycle.                  *)

\* A flush that sends nothing has thrown, or does not know the context.
LEMMA BeginFlushExplained ==
  ASSUME NEW batch \in Seq(Nat), batch # <<>>, BeginFlush(batch),
         call = "none", call' = "none"
  PROVE  context' # ContextFields \/ raised' # "none"
<1>1. CASE Convertible(batch)
  BY <1>1, HeadConverts DEF BeginFlush, contextAtFlush, logContextInitialized
<1>2. CASE ~Convertible(batch)
  BY <1>2 DEF BeginFlush, contextAtFlush, logContextInitialized
<1>3. QED
  BY <1>1, <1>2

\* Every action explains the full batch it leaves behind.
LEMMA FullBatchStep ==
  IInv /\ FullBatchIsExplained /\ [Next]_vars => FullBatchIsExplained'
<1> SUFFICES ASSUME IInv, FullBatchIsExplained, [Next]_vars,
                    call' = "none", buffer' # <<>>, Len(buffer') >= BatchSize
             PROVE  isBackingOff' \/ context' # ContextFields \/ raised' # "none"
  BY DEF FullBatchIsExplained
<1> USE ClientAssumption DEF ClientAssumption
<1>1. CASE Add
  <2>1. Len(buffer') = Len(buffer) + 1 /\ isBackingOff' = isBackingOff
    BY <1>1 DEF Add, IInv, TypeOK, retryVars
  <2>2. CASE ~isBackingOff
    <3>1. FlushIsDue(Len(buffer) + 1)
      BY <2>1, <2>2 DEF FlushIsDue
    <3>2. BeginFlush(Append(buffer, added + 1)) /\ Append(buffer, added + 1) # <<>>
      BY <1>1, <3>1 DEF Add, IInv, TypeOK
    <3>3. Append(buffer, added + 1) \in Seq(Nat) /\ call = "none"
      BY <1>1 DEF Add, IInv, TypeOK
    <3>4. QED
      BY <3>2, <3>3, BeginFlushExplained
  <2>3. QED
    BY <2>1, <2>2
<1>2. CASE FlushEvents
  <2>1. BeginFlush(buffer) /\ buffer # <<>> /\ buffer \in Seq(Nat) /\ call = "none"
    BY <1>2 DEF FlushEvents, IInv, TypeOK
  <2>2. QED
    BY <2>1, BeginFlushExplained
<1>3. CASE SetLastFlush
  BY <1>3 DEF SetLastFlush, FullBatchIsExplained, retryVars, callVars
<1>4. CASE PipelineStores
  BY <1>4 DEF PipelineStores
<1>5. CASE FlushSucceeds
  BY <1>5 DEF FlushSucceeds
<1>6. ASSUME NEW retryable \in BOOLEAN, NEW cause, cause # "none" \/ retryable,
             FlushFails(retryable, cause)
      PROVE  isBackingOff' \/ raised' # "none"
  BY <1>6 DEF FlushFails
<1>7. CASE Rejected
  <2>1. FlushFails(TRUE, "none")
    BY <1>7 DEF Rejected
  <2>2. QED
    BY <1>6, <2>1
<1>8. CASE CallThrows
  <2>1. PICK retryable \in BOOLEAN : FlushFails(retryable, "transport")
    BY <1>8 DEF CallThrows
  <2>2. QED
    BY <1>6, <2>1
<1>9. CASE PoolTimeout
  <2>1. FlushFails(FALSE, "pool")
    BY <1>9 DEF PoolTimeout
  <2>2. QED
    BY <1>6, <2>1
<1>10. CASE CredentialsError
  <2>1. FlushFails(FALSE, "credentials")
    BY <1>10 DEF CredentialsError
  <2>2. QED
    BY <1>6, <2>1
<1>11. CASE Environment \/ UNCHANGED vars
  <2>1. UNCHANGED <<buffer, call, context, isBackingOff, raised>>
    BY <1>11 DEF Environment, Tick, SparkEnvChanges, ExpireCredentials, vars,
                 retryVars, callVars
  <2>2. QED
    BY <2>1 DEF FullBatchIsExplained
<1>12. QED
  BY <1>1, <1>2, <1>3, <1>4, <1>5, <1>7, <1>8, <1>9, <1>10, <1>11 DEF Next, Outcome

\* A full batch stays in the buffer only in a retry cycle, for want of a context
\* or after an exception: for every batch size, time threshold and clock.
THEOREM FullBatch == Spec => []FullBatchIsExplained
<1>1. Init => FullBatchIsExplained
  BY ClientAssumption DEF ClientAssumption, Init, FullBatchIsExplained
<1>2. QED
  BY <1>1, FullBatchStep, IInvAlways, PTL DEF Spec

\* A retry cycle ends only with everything delivered, whatever its length.
THEOREM CycleEnds == Spec => CycleEndsInDelivery
<1> DEFINE Step == retries' > retries => buffer' = <<>> /\ Records \subseteq stored
<1>1. ASSUME IInv, [Next]_vars
      PROVE  Step
  <2> USE ClientAssumption DEF ClientAssumption
  <2>1. CASE FlushSucceeds
    BY <1>1, <2>1, SuccessStoresAll DEF FlushSucceeds
  <2>2. ASSUME NEW retryable, NEW cause, FlushFails(retryable, cause)
        PROVE  Step
    BY <1>1, <2>2 DEF FlushFails, IInv, TypeOK, retryVars
  <2>3. CASE Rejected \/ CallThrows \/ PoolTimeout \/ CredentialsError
    BY <2>2, <2>3 DEF Rejected, CallThrows, PoolTimeout, CredentialsError
  <2>4. CASE ~(Outcome)
    <3>1. retries' = retries
      BY <1>1, <2>4 DEF Next, Add, FlushEvents, SetLastFlush, PipelineStores,
         Environment, Tick, SparkEnvChanges, ExpireCredentials, vars, retryVars
    <3>2. QED
      BY <1>1, <3>1 DEF IInv, TypeOK
  <2>5. QED
    BY <2>1, <2>3, <2>4 DEF Outcome
<1>2. IInv /\ [Next]_vars => [Step]_vars
  BY <1>1
<1>3. QED
  BY <1>2, IInvAlways, PTL DEF Spec, CycleEndsInDelivery

-----------------------------------------------------------------------------
(* The schedule of the back-off.                                           *)

\* The doublings satisfy their recursive definition.
LEMMA PowerOfTwoDoubles ==
  /\ PowerOfTwo \in [0..MaxRetries -> Nat]
  /\ PowerOfTwo[0] = 1
  /\ \A n \in 0..MaxRetries : n + 1 \in 0..MaxRetries => PowerOfTwo[n + 1] = 2 * PowerOfTwo[n]
<1> USE ClientAssumption DEF ClientAssumption
<1> DEFINE Doubles(f) == f = [n \in 0..MaxRetries |-> IF n = 0 THEN 1 ELSE 2 * f[n - 1]]
<1>1. PICK f \in [0..MaxRetries -> Nat] : Doubles(f)
  <2> DEFINE double == [m \in Nat |-> 2 * m]
  <2>1. double \in [Nat -> Nat]
    OBVIOUS
  <2>2. PICK f \in [0..MaxRetries -> Nat] : IsIteration(f, 1, double, MaxRetries)
    <3> HIDE DEF double
    <3>1. QED
      BY <2>1, IterationExists
  <2>3. ASSUME NEW n \in 0..MaxRetries
        PROVE  f[n] = IF n = 0 THEN 1 ELSE 2 * f[n - 1]
    <3>1. CASE n = 0
      BY <2>2, <3>1 DEF IsIteration
    <3>2. CASE n # 0
      <4>1. n - 1 \in 0..MaxRetries
        BY <3>2
      <4>2. f[n] = double[f[n - 1]] /\ f[n - 1] \in Nat
        BY <2>2, <3>2, <4>1 DEF IsIteration
      <4>3. QED
        BY <3>2, <4>2
    <3>3. QED
      BY <3>1, <3>2
  <2>4. Doubles(f)
    <3>1. f = [n \in 0..MaxRetries |-> f[n]]
      BY <2>2
    <3>2. QED
      BY <2>3, <3>1
  <2>5. QED
    BY <2>4
<1>2. Doubles(PowerOfTwo)
  BY <1>1 DEF PowerOfTwo
<1>3. PowerOfTwo[0] = 1
  BY <1>2
<1>4. ASSUME NEW n \in 0..MaxRetries, n + 1 \in 0..MaxRetries
      PROVE  PowerOfTwo[n + 1] = 2 * PowerOfTwo[n]
  <2>1. n + 1 # 0 /\ (n + 1) - 1 = n
    OBVIOUS
  <2>2. QED
    BY <1>2, <1>4, <2>1
<1>5. PowerOfTwo \in [0..MaxRetries -> Nat]
  <2> DEFINE Good == {n \in Nat : n <= MaxRetries => PowerOfTwo[n] \in Nat}
  <2>1. 0 \in Good
    BY <1>3
  <2>2. ASSUME NEW n \in Nat, n \in Good
        PROVE  n + 1 \in Good
    <3>1. ASSUME n + 1 <= MaxRetries
          PROVE  PowerOfTwo[n + 1] \in Nat
      <4>1. n \in 0..MaxRetries /\ n + 1 \in 0..MaxRetries /\ PowerOfTwo[n] \in Nat
        BY <2>2, <3>1
      <4>2. PowerOfTwo[n + 1] = 2 * PowerOfTwo[n]
        BY <1>4, <4>1
      <4>3. QED
        BY <4>1, <4>2
    <3>2. QED
      BY <3>1
  <2>3. Nat \subseteq Good
    <3> HIDE DEF Good
    <3>1. QED
      BY <2>1, <2>2, ClosedUnderSuccessor
  <2>4. \A n \in 0..MaxRetries : PowerOfTwo[n] \in Nat
    BY <2>3
  <2>5. PowerOfTwo = [n \in 0..MaxRetries |-> PowerOfTwo[n]]
    BY <1>2
  <2>6. QED
    BY <2>4, <2>5
<1>6. QED
  BY <1>3, <1>4, <1>5

\* The back-off is the initial one doubled once per retry spent, capped.
BackOffSchedule ==
  backOff = Lesser(InitialBackoff * PowerOfTwo[MaxRetries - retries], MaxBackoff)

\* Doubling what is capped and capping it again caps the double.
LEMMA CappedDouble ==
  ASSUME NEW a \in Nat, NEW cap \in Nat
  PROVE  Lesser(2 * Lesser(a, cap), cap) = Lesser(2 * a, cap)
  BY DEF Lesser

\* A new client has the initial back-off.
LEMMA ScheduleInit == Init => BackOffSchedule
<1> SUFFICES ASSUME Init
             PROVE  BackOffSchedule
  OBVIOUS
<1>1. backOff = InitialBackoff /\ MaxRetries - retries = 0
  BY ClientAssumption DEF ClientAssumption, Init
<1>2. InitialBackoff * PowerOfTwo[0] = InitialBackoff
  BY ClientAssumption, PowerOfTwoDoubles DEF ClientAssumption
<1>3. QED
  BY <1>1, <1>2, ClientAssumption DEF ClientAssumption, BackOffSchedule, Lesser

\* A failed call spends a retry and doubles the back-off, or does neither.
LEMMA FlushFailsSchedule ==
  ASSUME TypeOK, BackOffSchedule, NEW retryable, NEW cause, FlushFails(retryable, cause)
  PROVE  BackOffSchedule'
<1> USE ClientAssumption DEF ClientAssumption
<1>1. CASE retryable /\ retries > 0
  <2>1. backOff' = Lesser(2 * backOff, MaxBackoff) /\ retries' = retries - 1
    BY <1>1 DEF FlushFails
  <2>2. PICK k \in 0..MaxRetries : k = MaxRetries - retries
    BY DEF TypeOK
  <2>3. k + 1 \in 0..MaxRetries /\ MaxRetries - retries' = k + 1
    BY <1>1, <2>1, <2>2 DEF TypeOK
  <2>4. PICK p \in Nat : p = PowerOfTwo[k]
    BY PowerOfTwoDoubles
  <2>5. PowerOfTwo[k + 1] = 2 * p
    BY <2>3, <2>4, PowerOfTwoDoubles
  <2>6. backOff = Lesser(InitialBackoff * p, MaxBackoff)
    BY <2>2, <2>4 DEF BackOffSchedule
  <2>7. InitialBackoff * p \in Nat /\ InitialBackoff * (2 * p) = 2 * (InitialBackoff * p)
    OBVIOUS
  <2>8. backOff' = Lesser(InitialBackoff * (2 * p), MaxBackoff)
    BY <2>1, <2>6, <2>7, CappedDouble
  <2>9. QED
    BY <2>3, <2>5, <2>8 DEF BackOffSchedule
<1>2. CASE ~(retryable /\ retries > 0)
  BY <1>2 DEF FlushFails, BackOffSchedule, retryVars
<1>3. QED
  BY <1>1, <1>2

\* Every action keeps to the schedule.
LEMMA ScheduleStep == IInv /\ BackOffSchedule /\ [Next]_vars => BackOffSchedule'
<1> SUFFICES ASSUME IInv, BackOffSchedule, [Next]_vars
             PROVE  BackOffSchedule'
  OBVIOUS
<1>0. TypeOK
  BY DEF IInv
<1>1. CASE Rejected \/ CallThrows \/ PoolTimeout \/ CredentialsError
  BY <1>0, <1>1, FlushFailsSchedule DEF Rejected, CallThrows, PoolTimeout, CredentialsError
<1>2. CASE FlushSucceeds
  <2>1. CASE isBackingOff
    <3>1. backOff' = InitialBackoff /\ MaxRetries - retries' = 0
      BY <1>2, <2>1, ClientAssumption DEF ClientAssumption, FlushSucceeds, ResetBackOff
    <3>2. InitialBackoff * PowerOfTwo[0] = InitialBackoff
      BY ClientAssumption, PowerOfTwoDoubles DEF ClientAssumption
    <3>3. QED
      BY <3>1, <3>2, ClientAssumption DEF ClientAssumption, BackOffSchedule, Lesser
  <2>2. CASE ~isBackingOff
    BY <1>2, <2>2 DEF FlushSucceeds, ResetBackOff, BackOffSchedule, retryVars
  <2>3. QED
    BY <2>1, <2>2
<1>3. CASE ~Outcome
  <2>1. UNCHANGED <<backOff, retries>>
    BY <1>3 DEF Next, Add, FlushEvents, SetLastFlush, PipelineStores,
       Environment, Tick, SparkEnvChanges, ExpireCredentials, vars, retryVars
  <2>2. QED
    BY <2>1 DEF BackOffSchedule
<1>4. QED
  BY <1>1, <1>2, <1>3 DEF Outcome

\* The retry variables never drift apart: a retry cycle has spent a retry, and outside of
\* one the back-off is the initial one, for any number of retries.
THEOREM RetryState == Spec => []RetryStateConsistent
<1>1. ASSUME IInv, BackOffSchedule
      PROVE  RetryStateConsistent
  <2>1. ASSUME ~isBackingOff
        PROVE  backOff = InitialBackoff
    <3>1. MaxRetries - retries = 0
      BY <1>1, <2>1, ClientAssumption DEF ClientAssumption, IInv, TypeOK, CycleFlag
    <3>2. InitialBackoff * PowerOfTwo[0] = InitialBackoff
      BY ClientAssumption, PowerOfTwoDoubles DEF ClientAssumption
    <3>3. QED
      BY <1>1, <3>1, <3>2, ClientAssumption DEF ClientAssumption, BackOffSchedule, Lesser
  <2>2. QED
    BY <1>1, <2>1 DEF IInv, CycleFlag, RetryStateConsistent
<1>2. QED
  BY <1>1, ScheduleInit, ScheduleStep, IInvAlways, PTL DEF Spec

-----------------------------------------------------------------------------
(* Refinement of the abstract delivery.                                    *)

\* A new client has submitted and released nothing.
LEMMA RefinesInit == Init => Delivery!Init
<1> SUFFICES ASSUME Init
             PROVE  Delivery!Init
  OBVIOUS
<1>1. added = 0 /\ stored = {} /\ Len(buffer) = 0
  BY DEF Init
<1>2. added - Len(buffer) = 0
  BY <1>1
<1>3. QED
  BY <1>1, <1>2 DEF Delivery!Init

\* Every action is a step of BatchDelivery or a stutter.
LEMMA RefinesStep == IInv /\ IInv' /\ [Next]_vars => [Delivery!Next]_(Delivery!vars)
<1> SUFFICES ASSUME IInv, IInv', [Next]_vars
             PROVE  [Delivery!Next]_(Delivery!vars)
  OBVIOUS
<1>0. Len(buffer) \in Nat /\ Len(buffer) <= added /\ added \in Nat
  BY DEF IInv, TypeOK
<1>1. CASE Add
  <2>1. added' - Len(buffer') = added - Len(buffer)
    BY <1>0, <1>1 DEF Add, IInv, TypeOK
  <2>2. Delivery!Submit
    BY <1>1, <2>1 DEF Add, Delivery!Submit
  <2>3. QED
    BY <2>2 DEF Delivery!Next
<1>2. CASE PipelineStores
  <2>1. Range(content) = (added - Len(buffer)) + 1 .. added
    <3>1. content = buffer /\ DOMAIN buffer = 1..Len(buffer)
      BY <1>2 DEF PipelineStores, IInv, InFlight, TypeOK
    <3>2. \A i \in 1..Len(buffer) : buffer[i] = added - Len(buffer) + i
      BY DEF IInv, NoRecordLost
    <3>3. ASSUME NEW r \in (added - Len(buffer)) + 1 .. added
          PROVE  r \in Range(content)
      <4>1. r - (added - Len(buffer)) \in 1..Len(buffer)
        BY <1>0
      <4>2. r = buffer[r - (added - Len(buffer))]
        BY <1>0, <3>2, <4>1
      <4>3. QED
        BY <3>1, <4>1, <4>2 DEF Range
    <3>4. ASSUME NEW i \in 1..Len(buffer)
          PROVE  buffer[i] \in (added - Len(buffer)) + 1 .. added
      BY <1>0, <3>2
    <3>5. QED
      BY <3>1, <3>3, <3>4 DEF Range
  <2>2. added \in (added - Len(buffer)) + 1 .. added
    <3>1. buffer # <<>>
      BY <1>2 DEF PipelineStores, IInv, InFlight
    <3>2. Len(buffer) > 0
      BY <1>0, <3>1 DEF IInv, TypeOK
    <3>3. QED
      BY <1>0, <3>2
  <2>3. Delivery!Store
    BY <1>2, <2>1, <2>2 DEF PipelineStores, Delivery!Store
  <2>4. QED
    BY <2>3 DEF Delivery!Next
<1>3. CASE FlushSucceeds
  <2>1. added' - Len(buffer') = added
    BY <1>0, <1>3 DEF FlushSucceeds
  <2>2. added \in (added - Len(buffer)) + 1 .. added
    <3>1. buffer # <<>>
      BY <1>3 DEF FlushSucceeds, StatusOK, IInv, InFlight
    <3>2. Len(buffer) > 0
      BY <1>0, <3>1 DEF IInv, TypeOK
    <3>3. QED
      BY <1>0, <3>2
  <2>3. (added - Len(buffer)) + 1 .. added \subseteq stored
    <3>1. 1..added \subseteq stored
      BY <1>3, SuccessStoresAll DEF Records
    <3>2. (added - Len(buffer)) + 1 .. added \subseteq 1..added
      BY <1>0
    <3>3. QED
      BY <3>1, <3>2
  <2>4. Delivery!Release
    BY <1>3, <2>1, <2>2, <2>3 DEF FlushSucceeds, Delivery!Release
  <2>5. QED
    BY <2>4 DEF Delivery!Next
<1>4. CASE ~(Add \/ PipelineStores \/ FlushSucceeds)
  <2>1. UNCHANGED <<added, buffer, stored>>
    BY <1>4 DEF Next, Outcome, FlushEvents, SetLastFlush, Rejected, CallThrows,
       PoolTimeout, CredentialsError, FlushFails, Environment, Tick,
       SparkEnvChanges, ExpireCredentials, vars
  <2>2. QED
    BY <2>1 DEF Delivery!vars
<1>5. QED
  BY <1>1, <1>2, <1>3, <1>4

\* The client implements at-least-once, in-order delivery: batching, back-off,
\* lost answers, leaked connections and expired credentials add no behaviour
\* that the three actions of BatchDelivery do not allow.
THEOREM Refinement == Spec => RefinesBatchDelivery
  BY RefinesInit, RefinesStep, IInvAlways, PTL
  DEF Spec, RefinesBatchDelivery, Delivery!Spec

-----------------------------------------------------------------------------
(* When the appender runs out of retries.                                  *)

\* The appender asks for no flush: each of its steps is one of the client.
LEMMA AppenderStep == [AppenderNext]_vars => [Next]_vars
  BY DEF AppenderNext, append, Next

\* What holds of the client holds of the appender.
LEMMA AppenderInvariants == AppenderSpec => [](IInv /\ BackOffSchedule)
<1>1. Init => BackOffSchedule
  BY ScheduleInit
<1>2. QED
  BY <1>1, IInvInit, IInvStep, ScheduleStep, AppenderStep, PTL DEF AppenderSpec

\* A call of the appender in a retry cycle was due when it began, and time has only
\* passed since: the wait for the back-off is over.
WaitedForBackOff ==
  call # "none" /\ isBackingOff => now - lastFlush - backOff >= BatchTime

\* Time that has passed stays passed.
LEMMA LaterStillDue ==
  ASSUME NEW t \in Nat, NEW since \in Nat, NEW wait \in Nat, t - since - wait >= BatchTime
  PROVE  (t + 1) - since - wait >= BatchTime
  BY ClientAssumption DEF ClientAssumption

\* Every action keeps it.
LEMMA WaitedStep == IInv /\ WaitedForBackOff /\ [AppenderNext]_vars => WaitedForBackOff'
<1> SUFFICES ASSUME IInv, WaitedForBackOff, [AppenderNext]_vars,
                    call' # "none", isBackingOff'
             PROVE  (now - lastFlush - backOff >= BatchTime)'
  BY DEF WaitedForBackOff
<1>1. CASE Add
  <2>1. UNCHANGED <<now, lastFlush, isBackingOff, backOff>> /\ call = "none"
    BY <1>1 DEF Add, retryVars, envVars
  <2>2. FlushIsDue(Len(buffer) + 1)
    BY <1>1, <2>1 DEF Add
  <2>3. now - lastFlush - backOff >= BatchTime
    BY <2>1, <2>2 DEF FlushIsDue, durationSinceLastFlush
  <2>4. QED
    BY <2>1, <2>3
<1>2. CASE Tick
  <2>1. UNCHANGED <<lastFlush, isBackingOff, backOff, call>> /\ now' = now + 1
    BY <1>2 DEF Tick, retryVars, callVars
  <2>2. now - lastFlush - backOff >= BatchTime
    BY <2>1 DEF WaitedForBackOff
  <2>3. now \in Nat /\ lastFlush \in Nat /\ backOff \in Nat
    BY ClientAssumption DEF ClientAssumption, IInv, TypeOK
  <2>4. (now + 1) - lastFlush - backOff >= BatchTime
    BY <2>2, <2>3, LaterStillDue
  <2>5. QED
    BY <2>1, <2>4
<1>3. CASE PipelineStores \/ SparkEnvChanges \/ ExpireCredentials \/ UNCHANGED vars
  <2>1. UNCHANGED <<now, lastFlush, isBackingOff, backOff>> /\ call # "none"
    BY <1>3 DEF PipelineStores, SparkEnvChanges, ExpireCredentials, vars, retryVars,
                callVars, envVars
  <2>2. QED
    BY <2>1 DEF WaitedForBackOff
<1>4. CASE Outcome
  BY <1>4 DEF Outcome, FlushSucceeds, Rejected, CallThrows, PoolTimeout, CredentialsError,
              FlushFails
<1>5. QED
  BY <1>1, <1>2, <1>3, <1>4 DEF AppenderNext, append, Environment

\* With a retry to spend, the appender runs out of retries only when the last success is
\* the time threshold and the final back-off in the past, however dense the log events are.
THEOREM Exhaustion == MaxRetries > 0 /\ AppenderSpec => ExhaustedAfterSilence
<1> DEFINE Step == raised # "exhausted" /\ raised' = "exhausted" =>
                     now - lastFlush >= BatchTime + FinalBackOff
<1>0. SUFFICES ASSUME MaxRetries > 0
               PROVE  AppenderSpec => ExhaustedAfterSilence
  OBVIOUS
<1>1. ASSUME IInv, BackOffSchedule, WaitedForBackOff, [AppenderNext]_vars
      PROVE  Step
  <2>1. SUFFICES ASSUME raised # "exhausted", raised' = "exhausted"
                 PROVE  now - lastFlush >= BatchTime + FinalBackOff
    OBVIOUS
  <2>2. PICK retryable \in BOOLEAN, cause \in {"none", "transport", "pool", "credentials"} :
             FlushFails(retryable, cause) /\ call # "none"
    <3>1. CASE Rejected \/ CallThrows \/ PoolTimeout \/ CredentialsError
      <4>1. CASE Rejected
        BY <4>1 DEF Rejected
      <4>2. CASE CallThrows
        BY <4>2 DEF CallThrows
      <4>3. CASE PoolTimeout
        BY <4>3 DEF PoolTimeout
      <4>4. CASE CredentialsError
        BY <4>4 DEF CredentialsError
      <4>5. QED
        BY <3>1, <4>1, <4>2, <4>3, <4>4
    <3>2. CASE ~(Rejected \/ CallThrows \/ PoolTimeout \/ CredentialsError)
      <4>1. raised' \in {raised, "none", "conversion"}
        BY <1>1, <3>2
        DEF AppenderNext, append, Add, BeginFlush, PipelineStores, Outcome, FlushSucceeds,
            Environment, Tick, SparkEnvChanges, ExpireCredentials, vars, callVars
      <4>2. QED
        BY <2>1, <4>1
    <3>3. QED
      BY <3>1, <3>2
  <2>3. retries = 0
    BY <1>1, <2>1, <2>2 DEF FlushFails, IInv, TypeOK
  <2>4. isBackingOff
    BY <1>0, <1>1, <2>3, ClientAssumption DEF ClientAssumption, IInv, CycleFlag
  <2>5. backOff = FinalBackOff
    <3>1. MaxRetries - retries = MaxRetries
      BY <2>3, ClientAssumption DEF ClientAssumption
    <3>2. QED
      BY <1>1, <3>1 DEF BackOffSchedule, FinalBackOff
  <2>6. now - lastFlush - backOff >= BatchTime
    BY <1>1, <2>2, <2>4 DEF WaitedForBackOff
  <2>7. now \in Nat /\ lastFlush \in Nat /\ backOff \in Nat
    BY <1>1, ClientAssumption DEF ClientAssumption, IInv, TypeOK
  <2>8. QED
    BY <2>5, <2>6, <2>7, ClientAssumption DEF ClientAssumption
<1>2. Init => WaitedForBackOff
  BY DEF Init, WaitedForBackOff
<1>3. IInv /\ BackOffSchedule /\ WaitedForBackOff /\ [AppenderNext]_vars => [Step]_vars
  BY <1>1
<1>4. QED
  BY <1>2, <1>3, WaitedStep, AppenderInvariants, PTL DEF AppenderSpec, ExhaustedAfterSilence
=============================================================================
