------------------------- MODULE SharedClientProofs -------------------------
(***************************************************************************)
(* Proofs about the client line by line, when one thread uses it: what a   *)
(* statement is among the actions of the atomic model.                     *)
(***************************************************************************)
EXTENDS SharedClient, FiniteSetTheorems, SequenceTheorems, TLAPS

OneThread == Threads = {Only}

Causes == {"none", "exhausted", "transport", "pool", "credentials", "conversion"}

\* What is so at each statement: the record that is being added is the last of the buffer;
\* a flush that was found due stays due, for only the clock moves before it begins; the
\* retry variables are in their first state outside a retry cycle.
SharedInv ==
  /\ pc \in [Threads -> States]
  /\ content \in [Threads -> Seq(Nat)]
  /\ raised \in [Threads -> Causes]
  /\ buffer \in Seq(Nat)
  /\ lastFlush \in Nat /\ now \in Nat
  /\ added \in 0..MaxRecords
  /\ isBackingOff \in BOOLEAN
  /\ backOff \in Nat /\ retries \in Nat
  /\ leased \in Nat
  /\ Adding => buffer # <<>> /\ added > 0 /\ buffer[Len(buffer)] = added
  /\ at = "map" => FlushIsDue
  /\ at = "reset" => buffer = <<>>
  /\ ~isBackingOff => backOff = InitialBackoff /\ retries = MaxRetries

\* A moment that is late enough is followed by moments that are.
LEMMA TimePasses ==
  ASSUME NEW due \in Nat, NEW last \in Nat, NEW waited \in Nat, NEW time \in Nat,
         NEW later \in Nat, later >= time, time - last - waited >= due
  PROVE  later - last - waited >= due
  OBVIOUS

\* What is appended comes last.
LEMMA LastOfAppend ==
  ASSUME NEW list \in Seq(Nat), NEW record \in Nat, NEW longer, longer = Append(list, record)
  PROVE  longer \in Seq(Nat) /\ longer # <<>> /\ longer[Len(longer)] = record
  OBVIOUS

\* At first the thread is nowhere in the client.
LEMMA SharedInit == OneThread /\ Init => SharedInv
<1> SUFFICES ASSUME OneThread, Init
             PROVE  SharedInv
  OBVIOUS
<1>1. at = "idle"
  BY DEF OneThread, Init, at
<1>2. isBackingOff \in BOOLEAN
  BY Zenon DEF Init
<1>3. pc \in [Threads -> States]
  BY DEF Init, States
<1>4. <<>> \in Seq(Nat)
  OBVIOUS
<1>5. content \in [Threads -> Seq(Nat)] /\ buffer \in Seq(Nat)
  BY <1>4, Zenon DEF Init
<1>6. raised \in [Threads -> Causes]
  BY DEF Init, Causes
<1>7. QED
  BY <1>1, <1>2, <1>3, <1>5, <1>6, SharedAssumption DEF SharedAssumption, SharedInv, Init, Adding

\* A statement that moves only the thread's own variables, or none of the client's.
LEMMA SharedStep == OneThread /\ SharedInv /\ [Next]_vars => SharedInv'
<1> SUFFICES ASSUME OneThread, SharedInv, [Next]_vars
             PROVE  SharedInv'
  OBVIOUS
<1> USE SharedAssumption DEF SharedAssumption, at, OneThread
<1>1. CASE AppendEvent(Only)
  <2>1. /\ pc' = [pc EXCEPT ![Only] = "check"] /\ buffer' = Append(buffer, added + 1)
        /\ added < MaxRecords /\ added' = added + 1
        /\ UNCHANGED <<content, raised, lastFlush, isBackingOff, backOff, retries, leased, now>>
    BY <1>1 DEF AppendEvent, GoTo, retryVars, envVars
  <2>2. pc' \in [Threads -> States] /\ pc'[Only] = "check"
    BY <2>1 DEF SharedInv, States
  <2>3. buffer' \in Seq(Nat) /\ buffer' # <<>> /\ buffer'[Len(buffer')] = added + 1
    <3>1. buffer \in Seq(Nat) /\ added + 1 \in Nat
      BY DEF SharedInv
    <3>2. QED
      BY <2>1, <3>1, LastOfAppend
  <2>4. QED
    BY <2>1, <2>2, <2>3 DEF SharedInv, Adding
<1>2. CASE CheckDue(Only)
  <2>1. /\ pc[Only] = "check" /\ pc' = [pc EXCEPT ![Only] = IF FlushIsDue THEN "map" ELSE "idle"]
        /\ raised' \in {raised, [raised EXCEPT ![Only] = "none"]}
        /\ UNCHANGED <<content, buffer, added, lastFlush, isBackingOff, backOff, retries, leased, now>>
    BY <1>2 DEF CheckDue, GoTo, retryVars, envVars
  <2>2. /\ pc' \in [Threads -> States]
        /\ pc'[Only] = IF FlushIsDue THEN "map" ELSE "idle"
    <3>1. CASE FlushIsDue
      BY <2>1, <3>1 DEF SharedInv, States
    <3>2. CASE ~FlushIsDue
      BY <2>1, <3>2 DEF SharedInv, States
    <3>3. QED
      BY <3>1, <3>2
  <2>5. raised' \in [Threads -> Causes]
    BY <2>1 DEF SharedInv, Causes
  <2>3. FlushIsDue' = FlushIsDue
    BY <2>1 DEF FlushIsDue
  <2>4. QED
    BY <2>1, <2>2, <2>3, <2>5 DEF SharedInv, Adding
<1>3. CASE MapBuffer(Only)
  <2>1. /\ pc' \in {[pc EXCEPT ![Only] = "sent"], [pc EXCEPT ![Only] = "idle"]}
        /\ content' \in {content, [content EXCEPT ![Only] = buffer]}
        /\ raised' \in {[raised EXCEPT ![Only] = c] : c \in {"none", "conversion"}}
        /\ UNCHANGED <<buffer, added, lastFlush, isBackingOff, backOff, retries, leased, now>>
    BY <1>3 DEF MapBuffer, GoTo, retryVars, envVars
  <2>2. pc' \in [Threads -> States] /\ pc'[Only] \in {"sent", "idle"}
    BY <2>1 DEF SharedInv, States
  <2>3. raised' \in [Threads -> Causes]
    BY <2>1 DEF SharedInv, Causes
  <2>4. content' \in [Threads -> Seq(Nat)]
    BY <2>1 DEF SharedInv
  <2>5. QED
    BY <2>1, <2>2, <2>3, <2>4 DEF SharedInv, Adding
<1>4. CASE PipelineStores(Only) \/ SetFlushTime(Only)
  <2>1. /\ pc' \in {[pc EXCEPT ![Only] = "stored"], [pc EXCEPT ![Only] = "clear"]}
        /\ lastFlush' \in {lastFlush, now}
        /\ UNCHANGED <<content, raised, buffer, added, isBackingOff, backOff, retries, leased, now>>
    BY <1>4 DEF PipelineStores, SetFlushTime, GoTo, retryVars, envVars
  <2>2. /\ pc' \in [Threads -> States] /\ pc'[Only] \in {"stored", "clear"}
    BY <2>1 DEF SharedInv, States
  <2>3. QED
    BY <2>1, <2>2 DEF SharedInv, Adding
<1>5. CASE ClearBuffer(Only)
  <2>1. /\ pc' = [pc EXCEPT ![Only] = "reset"] /\ buffer' = <<>>
        /\ UNCHANGED <<content, raised, lastFlush, added, isBackingOff, backOff, retries, leased, now>>
    BY <1>5 DEF ClearBuffer, GoTo, retryVars, envVars
  <2>2. /\ pc' \in [Threads -> States] /\ pc'[Only] = "reset"
    BY <2>1 DEF SharedInv, States
  <2>3. QED
    BY <2>1, <2>2 DEF SharedInv, Adding
<1>6. CASE ResetBackOff(Only)
  <2>1. /\ pc' = [pc EXCEPT ![Only] = "idle"] /\ content' = [content EXCEPT ![Only] = <<>>]
        /\ UNCHANGED <<raised, buffer, lastFlush, added, leased, now>>
    BY <1>6 DEF ResetBackOff, GoTo, envVars
  <2>2. /\ pc' \in [Threads -> States] /\ pc'[Only] = "idle" /\ content' \in [Threads -> Seq(Nat)]
    BY <2>1 DEF SharedInv, States
  <2>3. /\ isBackingOff' \in BOOLEAN /\ backOff' \in Nat /\ retries' \in Nat
        /\ ~isBackingOff' => backOff' = InitialBackoff /\ retries' = MaxRetries
    BY <1>6 DEF ResetBackOff, retryVars, SharedInv
  <2>4. QED
    BY <2>1, <2>2, <2>3 DEF SharedInv, Adding
<1>7. ASSUME NEW retryable \in BOOLEAN, NEW cause \in {"none", "transport", "pool", "credentials"},
             FlushFails(Only, retryable, cause), leased' \in {leased, leased + 1}
      PROVE  SharedInv'
  <2>1. /\ pc' = [pc EXCEPT ![Only] = "idle"] /\ content' = [content EXCEPT ![Only] = <<>>]
        /\ UNCHANGED <<buffer, lastFlush, added, now>>
    BY <1>7 DEF FlushFails, GoTo, envVars
  <2>2. /\ pc' \in [Threads -> States] /\ pc'[Only] = "idle" /\ content' \in [Threads -> Seq(Nat)]
    BY <2>1 DEF SharedInv, States
  <2>3. /\ raised' \in [Threads -> Causes]
        /\ isBackingOff' \in BOOLEAN /\ backOff' \in Nat /\ retries' \in Nat
        /\ ~isBackingOff' => backOff' = InitialBackoff /\ retries' = MaxRetries
    <3>1. CASE retryable /\ retries > 0
      <4>1. /\ isBackingOff' = TRUE /\ raised' = raised
            /\ backOff' = Lesser(2 * backOff, MaxBackoff) /\ retries' = retries - 1
        BY <1>7, <3>1, Zenon DEF FlushFails
      <4>2. QED
        BY <3>1, <4>1 DEF SharedInv, Lesser
    <3>2. CASE ~(retryable /\ retries > 0)
      <4>1. /\ \E c \in Causes : raised' = [raised EXCEPT ![Only] = c]
            /\ isBackingOff' = isBackingOff /\ backOff' = backOff /\ retries' = retries
        BY <1>7, <3>2 DEF FlushFails, retryVars, Causes
      <4>2. QED
        BY <4>1 DEF SharedInv
    <3>3. QED
      BY <3>1, <3>2
  <2>4. QED
    BY <1>7, <2>1, <2>2, <2>3 DEF SharedInv, Adding
<1>8. CASE Rejected(Only) \/ CallThrows(Only) \/ PoolTimeout(Only) \/ CredentialsError(Only)
  <2>1. /\ \E retryable \in BOOLEAN, cause \in {"none", "transport", "pool", "credentials"} :
             FlushFails(Only, retryable, cause)
        /\ leased' \in {leased, leased + 1}
    BY <1>8 DEF Rejected, CallThrows, PoolTimeout, CredentialsError
  <2>2. QED
    BY <1>7, <2>1
<1>9. CASE Tick \/ SparkEnvChanges \/ ExpireCredentials \/ UNCHANGED vars
  <2>1. /\ now' \in {now, now + 1}
        /\ UNCHANGED <<pc, content, raised, buffer, lastFlush, added, isBackingOff, backOff,
                       retries, leased>>
    BY <1>9 DEF Tick, SparkEnvChanges, ExpireCredentials, vars, callVars, retryVars, envVars
  <2>2. ASSUME FlushIsDue
        PROVE  FlushIsDue'
    <3>1. CASE now - lastFlush - (IF isBackingOff THEN backOff ELSE 0) >= BatchTime
      <4>1. PICK waited \in Nat : waited = IF isBackingOff THEN backOff ELSE 0
        BY DEF SharedInv
      <4>2. /\ now \in Nat /\ lastFlush \in Nat /\ now' \in Nat /\ now' >= now
            /\ BatchTime \in Nat /\ waited \in Nat
        BY <2>1 DEF SharedInv
      <4>3. now - lastFlush - waited >= BatchTime
        BY <3>1, <4>1
      <4>4. now' - lastFlush - waited >= BatchTime
        BY ONLY <4>2, <4>3, TimePasses
      <4>5. lastFlush' = lastFlush /\ isBackingOff' = isBackingOff /\ backOff' = backOff
        BY <2>1
      <4>6. QED
        BY <4>1, <4>4, <4>5 DEF FlushIsDue
    <3>2. CASE ~isBackingOff /\ Len(buffer) >= BatchSize
      BY <2>1, <3>2 DEF FlushIsDue
    <3>3. QED
      BY <2>2, <3>1, <3>2 DEF FlushIsDue
  <2>3. QED
    BY <2>1, <2>2 DEF SharedInv, Adding
<1>10. QED
  BY <1>1, <1>2, <1>3, <1>4, <1>5, <1>6, <1>8, <1>9 DEF Next, Step

-----------------------------------------------------------------------------
(* Statements as actions of the atomic model.                              *)

\* A record that is appended and left out again leaves the buffer as it was.
LEMMA FrontOfAppend ==
  ASSUME NEW seq \in Seq(Nat), NEW elt \in Nat
  PROVE  Front(Append(seq, elt)) = seq
<1>1. /\ Append(seq, elt) \in Seq(Nat) /\ Len(Append(seq, elt)) = Len(seq) + 1
      /\ \A i \in 1..Len(seq) : Append(seq, elt)[i] = seq[i]
  BY AppendProperties
<1>2. Front(Append(seq, elt)) = SubSeq(Append(seq, elt), 1, Len(seq))
  BY <1>1 DEF Front
<1>3. QED
  BY <1>1, <1>2, SubSeqProperties, SeqEqual

\* A buffer is what came before its last record, and that record.
LEMMA AppendToFront ==
  ASSUME NEW seq \in Seq(Nat), seq # <<>>
  PROVE  /\ Front(seq) \in Seq(Nat)
         /\ Len(Front(seq)) = Len(seq) - 1
         /\ Append(Front(seq), seq[Len(seq)]) = seq
         /\ \A i \in 1..Len(seq) - 1 : Front(seq)[i] = seq[i]
<1>1. Len(seq) \in Nat /\ Len(seq) > 0 /\ seq[Len(seq)] \in Nat
  BY LenProperties, ElementOfSeq
<1>2. /\ Front(seq) \in Seq(Nat) /\ Len(Front(seq)) = Len(seq) - 1
      /\ \A i \in 1..Len(seq) - 1 : Front(seq)[i] = seq[i]
  <2> DEFINE n == Len(seq) - 1
  <2>1. 1 \in Int /\ n \in Int /\ n >= 0 /\ \A i \in 1..n : seq[i] \in Nat
    BY <1>1, ElementOfSeq
  <2>2. /\ SubSeq(seq, 1, n) \in Seq(Nat)
        /\ Len(SubSeq(seq, 1, n)) = IF 1 <= n THEN n - 1 + 1 ELSE 0
        /\ \A i \in 1..n - 1 + 1 : SubSeq(seq, 1, n)[i] = seq[1 + i - 1]
    <3> HIDE DEF n
    <3>1. QED
      BY ONLY <2>1, SubSeqProperties
  <2>3. /\ Len(SubSeq(seq, 1, n)) = n
        /\ \A i \in 1..n : SubSeq(seq, 1, n)[i] = seq[i]
    <3> HIDE DEF n
    <3>1. QED
      BY <2>1, <2>2
  <2>4. QED
    BY <2>2, <2>3 DEF Front
<1>3. /\ Append(Front(seq), seq[Len(seq)]) \in Seq(Nat)
      /\ Len(Append(Front(seq), seq[Len(seq)])) = Len(seq)
      /\ \A i \in 1..Len(seq) - 1 : Append(Front(seq), seq[Len(seq)])[i] = Front(seq)[i]
      /\ Append(Front(seq), seq[Len(seq)])[Len(seq)] = seq[Len(seq)]
  BY <1>1, <1>2, AppendProperties
<1>4. \A i \in 1..Len(seq) : Append(Front(seq), seq[Len(seq)])[i] = seq[i]
  BY <1>1, <1>2, <1>3
<1>5. QED
  BY <1>2, <1>3, <1>4, SeqEqual

\* A thread that is alone leaves the pool to the leaked connections.
LEMMA ConnectionFreeAlone ==
  ASSUME OneThread, leased \in Nat
  PROVE  ConnectionFree(Only) <=> Appender!ConnectionFree
<1>1. {u \in Threads \ {Only} : Calling(u)} = {}
  BY DEF OneThread
<1>2. Cardinality({u \in Threads \ {Only} : Calling(u)}) = 0
  BY <1>1, FS_EmptySet
<1>3. QED
  BY <1>2, SharedAssumption DEF ConnectionFree, Appender!ConnectionFree, SharedAssumption

\* An event that is appended has not been added yet: that is settled by the next statement.
LEMMA AppendStutters ==
  ASSUME OneThread, SharedInv, AppendEvent(Only)
  PROVE  UNCHANGED Appender!vars
<1>1. /\ at = "idle" /\ at' = "check" /\ buffer' = Append(buffer, added + 1) /\ added' = added + 1
      /\ UNCHANGED <<content, raised, lastFlush, retryVars, context, credentials,
                     leased, envVars, stored>>
  BY DEF AppendEvent, GoTo, SharedInv, at, OneThread
<1>2. atomicBuffer' = atomicBuffer /\ atomicAdded' = atomicAdded
  BY <1>1, FrontOfAppend DEF SharedInv, atomicBuffer, atomicAdded, Adding, Succeeded
<1>3. /\ atomicBackOff' = atomicBackOff /\ atomicRetries' = atomicRetries
      /\ atomicCall' = atomicCall /\ atomicContent' = atomicContent
      /\ atomicRaised' = atomicRaised
  BY <1>1 DEF atomicBackOff, atomicRetries, atomicCall, atomicContent, atomicRaised,
    Succeeded, Calling, at, retryVars
<1>4. atomicBacking' = atomicBacking
  BY <1>1 DEF atomicBacking, Succeeded, retryVars
<1>5. QED
  BY <1>1, <1>2, <1>3, <1>4 DEF Appender!vars, Appender!retryVars, Appender!callVars,
    Appender!envVars, retryVars, envVars

\* The add of a record, as it is found not to be due.
LEMMA CheckDueAdds ==
  ASSUME OneThread, SharedInv, CheckDue(Only)
  PROVE  Appender!Add \/ UNCHANGED Appender!vars
<1> USE DEF OneThread, retryVars, envVars
<1>1. /\ at = "check" /\ at' = IF FlushIsDue THEN "map" ELSE "idle"
      /\ UNCHANGED <<content, buffer, lastFlush, isBackingOff, backOff, retries, context,
                     credentials, leased, now, sparkEnv, added, stored>>
  BY DEF CheckDue, GoTo, SharedInv, at
<1>2. /\ atomicBackOff' = backOff /\ atomicBackOff = backOff
      /\ atomicRetries' = atomicRetries
      /\ atomicCall' = "none" /\ atomicCall = "none"
      /\ atomicContent' = <<>> /\ atomicContent = <<>>
  BY <1>1 DEF atomicBackOff, atomicRetries, atomicCall, atomicContent, Succeeded, Calling, at
<1>3. atomicBacking' = isBackingOff /\ atomicBacking = isBackingOff
  BY <1>1 DEF atomicBacking, Succeeded, SharedInv
<1>4. CASE FlushIsDue
  <2>1. at' = "map" /\ raised' = raised
    BY <1>1, <1>4 DEF CheckDue
  <2>2. atomicBuffer' = atomicBuffer /\ atomicAdded' = atomicAdded /\ atomicRaised' = atomicRaised
    BY <1>1, <2>1 DEF atomicBuffer, atomicAdded, atomicRaised, Adding
  <2>3. QED
    BY <1>1, <1>2, <1>3, <2>2 DEF Appender!vars, Appender!retryVars, Appender!callVars,
      Appender!envVars
<1>5. CASE ~FlushIsDue
  <2>1. at' = "idle" /\ atomicRaised' = "none"
    BY <1>1, <1>5 DEF CheckDue, SharedInv, atomicRaised
  <2>2. /\ atomicAdded = added - 1 /\ added > 0 /\ added \in 0..MaxRecords /\ MaxRecords \in Nat
        /\ atomicAdded' = added
        /\ atomicBuffer' = Append(atomicBuffer, added) /\ Len(atomicBuffer) + 1 = Len(buffer)
    BY <1>1, <2>1, AppendToFront, LenProperties, SharedAssumption
      DEF SharedInv, SharedAssumption, atomicAdded, atomicBuffer, Adding, Succeeded
  <2>3. atomicAdded < MaxRecords /\ atomicAdded + 1 = added
    BY <2>2
  <2>4. ~Appender!FlushIsDue(Len(atomicBuffer) + 1)
    BY <1>2, <1>3, <1>5, <2>2
      DEF Appender!FlushIsDue, Appender!durationSinceLastFlush, FlushIsDue
  <2>5. Appender!Add
    BY <1>1, <1>2, <1>3, <2>1, <2>2, <2>3, <2>4
      DEF Appender!Add, Appender!retryVars, Appender!envVars
  <2>6. QED
    BY <2>5
<1>6. QED
  BY <1>4, <1>5

\* The two models mean the same by what can be converted and what arrives whole.
LEMMA SameRecords ==
  ASSUME NEW batch
  PROVE  /\ Convertible(batch) <=> Appender!Convertible(batch)
         /\ Acceptable(batch) <=> Appender!Acceptable(batch)
  BY DEF Convertible, Appender!Convertible, Acceptable, Appender!Acceptable, Range,
    Appender!Range

\* The add of a record whose flush begins.
LEMMA MapBufferAdds ==
  ASSUME OneThread, SharedInv, MapBuffer(Only)
  PROVE  Appender!Add
<1> USE DEF OneThread, retryVars, envVars
<1> DEFINE context1 == IF context = ContextFields THEN context ELSE sparkEnv
           entered == Convertible(<<Head(buffer)>>)
           known == entered /\ context1 = ContextFields
           cause == IF ~Convertible(buffer) /\ (known \/ ~entered) THEN "conversion" ELSE "none"
<1>1. /\ at = "map" /\ buffer # <<>> /\ context' = IF entered THEN context1 ELSE context
      /\ UNCHANGED <<buffer, lastFlush, isBackingOff, backOff, retries, credentials, leased, now,
                     sparkEnv, added, stored>>
  BY DEF MapBuffer, SharedInv, Adding, at
<1>2. /\ atomicBackOff' = atomicBackOff /\ atomicBackOff = backOff
      /\ atomicRetries' = atomicRetries
      /\ atomicCall = "none" /\ atomicContent = <<>>
      /\ atomicRaised' = cause
      /\ IF known /\ Convertible(buffer)
           THEN atomicCall' = "sent" /\ atomicContent' = buffer
           ELSE atomicCall' = "none" /\ atomicContent' = <<>>
      /\ at' \in {"sent", "idle"}
  <2>1. raised'[Only] = cause
    BY <1>1 DEF MapBuffer, SharedInv
  <2>2. /\ known /\ Convertible(buffer) => at' = "sent" /\ content'[Only] = buffer
        /\ ~(known /\ Convertible(buffer)) => at' = "idle"
    BY <1>1 DEF MapBuffer, SharedInv, at, GoTo
  <2> HIDE DEF known, cause
  <2>3. QED
    BY <1>1, <2>1, <2>2 DEF atomicBackOff, atomicRetries, atomicCall, atomicContent,
      atomicRaised, Succeeded, Calling, at
<1>3. atomicBacking' = isBackingOff /\ atomicBacking = isBackingOff
  BY <1>1, <1>2 DEF atomicBacking, Succeeded, SharedInv
<1>4. /\ atomicAdded = added - 1 /\ added > 0 /\ added \in 0..MaxRecords /\ MaxRecords \in Nat
      /\ atomicAdded' = added
      /\ atomicBuffer' = buffer
      /\ Append(atomicBuffer, added) = buffer /\ Len(atomicBuffer) + 1 = Len(buffer)
  BY <1>1, <1>2, AppendToFront, LenProperties, SharedAssumption
    DEF SharedInv, SharedAssumption, atomicAdded, atomicBuffer, Adding, Succeeded
<1>5. atomicAdded < MaxRecords /\ atomicAdded + 1 = added
  BY <1>4
<1>6. Appender!FlushIsDue(Len(atomicBuffer) + 1)
  BY <1>1, <1>2, <1>3, <1>4
    DEF SharedInv, FlushIsDue, Appender!FlushIsDue, Appender!durationSinceLastFlush
<1>7. /\ Appender!contextAtFlush = context1
      /\ Appender!logContextInitialized(context1) <=> context1 = ContextFields
  BY DEF Appender!contextAtFlush, Appender!logContextInitialized, ContextFields,
    Appender!ContextFields
<1>8. Appender!BeginFlush(Append(atomicBuffer, atomicAdded + 1))
  <2>1. Append(atomicBuffer, atomicAdded + 1) = buffer
    BY <1>4, <1>5
  <2>2. Appender!BeginFlush(buffer)
    BY <1>1, <1>2, <1>7, SameRecords DEF Appender!BeginFlush
  <2>3. QED
    BY <2>1, <2>2
<1>9. QED
  BY <1>1, <1>2, <1>3, <1>4, <1>5, <1>6, <1>8
    DEF Appender!Add, Appender!retryVars, Appender!envVars

\* The pipeline takes the batch in.
LEMMA PipelineStoresStores ==
  ASSUME OneThread, SharedInv, PipelineStores(Only)
  PROVE  Appender!PipelineStores
<1> USE DEF OneThread, retryVars, envVars
<1>1. /\ at = "sent" /\ at' = "stored" /\ credentials # "expired" /\ Appender!ConnectionFree
      /\ Acceptable(content[Only])
      /\ stored' = stored \cup Range(content[Only]) /\ ResolveCredentials
      /\ UNCHANGED <<content, raised, buffer, lastFlush, isBackingOff, backOff, retries, context,
                     leased, now, sparkEnv, added>>
  BY ConnectionFreeAlone DEF PipelineStores, GoTo, SharedInv, at
<1>2. /\ atomicBackOff' = atomicBackOff /\ atomicRetries' = atomicRetries
      /\ atomicBuffer' = atomicBuffer /\ atomicAdded' = atomicAdded
      /\ atomicCall = "sent" /\ atomicCall' = "stored"
      /\ atomicContent' = atomicContent /\ atomicContent = content[Only]
      /\ atomicRaised' = atomicRaised
  BY <1>1 DEF atomicBackOff, atomicRetries, atomicBuffer, atomicAdded, atomicCall,
    atomicContent, atomicRaised, Adding, Succeeded, Calling, at
<1>3. atomicBacking' = atomicBacking
  BY <1>1 DEF atomicBacking, Succeeded
<1>4. /\ stored' = stored \cup Appender!Range(atomicContent) /\ Appender!ResolveCredentials
      /\ Appender!Acceptable(atomicContent)
  BY <1>1, <1>2, SameRecords DEF Range, Appender!Range, ResolveCredentials, Appender!ResolveCredentials
<1>5. QED
  BY <1>1, <1>2, <1>3, <1>4
    DEF Appender!PipelineStores, Appender!retryVars, Appender!envVars

\* The first statement of the success branch stands for all of it.
LEMMA SetFlushTimeSucceeds ==
  ASSUME OneThread, SharedInv, SetFlushTime(Only)
  PROVE  Appender!FlushSucceeds
<1> USE DEF OneThread, retryVars, envVars
<1>1. /\ at = "stored" /\ at' = "clear" /\ lastFlush' = now
      /\ UNCHANGED <<content, raised, buffer, isBackingOff, backOff, retries, context,
                     credentials, leased, now, sparkEnv, added, stored>>
  BY DEF SetFlushTime, GoTo, SharedInv, at
<1>2. /\ atomicBackOff' = InitialBackoff /\ atomicBackOff = backOff
      /\ atomicRetries' = MaxRetries /\ atomicRetries = retries
      /\ atomicBuffer' = <<>> /\ atomicAdded' = atomicAdded
      /\ atomicCall = "stored" /\ atomicCall' = "none"
      /\ atomicContent' = <<>>
      /\ atomicRaised' = atomicRaised
  BY <1>1 DEF atomicBackOff, atomicRetries, atomicBuffer, atomicAdded, atomicCall,
    atomicContent, atomicRaised, Adding, Succeeded, Calling, at
<1>3. atomicBacking' = FALSE /\ atomicBacking = isBackingOff
  BY <1>1 DEF atomicBacking, Succeeded, SharedInv
<1>4. Appender!ResetBackOff
  <2>1. CASE isBackingOff
    BY <1>2, <1>3, <2>1 DEF Appender!ResetBackOff
  <2>2. CASE ~isBackingOff
    <3>1. isBackingOff = FALSE
      BY <2>2 DEF SharedInv
    <3>2. atomicBacking' = atomicBacking
      BY <1>3, <3>1
    <3>3. atomicBackOff' = atomicBackOff /\ atomicRetries' = atomicRetries
      BY <1>2, <2>2 DEF SharedInv
    <3>4. QED
      BY <1>3, <2>2, <3>2, <3>3 DEF Appender!ResetBackOff, Appender!retryVars
  <2>3. QED
    BY <2>1, <2>2
<1>5. QED
  BY <1>1, <1>2, <1>4 DEF Appender!FlushSucceeds, Appender!StatusOK, Appender!envVars

\* Its other statements have happened by then.
LEMMA ClearBufferStutters ==
  ASSUME OneThread, SharedInv, ClearBuffer(Only)
  PROVE  UNCHANGED Appender!vars
<1> USE DEF OneThread, retryVars, envVars
<1>1. /\ at = "clear" /\ at' = "reset"
      /\ UNCHANGED <<content, raised, lastFlush, isBackingOff, backOff, retries, context,
                     credentials, leased, now, sparkEnv, added, stored>>
  BY DEF ClearBuffer, GoTo, SharedInv, at
<1>2. /\ atomicBackOff' = atomicBackOff /\ atomicRetries' = atomicRetries
      /\ atomicBuffer' = atomicBuffer /\ atomicAdded' = atomicAdded
      /\ atomicCall' = atomicCall /\ atomicContent' = atomicContent
      /\ atomicRaised' = atomicRaised
  BY <1>1 DEF atomicBackOff, atomicRetries, atomicBuffer, atomicAdded, atomicCall,
    atomicContent, atomicRaised, Adding, Succeeded, Calling, at
<1>3. atomicBacking' = atomicBacking
  BY <1>1 DEF atomicBacking, Succeeded
<1>4. QED
  BY <1>1, <1>2, <1>3 DEF Appender!vars, Appender!retryVars, Appender!callVars, Appender!envVars

LEMMA ResetBackOffStutters ==
  ASSUME OneThread, SharedInv, ResetBackOff(Only)
  PROVE  UNCHANGED Appender!vars
<1> USE DEF OneThread, retryVars, envVars
<1>1. /\ at = "reset" /\ at' = "idle" /\ buffer = <<>>
      /\ UNCHANGED <<raised, buffer, lastFlush, context, credentials, leased, now, sparkEnv,
                     added, stored>>
  BY DEF ResetBackOff, GoTo, SharedInv, at
<1>2. ~isBackingOff' /\ backOff' = InitialBackoff /\ retries' = MaxRetries
  BY DEF ResetBackOff, SharedInv
<1>3. /\ atomicBackOff' = atomicBackOff /\ atomicRetries' = atomicRetries
      /\ atomicBuffer' = atomicBuffer /\ atomicAdded' = atomicAdded
      /\ atomicCall' = atomicCall /\ atomicContent' = atomicContent
      /\ atomicRaised' = atomicRaised
  BY <1>1, <1>2 DEF atomicBackOff, atomicRetries, atomicBuffer, atomicAdded, atomicCall,
    atomicContent, atomicRaised, Adding, Succeeded, Calling, at
<1>4. atomicBacking' = atomicBacking
  BY <1>1, <1>2 DEF atomicBacking, Succeeded
<1>5. QED
  BY <1>1, <1>3, <1>4 DEF Appender!vars, Appender!retryVars, Appender!callVars, Appender!envVars

\* A failure is the same statement in both.
LEMMA FlushFailsFails ==
  ASSUME OneThread, SharedInv, Calling(Only), NEW retryable \in BOOLEAN, NEW cause \in Causes,
         FlushFails(Only, retryable, cause)
  PROVE  /\ Appender!FlushFails(retryable, cause)
         /\ atomicCall = at
<1> USE DEF OneThread, retryVars, envVars
<1>1. /\ at \in {"sent", "stored"} /\ at' = "idle"
      /\ UNCHANGED <<buffer, lastFlush, context, now, sparkEnv, added, stored>>
  BY DEF FlushFails, GoTo, SharedInv, Calling, at
<1>2. /\ atomicBackOff' = backOff' /\ atomicBackOff = backOff
      /\ atomicRetries' = retries' /\ atomicRetries = retries
      /\ atomicBuffer' = atomicBuffer /\ atomicAdded' = atomicAdded
      /\ atomicCall = at /\ atomicCall' = "none"
      /\ atomicContent' = <<>>
  BY <1>1 DEF atomicBackOff, atomicRetries, atomicBuffer, atomicAdded, atomicCall,
    atomicContent, Adding, Succeeded, Calling, at
<1>3. atomicBacking = isBackingOff /\ (isBackingOff' \in BOOLEAN => atomicBacking' = isBackingOff')
  BY <1>1 DEF atomicBacking, Succeeded, SharedInv
<1>4. CASE retryable /\ retries > 0
  <2>1. /\ isBackingOff' = TRUE /\ retries' = retries - 1 /\ raised' = raised
        /\ backOff' = Lesser(2 * backOff, MaxBackoff)
    BY <1>4, Zenon DEF FlushFails
  <2>2. Lesser(2 * backOff, MaxBackoff) = Appender!Lesser(2 * atomicBackOff, MaxBackoff)
    BY <1>2 DEF Lesser, Appender!Lesser
  <2>3. atomicBacking' = TRUE /\ atomicRaised' = atomicRaised
    BY <1>3, <2>1 DEF atomicRaised
  <2>4. QED
    BY <1>1, <1>2, <1>4, <2>1, <2>2, <2>3 DEF Appender!FlushFails, Appender!envVars
<1>5. CASE ~(retryable /\ retries > 0)
  <2>1. /\ UNCHANGED <<isBackingOff, backOff, retries>>
        /\ raised'[Only] = IF retryable THEN "exhausted" ELSE cause
    BY <1>5 DEF FlushFails, SharedInv
  <2>2. atomicBacking' = atomicBacking
    BY <1>3, <2>1 DEF SharedInv
  <2>3. atomicRaised' = IF retryable THEN "exhausted" ELSE cause
    BY <2>1 DEF atomicRaised
  <2>4. QED
    BY <1>1, <1>2, <1>5, <2>1, <2>2, <2>3
      DEF Appender!FlushFails, Appender!envVars, Appender!retryVars
<1>6. QED
  BY <1>2, <1>4, <1>5

LEMMA FailuresAreOutcomes ==
  ASSUME OneThread, SharedInv,
         \/ Rejected(Only) \/ CallThrows(Only) \/ PoolTimeout(Only) \/ CredentialsError(Only)
  PROVE  Appender!Outcome
<1> USE DEF OneThread, Causes
<1> leased \in Nat
  BY DEF SharedInv
<1>1. Calling(Only) /\ (ConnectionFree(Only) <=> Appender!ConnectionFree)
  BY ConnectionFreeAlone DEF Rejected, CallThrows, PoolTimeout, CredentialsError, Calling
<1>2. ResolveCredentials => Appender!ResolveCredentials
  BY DEF ResolveCredentials, Appender!ResolveCredentials
<1>3. atomicCall = at /\ (at = "sent" \/ at = "stored")
  BY <1>1 DEF atomicCall, Calling, at
<1>4. CASE Rejected(Only)
  <2>1. Appender!FlushFails(TRUE, "none")
    BY <1>1, <1>4, FlushFailsFails DEF Rejected
  <2>2. QED
    BY <1>1, <1>2, <1>3, <1>4, <2>1 DEF Rejected, Appender!Rejected, Appender!Outcome
<1>5. CASE CallThrows(Only)
  <2>1. \E retryable \in BOOLEAN : Appender!FlushFails(retryable, "transport")
    BY <1>1, <1>5, FlushFailsFails DEF CallThrows
  <2>2. QED
    BY <1>1, <1>2, <1>3, <1>5, <2>1 DEF CallThrows, Appender!CallThrows, Appender!Outcome
<1>6. CASE PoolTimeout(Only)
  <2>1. Appender!FlushFails(FALSE, "pool")
    BY <1>1, <1>6, FlushFailsFails DEF PoolTimeout
  <2>2. QED
    BY <1>1, <1>2, <1>3, <1>6, <2>1 DEF PoolTimeout, Appender!PoolTimeout, Appender!Outcome, at
<1>7. CASE CredentialsError(Only)
  <2>1. Appender!FlushFails(FALSE, "credentials")
    BY <1>1, <1>7, FlushFailsFails DEF CredentialsError
  <2>2. QED
    BY <1>1, <1>3, <1>7, <2>1
      DEF CredentialsError, Appender!CredentialsError, Appender!Outcome, at
<1>8. QED
  BY <1>4, <1>5, <1>6, <1>7

\* What surrounds the client moves between its statements as between the actions.
LEMMA EnvironmentMoves ==
  ASSUME Tick \/ SparkEnvChanges \/ ExpireCredentials \/ UNCHANGED vars
  PROVE  Appender!Environment \/ UNCHANGED Appender!vars
<1>1. UNCHANGED <<pc, content, raised, buffer, lastFlush, isBackingOff, backOff, retries,
                  context, leased, added, stored>>
  BY DEF Tick, SparkEnvChanges, ExpireCredentials, vars, callVars, retryVars, envVars
<1>2. at' = at
  BY <1>1 DEF at
<1>3. /\ atomicBackOff' = atomicBackOff /\ atomicRetries' = atomicRetries
      /\ atomicBuffer' = atomicBuffer /\ atomicAdded' = atomicAdded
      /\ atomicCall' = atomicCall /\ atomicContent' = atomicContent
      /\ atomicRaised' = atomicRaised
  BY <1>1, <1>2 DEF atomicBackOff, atomicRetries, atomicBuffer, atomicAdded, atomicCall,
    atomicContent, atomicRaised, Adding, Succeeded, Calling, at
<1>4. atomicBacking' = atomicBacking
  BY <1>1, <1>2 DEF atomicBacking, Succeeded
<1> USE <1>1, <1>3, <1>4 DEF Appender!vars, Appender!retryVars, Appender!callVars,
      Appender!envVars, Appender!Environment
<1>5. CASE Tick
  BY <1>5 DEF Tick, Appender!Tick
<1>6. CASE SparkEnvChanges
  BY <1>6 DEF SparkEnvChanges, Appender!SparkEnvChanges, ContextFields, Appender!ContextFields
<1>7. CASE ExpireCredentials
  BY <1>7 DEF ExpireCredentials, Appender!ExpireCredentials, envVars
<1>8. CASE UNCHANGED vars
  BY <1>8 DEF vars, envVars
<1>9. QED
  BY <1>5, <1>6, <1>7, <1>8

-----------------------------------------------------------------------------
\* A client that one thread uses implements the atomic model of it: flushes that begin a
\* statement after they were found due, outcomes that take three statements, and a clock,
\* a SparkEnv and credentials that move in between make no difference that shows.
THEOREM StatementsRefineActions ==
  ASSUME NEW thread, Threads = {thread}
  PROVE  Spec => RefinesAppender
<1>1. OneThread
  BY DEF OneThread, Only
<1>2. Init => Appender!Init
  <2> SUFFICES ASSUME Init
               PROVE  Appender!Init
    OBVIOUS
  <2>1. at = "idle" /\ atomicRaised = "none"
    BY <1>1 DEF OneThread, Init, at, atomicRaised
  <2>2. atomicBacking = FALSE
    BY Zenon DEF Init, atomicBacking
  <2>3. QED
    BY <2>1, <2>2 DEF Init, Appender!Init, atomicBuffer, atomicAdded, atomicBackOff,
      atomicRetries, atomicCall, atomicContent, Adding, Succeeded, Calling, at
<1>3. SharedInv /\ [Next]_vars => [Appender!AppenderNext]_(Appender!vars)
  <2> SUFFICES ASSUME SharedInv, [Next]_vars
               PROVE  Appender!AppenderNext \/ UNCHANGED Appender!vars
    OBVIOUS
  <2> USE <1>1 DEF Appender!AppenderNext, Appender!append
  <2>1. CASE AppendEvent(Only)
    BY <2>1, AppendStutters
  <2>2. CASE CheckDue(Only)
    BY <2>2, CheckDueAdds
  <2>3. CASE MapBuffer(Only)
    BY <2>3, MapBufferAdds
  <2>4. CASE PipelineStores(Only)
    BY <2>4, PipelineStoresStores
  <2>5. CASE SetFlushTime(Only)
    BY <2>5, SetFlushTimeSucceeds DEF Appender!Outcome
  <2>6. CASE ClearBuffer(Only)
    BY <2>6, ClearBufferStutters
  <2>7. CASE ResetBackOff(Only)
    BY <2>7, ResetBackOffStutters
  <2>8. CASE Rejected(Only) \/ CallThrows(Only) \/ PoolTimeout(Only) \/ CredentialsError(Only)
    BY <2>8, FailuresAreOutcomes
  <2>9. CASE Tick \/ SparkEnvChanges \/ ExpireCredentials \/ UNCHANGED vars
    BY <2>9, EnvironmentMoves
  <2>10. QED
    BY <2>1, <2>2, <2>3, <2>4, <2>5, <2>6, <2>7, <2>8, <2>9 DEF Next, Step, OneThread
<1>4. Init => SharedInv
  BY <1>1, SharedInit
<1>5. SharedInv /\ [Next]_vars => SharedInv'
  BY <1>1, SharedStep
<1>6. QED
  BY <1>2, <1>3, <1>4, <1>5, PTL DEF Spec, RefinesAppender, Appender!AppenderSpec

-----------------------------------------------------------------------------
(* What was proved of the atomic model.                                    *)

\* The proofs about the appender, of the mapped variables.
A == INSTANCE ObservabilityClientProofs WITH
  buffer <- atomicBuffer, added <- atomicAdded,
  isBackingOff <- atomicBacking, backOff <- atomicBackOff, retries <- atomicRetries,
  call <- atomicCall, content <- atomicContent, raised <- atomicRaised

\* The two instances of the appender say the same.
LEMMA SameAppender ==
  /\ Appender!Init => A!Init
  /\ [Appender!AppenderNext]_(Appender!vars) => [A!AppenderNext]_(A!vars)
<1>1. Appender!Init => A!Init
  BY DEF Appender!Init, A!Init
<1> USE DEF Appender!callVars, A!callVars, Appender!retryVars, A!retryVars,
            Appender!envVars, A!envVars
<1>2. UNCHANGED Appender!vars => UNCHANGED A!vars
  BY DEF Appender!vars, A!vars
<1>3. Appender!Add => A!Add
  BY DEF Appender!Add, A!Add, Appender!FlushIsDue, A!FlushIsDue,
         Appender!durationSinceLastFlush, A!durationSinceLastFlush, Appender!BeginFlush,
         A!BeginFlush, Appender!contextAtFlush, A!contextAtFlush,
         Appender!logContextInitialized, A!logContextInitialized, Appender!ContextFields,
         A!ContextFields, Appender!Convertible, A!Convertible, Appender!Range, A!Range
<1>4. Appender!Outcome => A!Outcome
  <2> USE DEF Appender!FlushFails, A!FlushFails, Appender!Lesser, A!Lesser,
              Appender!ResolveCredentials, A!ResolveCredentials,
              Appender!ConnectionFree, A!ConnectionFree
  <2>1. Appender!FlushSucceeds => A!FlushSucceeds
    BY DEF Appender!FlushSucceeds, A!FlushSucceeds, Appender!StatusOK, A!StatusOK,
           Appender!ResetBackOff, A!ResetBackOff
  <2>2. Appender!Rejected => A!Rejected
    BY DEF Appender!Rejected, A!Rejected
  <2>3. Appender!CallThrows => A!CallThrows
    BY DEF Appender!CallThrows, A!CallThrows
  <2>4. Appender!PoolTimeout => A!PoolTimeout
    BY DEF Appender!PoolTimeout, A!PoolTimeout
  <2>5. Appender!CredentialsError => A!CredentialsError
    BY DEF Appender!CredentialsError, A!CredentialsError
  <2>6. QED
    BY <2>1, <2>2, <2>3, <2>4, <2>5 DEF Appender!Outcome, A!Outcome
<1>5. Appender!PipelineStores => A!PipelineStores
  BY DEF Appender!PipelineStores, A!PipelineStores, Appender!ResolveCredentials,
         A!ResolveCredentials, Appender!ConnectionFree, A!ConnectionFree, Appender!Range, A!Range,
         Appender!Acceptable, A!Acceptable
<1>6. Appender!Environment => A!Environment
  BY DEF Appender!Environment, A!Environment, Appender!Tick, A!Tick, Appender!SparkEnvChanges,
         A!SparkEnvChanges, Appender!ContextFields, A!ContextFields,
         Appender!ExpireCredentials, A!ExpireCredentials
<1>7. QED
  BY <1>1, <1>2, <1>3, <1>4, <1>5, <1>6
  DEF Appender!AppenderNext, A!AppenderNext, Appender!append, A!append

\* One thread is an appender of the atomic model in every behaviour.
LEMMA ThreadIsAppender ==
  ASSUME NEW thread, Threads = {thread}
  PROVE  Spec => A!AppenderSpec
<1>1. Spec => Appender!AppenderSpec
  BY StatementsRefineActions DEF RefinesAppender
<1>2. Appender!AppenderSpec => A!AppenderSpec
  BY SameAppender, PTL DEF Appender!AppenderSpec, A!AppenderSpec
<1>3. QED
  BY <1>1, <1>2, PTL

\* So one thread that logs, too, spends its last retry only when its last success is the time
\* threshold and the final back-off in the past.
THEOREM ExhaustionOfOneThread ==
  ASSUME NEW thread, Threads = {thread}, MaxRetries > 0
  PROVE  Spec => ExhaustedAfterSilence
<1>1. A!ClientAssumption
  BY SharedAssumption DEF SharedAssumption, A!ClientAssumption
<1>2. Spec => A!AppenderSpec
  BY ThreadIsAppender
<1>3. A!AppenderSpec => A!ExhaustedAfterSilence
  BY <1>1, A!Exhaustion
<1>4. [atomicRaised # "exhausted" /\ atomicRaised' = "exhausted" =>
         now - lastFlush >= BatchTime + A!FinalBackOff]_(A!vars)
      => [atomicRaised # "exhausted" /\ atomicRaised' = "exhausted" =>
            now - lastFlush >= BatchTime + Appender!FinalBackOff]_(Appender!vars)
  BY DEF A!FinalBackOff, Appender!FinalBackOff, A!PowerOfTwo, Appender!PowerOfTwo, A!Lesser,
         Appender!Lesser, A!vars, Appender!vars, Appender!callVars, A!callVars,
         Appender!retryVars, A!retryVars, Appender!envVars, A!envVars
<1>5. A!ExhaustedAfterSilence => Appender!ExhaustedAfterSilence
  BY <1>4, PTL DEF A!ExhaustedAfterSilence, Appender!ExhaustedAfterSilence
<1>6. QED
  BY <1>2, <1>3, <1>5, PTL DEF ExhaustedAfterSilence

\* And it clears no record that was not sent: what two threads do to each other at
\* buffer.clear() takes two threads.
THEOREM OneThreadClearsWhatItSent ==
  ASSUME NEW thread, Threads = {thread}
  PROVE  Spec => []ClearedWereSent
<1>0. OneThread
  BY DEF OneThread, Only
<1>1. A!ClientAssumption
  BY SharedAssumption DEF SharedAssumption, A!ClientAssumption
<1>2. SharedInv /\ A!IInv => ClearedWereSent
  <2> SUFFICES ASSUME SharedInv, A!IInv, NEW r \in 1..added
               PROVE  r \in stored \cup Range(buffer)
    BY DEF ClearedWereSent
  <2>1. /\ atomicBuffer \in Seq(Nat) /\ Len(atomicBuffer) \in Nat /\ atomicAdded \in Nat
        /\ Len(atomicBuffer) <= atomicAdded
        /\ \A i \in 1..Len(atomicBuffer) :
             atomicBuffer[i] = atomicAdded - Len(atomicBuffer) + i
        /\ 1 .. atomicAdded - Len(atomicBuffer) \subseteq stored
    BY DEF A!IInv, A!TypeOK, A!NoRecordLost
  <2>2. ASSUME r <= atomicAdded
        PROVE  \/ r \in stored
               \/ \E i \in 1..Len(atomicBuffer) : atomicBuffer[i] = r
    <3>1. CASE r <= atomicAdded - Len(atomicBuffer)
      BY <2>1, <3>1
    <3>2. CASE ~(r <= atomicAdded - Len(atomicBuffer))
      <4>1. PICK i : i = r - (atomicAdded - Len(atomicBuffer))
        OBVIOUS
      <4>2. i \in 1..Len(atomicBuffer) /\ r = atomicAdded - Len(atomicBuffer) + i
        BY <2>1, <2>2, <3>2, <4>1
      <4>3. QED
        BY <2>1, <4>2
    <3>3. QED
      BY <3>1, <3>2
  <2>3. buffer \in Seq(Nat) /\ added \in Nat
    BY DEF SharedInv
  <2>4. CASE Adding
    <3>1. /\ buffer # <<>> /\ buffer[Len(buffer)] = added
          /\ atomicBuffer = Front(buffer) /\ atomicAdded = added - 1
      BY <2>4 DEF SharedInv, atomicBuffer, atomicAdded
    <3>2. Len(buffer) \in DOMAIN buffer
      BY <2>3, <3>1
    <3>3. CASE r = added
      BY <3>1, <3>2, <3>3 DEF Range
    <3>4. CASE r # added
      <4>1. \/ r \in stored
            \/ \E i \in 1..Len(atomicBuffer) : atomicBuffer[i] = r
        BY <2>2, <2>3, <3>1, <3>4
      <4>2. /\ Len(Front(buffer)) = Len(buffer) - 1
            /\ \A i \in 1..Len(buffer) - 1 : Front(buffer)[i] = buffer[i]
        BY <2>3, <3>1, AppendToFront
      <4>3. \A i \in 1..Len(atomicBuffer) : i \in DOMAIN buffer /\ atomicBuffer[i] = buffer[i]
        BY <2>3, <3>1, <4>2
      <4>4. QED
        BY <4>1, <4>3 DEF Range
    <3>5. QED
      BY <3>3, <3>4
  <2>5. CASE ~Adding
    <3>1. atomicAdded = added /\ atomicBuffer \in {buffer, <<>>}
      BY <2>5 DEF atomicAdded, atomicBuffer
    <3>2. \/ r \in stored
          \/ \E i \in 1..Len(atomicBuffer) : atomicBuffer[i] = r
      BY <2>2, <2>3, <3>1
    <3>3. CASE atomicBuffer = <<>>
      BY <3>2, <3>3
    <3>4. CASE atomicBuffer = buffer
      BY <2>3, <3>2, <3>4 DEF Range
    <3>5. QED
      BY <3>1, <3>3, <3>4
  <2>6. QED
    BY <2>4, <2>5
<1>3. Spec => A!AppenderSpec
  BY ThreadIsAppender
<1>4. A!AppenderSpec => [](A!IInv /\ A!BackOffSchedule)
  BY <1>1, A!AppenderInvariants
<1>5. Spec => []SharedInv
  <2>1. Init => SharedInv
    BY <1>0, SharedInit
  <2>2. SharedInv /\ [Next]_vars => SharedInv'
    BY <1>0, SharedStep
  <2>3. QED
    BY <2>1, <2>2, PTL DEF Spec
<1>6. QED
  BY <1>2, <1>3, <1>4, <1>5, PTL
=============================================================================
