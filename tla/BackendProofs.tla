--------------------------- MODULE BackendProofs ---------------------------
(***************************************************************************)
(* Proofs about the bootstrap and the rotation that share a user's secret, *)
(* for every set of saved objects, every number of requests and versions,  *)
(* and every number of invocations at one time.                            *)
(***************************************************************************)
EXTENDS Backend, TLAPS

-----------------------------------------------------------------------------
(* Backend does nothing to the domain that Bootstrap does not.             *)

\* Reading the secret before the user is put is a stutter of Bootstrap, or a crash of
\* its handler; a step of the rotation changes nothing of it.
LEMMA BootstrapStep == [BackendNext]_backendVars => [Next]_vars
<1> SUFFICES ASSUME [BackendNext]_backendVars
             PROVE  [Next]_vars
  OBVIOUS
<1>1. CASE ReadSecret
  <2>1. CASE values[stages.AWSCURRENT].form = "json"
    BY <1>1, <2>1 DEF ReadSecret
  <2>2. CASE values[stages.AWSCURRENT].form # "json"
    BY <1>1, <2>2 DEF ReadSecret, PutsUser, Creating, Next, Crash
  <2>3. QED
    BY <2>1, <2>2
<1>2. CASE PutUser
  BY <1>2 DEF PutUser, Next
<1>3. CASE DeleteUser
  BY <1>3 DEF DeleteUser, Next
<1>4. CASE OtherBootstrap
  BY <1>4 DEF OtherBootstrap, Next
<1>5. CASE BootstrapFails
  BY <1>5 DEF BootstrapFails, Next
<1>6. CASE RotationSteps \/ UNCHANGED backendVars
  BY <1>6 DEF RotationSteps, backendVars
<1>7. QED
  BY <1>1, <1>2, <1>3, <1>4, <1>5, <1>6 DEF BackendNext

\* The bootstrap beside a rotation implements the bootstrap on its own: what holds of
\* the latter, as what a created resource has, holds of the former.
THEOREM BackendImplementsBootstrap == BackendSpec => Spec
<1>1. BackendInit => Init
  BY DEF BackendInit
<1>2. [BackendNext]_backendVars => [Next]_vars
  BY BootstrapStep
<1>3. QED
  BY <1>1, <1>2, PTL DEF BackendSpec, Spec

-----------------------------------------------------------------------------
(* The bootstrap.                                                          *)

\* What the calls put in place, as sets.
LEMMA Calls ==
  /\ Len(createCalls) = 9
  /\ \A i \in 1..9 :
       /\ createCalls[i] \in Range(createCalls)
       /\ createCalls[i] = "pipeline_role" <=> i = 1
  /\ Range(createCalls) =
       {"pipeline_role", "role_mapping", "database_change", "admin", "user",
        "spark_logs", "spark_task_metrics", "spark_stage_agg_metrics", "dashboards"}
  /\ \A c \in Range(createCalls) : \E i \in 1..9 : c = createCalls[i]
  BY DEF createCalls, Range

\* A delete makes seven calls.
LEMMA DeleteCalls == Len(deleteCalls) = 7
  BY DEF deleteCalls

\* A call puts in place things that are known, and none but its own.
LEMMA OutcomesOfCall ==
  ASSUME NEW c \in Range(createCalls), NEW objects \in Outcomes(c)
  PROVE  /\ objects \subseteq AllObjects
         /\ c # "dashboards" => objects = {c}
         /\ c = "dashboards" => objects # {} /\ objects \subseteq SavedObjects
<1>1. objects \in UNION {Outcomes(d) : d \in Range(createCalls)}
  OBVIOUS
<1>2. objects \subseteq AllObjects
  BY <1>1 DEF AllObjects
<1>3. CASE c = "dashboards"
  <2>1. objects \in (SUBSET SavedObjects) \ {{}}
    BY <1>3, Zenon DEF Outcomes
  <2>2. objects # {} /\ objects \subseteq SavedObjects
    BY <2>1, Zenon
  <2>3. QED
    BY <1>2, <1>3, <2>2
<1>4. CASE c # "dashboards"
  BY <1>2, <1>4 DEF Outcomes
<1>5. QED
  BY <1>3, <1>4

\* What call c leaves behind among the things in the domain.
Done(c, things) == IF c = "dashboards" THEN SavedObjects \cap things # {} ELSE c \in things

\* All calls before the n-th but the first have been accepted.
Progress(n, things) == \A i \in 2..9 : i < n => Done(createCalls[i], things)

\* The inductive invariant: what the handler has behind it is in place, and stays in
\* place while the resource counts as created, when nothing but a new request happens.
BootstrapInv ==
  /\ TypeOK
  /\ Creating => Progress(step, domain)
  /\ stack = "created" => request = "none" /\ Progress(10, domain)

\* Before the first request there is nothing in the domain.
LEMMA BootstrapInit == Init => BootstrapInv
<1> SUFFICES ASSUME Init
             PROVE  BootstrapInv
  OBVIOUS
<1>1. TypeOK
  BY Calls, BootstrapAssumption DEF Init, TypeOK, BootstrapAssumption
<1>2. QED
  BY <1>1 DEF Init, BootstrapInv, Creating

\* A request is answered: the resource counts as created only if the handler is through.
LEMMA AnswerInv ==
  ASSUME BootstrapInv, NEW ok \in BOOLEAN, request # "none", Answer(ok), UNCHANGED domain,
         ok => Creating /\ step > 9
  PROVE  BootstrapInv'
<1>1. TypeOK'
  BY Calls DEF Answer, AfterSuccess, AfterFailure, BootstrapInv, TypeOK
<1>2. ~Creating' /\ request' = "none"
  BY DEF Answer, Creating
<1>3. stack' = "created" => Progress(10, domain)
  <2>1. SUFFICES ASSUME stack' = "created"
                 PROVE  Progress(10, domain)
    OBVIOUS
  <2>2. ok
    BY <2>1 DEF Answer, AfterFailure, BootstrapInv, TypeOK
  <2>3. QED
    BY <2>2, Calls DEF BootstrapInv, TypeOK, Progress
<1>4. Progress(10, domain) => Progress(10, domain')
  BY DEF Progress, Done
<1>5. QED
  BY <1>1, <1>2, <1>3, <1>4 DEF BootstrapInv

\* Each step of the bootstrap keeps the extent of its calls.
LEMMA BootstrapInvStep == BootstrapInv /\ [Next]_vars => BootstrapInv'
<1> SUFFICES ASSUME BootstrapInv, [Next]_vars
             PROVE  BootstrapInv'
  OBVIOUS
<1> USE Calls, BootstrapAssumption DEF BootstrapAssumption
<1>1. ASSUME NEW kind \in {"Create", "Update", "Delete"},
             NEW state \in {"creating", "updating", "deleting"}, Send(kind, state)
      PROVE  BootstrapInv'
  <2>1. TypeOK'
    BY <1>1 DEF Send, BootstrapInv, TypeOK
  <2>2. step' = 1 /\ stack' # "created"
    BY <1>1 DEF Send
  <2>3. Progress(step', domain')
    BY <1>1, <2>2 DEF Send, Progress, BootstrapInv
  <2>4. QED
    BY <2>1, <2>2, <2>3 DEF BootstrapInv
<1>2. CASE SendCreate \/ SendUpdate \/ SendDelete
  BY <1>1, <1>2 DEF SendCreate, SendUpdate, SendDelete
<1>3. CASE CreateCall
  <2>1. step \in 1..9 /\ createCalls[step] \in Range(createCalls)
    BY <1>3 DEF CreateCall, BootstrapInv, TypeOK
  <2>2. PICK objects \in Outcomes(createCalls[step]) : domain' = domain \cup objects
    BY <1>3 DEF CreateCall
  <2>3. /\ objects \subseteq AllObjects
        /\ createCalls[step] # "dashboards" => objects = {createCalls[step]}
        /\ createCalls[step] = "dashboards" => objects # {} /\ objects \subseteq SavedObjects
    BY <2>1, <2>2, OutcomesOfCall
  <2>4. TypeOK'
    BY <1>3, <2>1, <2>2, <2>3 DEF CreateCall, BootstrapInv, TypeOK
  <2>5. Creating' /\ stack' # "created" /\ step' = step + 1
    BY <1>3 DEF CreateCall, BootstrapInv, Creating
  <2>6. ASSUME NEW c, Done(c, domain)
        PROVE  Done(c, domain')
    BY <2>2, <2>6 DEF Done
  <2>7. Done(createCalls[step], domain')
    BY <2>1, <2>2, <2>3 DEF Done
  <2>8. Progress(step + 1, domain')
    <3>1. SUFFICES ASSUME NEW i \in 2..9, i < step + 1
                   PROVE  Done(createCalls[i], domain')
      BY DEF Progress
    <3>2. CASE i < step
      BY <1>3, <2>6, <3>2 DEF CreateCall, BootstrapInv, Progress
    <3>3. CASE i = step
      BY <2>7, <3>3
    <3>4. QED
      BY <2>1, <3>1, <3>2, <3>3
  <2>9. QED
    BY <2>4, <2>5, <2>8 DEF BootstrapInv
<1>4. CASE CreateRefused
  <2>1. CASE Checked(createCalls[step])
    BY <1>4, <2>1, AnswerInv DEF CreateRefused, Creating
  <2>2. CASE ~Checked(createCalls[step])
    <3>1. step = 1 /\ step' = 2 /\ UNCHANGED <<stack, request, requests, domain>>
      BY <1>4, <2>2 DEF CreateRefused, Checked, BootstrapInv, TypeOK
    <3>2. TypeOK'
      BY <3>1 DEF BootstrapInv, TypeOK
    <3>3. Creating /\ Creating'
      BY <1>4, <3>1 DEF CreateRefused, Creating
    <3>4. Progress(2, domain') /\ stack' # "created"
      BY <3>1, <3>3 DEF Progress, BootstrapInv, Creating
    <3>5. QED
      BY <3>1, <3>2, <3>4 DEF BootstrapInv
  <2>3. QED
    BY <2>1, <2>2
<1>5. CASE CreateReturns
  BY <1>5, AnswerInv DEF CreateReturns, Creating
<1>6. CASE DeleteCall
  <2>1. CASE deleteCalls[step] \in domain
    <3>1. domain' = domain \ {deleteCalls[step]} /\ step' = step + 1 /\ step \in 1..7
      BY <1>6, <2>1, DeleteCalls DEF DeleteCall, BootstrapInv, TypeOK
    <3>2. UNCHANGED <<stack, request, requests>> /\ request = "Delete"
      BY <1>6, <2>1 DEF DeleteCall
    <3>3. TypeOK'
      BY <3>1, <3>2 DEF BootstrapInv, TypeOK
    <3>4. QED
      BY <3>2, <3>3 DEF BootstrapInv, Creating
  <2>2. CASE deleteCalls[step] \notin domain
    BY <1>6, <2>2, AnswerInv DEF DeleteCall
  <2>3. QED
    BY <2>1, <2>2
<1>7. CASE DeleteRefused \/ DeleteSavedObjects \/ Crash
  BY <1>7, AnswerInv DEF DeleteRefused, DeleteSavedObjects, Crash
<1>8. CASE DatabaseEnabled
  <2>1. /\ domain' = domain \cup {InternalUsers}
        /\ UNCHANGED <<stack, request, step, requests>>
    BY <1>8 DEF DatabaseEnabled
  <2>2. TypeOK'
    BY <2>1 DEF BootstrapInv, TypeOK
  <2>3. \A n : Progress(n, domain) => Progress(n, domain')
    BY <2>1 DEF Progress, Done
  <2>4. QED
    BY <2>1, <2>2, <2>3 DEF BootstrapInv, Creating
<1>9. CASE UNCHANGED vars
  BY <1>9 DEF vars, BootstrapInv, TypeOK, Creating, Progress, Done
<1>10. QED
  BY <1>2, <1>3, <1>4, <1>5, <1>6, <1>7, <1>8, <1>9 DEF Next

\* The invariant of the bootstrap on its own.
LEMMA BootstrapInvAlways == Spec => []BootstrapInv
<1>1. Init => BootstrapInv
  BY BootstrapInit
<1>2. BootstrapInv /\ [Next]_vars => BootstrapInv'
  BY BootstrapInvStep
<1>3. QED
  BY <1>1, <1>2, PTL DEF Spec

\* A resource that counts as created has everything whose creation is checked, for any
\* number of requests and any saved objects.
THEOREM CreatedComplete == Spec => []CreatedIsComplete
<1>1. BootstrapInv => CreatedIsComplete
  <2> SUFFICES ASSUME BootstrapInv, stack = "created"
               PROVE  /\ AllObjects \ (SavedObjects \cup {"pipeline_role"}) \subseteq domain
                      /\ SavedObjects \cap domain # {}
    BY DEF CreatedIsComplete
  <2>1. ASSUME NEW c \in Range(createCalls), c # "pipeline_role"
        PROVE  Done(c, domain)
    BY <2>1, Calls DEF BootstrapInv, Progress
  <2>2. SavedObjects \cap domain # {}
    <3>1. Done("dashboards", domain)
      BY <2>1, Calls
    <3>2. QED
      BY <3>1 DEF Done
  <2>3. ASSUME NEW x \in AllObjects, x \notin SavedObjects, x # "pipeline_role"
        PROVE  x \in domain
    <3>1. PICK c \in Range(createCalls) : \E objects \in Outcomes(c) : x \in objects
      BY <2>3 DEF AllObjects
    <3>2. PICK objects \in Outcomes(c) : x \in objects
      BY <3>1
    <3>3. c # "dashboards" /\ x = c
      BY <2>3, <3>2, OutcomesOfCall
    <3>4. QED
      BY <2>1, <2>3, <3>3 DEF Done
  <2>4. QED
    BY <2>2, <2>3
<1>2. QED
  BY <1>1, BootstrapInvAlways, PTL

-----------------------------------------------------------------------------
(* The rotation.                                                           *)

\* The stack creates one version with a value.
LEMMA RotationTypeInit == RotationInit => RotationTypeOK
<1> SUFFICES ASSUME RotationInit
             PROVE  RotationTypeOK
  OBVIOUS
<1> USE RotationAssumption DEF RotationAssumption
<1>1. PICK p \in Password :
        values = [v \in Version |->
                    IF v = FirstVersion THEN [form |-> "json", password |-> p] ELSE NoValue]
  BY DEF RotationInit
<1>2. values \in [Version -> Value]
  BY <1>1 DEF NoValue, Value
<1>3. stages \in [{"AWSCURRENT", "AWSPENDING"} -> Version \cup {None}]
  BY DEF RotationInit
<1>4. Idle \in [at : {"idle", "loading", "create", "put"}, token : Version, step : Step]
  BY DEF Idle, Step
<1>5. QED
  BY <1>2, <1>3, <1>4 DEF RotationInit, RotationTypeOK

\* What an invocation leaves to Secrets Manager when it ends or goes on.
LEMMA InvocationType ==
  ASSUME RotationTypeOK, NEW w \in Worker,
         \/ Raises(w)
         \/ Returns(w)
         \/ \E at \in {"create", "put"} : Goes(w, at)
  PROVE  RotationTypeOK'
<1> USE RotationAssumption DEF RotationAssumption
<1>1. Idle \in [at : {"idle", "loading", "create", "put"}, token : Version, step : Step]
  BY DEF Idle, Step
<1>2. CASE Raises(w)
  BY <1>1, <1>2 DEF Raises, RotationTypeOK
<1>3. CASE Returns(w)
  <2>1. asked' \subseteq Version \X Step
    BY <1>3 DEF Returns, RotationTypeOK, Step
  <2>2. QED
    BY <1>1, <1>3, <2>1 DEF Returns, RotationTypeOK
<1>4. ASSUME NEW at \in {"create", "put"}, Goes(w, at)
      PROVE  RotationTypeOK'
  BY <1>4 DEF Goes, RotationTypeOK
<1>5. QED
  BY <1>2, <1>3, <1>4

\* Each step of a rotation keeps the ranges of its variables.
LEMMA RotationTypeStep == RotationTypeOK /\ [RotationNext]_rotationVars => RotationTypeOK'
<1> SUFFICES ASSUME RotationTypeOK, [RotationNext]_rotationVars
             PROVE  RotationTypeOK'
  OBVIOUS
<1> USE RotationAssumption DEF RotationAssumption
<1>1. ASSUME NEW v \in Version, RotateSecret(v)
      PROVE  RotationTypeOK'
  <2>1. stages' \in [{"AWSCURRENT", "AWSPENDING"} -> Version \cup {None}]
    BY <1>1 DEF RotateSecret, RotationTypeOK
  <2>2. asked' \subseteq Version \X Step
    BY <1>1 DEF RotateSecret, RotationTypeOK, Step
  <2>3. QED
    BY <1>1, <2>1, <2>2 DEF RotateSecret, RotationTypeOK
<1>2. CASE CancelRotateSecret
  <2>1. stages' \in [{"AWSCURRENT", "AWSPENDING"} -> Version \cup {None}]
    BY <1>2 DEF CancelRotateSecret, RotationTypeOK
  <2>2. QED
    BY <1>2, <2>1 DEF CancelRotateSecret, RotationTypeOK
<1>3. CASE CompleteEnvironment
  BY <1>3 DEF CompleteEnvironment, RotationTypeOK
<1>4. ASSUME NEW w \in Worker, Invoke(w)
      PROVE  RotationTypeOK'
  <2>1. PICK sent \in asked :
          invocation' = [invocation EXCEPT
            ![w] = [at |-> "loading", token |-> sent[1], step |-> sent[2]]]
    BY <1>4 DEF Invoke
  <2>2. sent[1] \in Version /\ sent[2] \in Step
    BY <2>1 DEF RotationTypeOK
  <2>3. QED
    BY <1>4, <2>1, <2>2 DEF Invoke, RotationTypeOK
<1>5. ASSUME NEW w \in Worker, Load(w) \/ LookUp(w) \/ Fails(w)
      PROVE  RotationTypeOK'
  BY <1>5, InvocationType DEF Load, LookUp, Fails
<1>6. ASSUME NEW w \in Worker, Put(w)
      PROVE  RotationTypeOK'
  <2>1. PICK password \in Password : put_secret_value(w, password)
    BY <1>6 DEF Put
  <2>2. invocation[w].token \in Version
    BY DEF RotationTypeOK
  <2>3. values' \in [Version -> Value]
    BY <2>1, <2>2 DEF put_secret_value, RotationTypeOK, Value
  <2>4. stages' \in [{"AWSCURRENT", "AWSPENDING"} -> Version \cup {None}]
    BY <2>1, <2>2 DEF put_secret_value, RotationTypeOK
  <2>5. Idle \in [at : {"idle", "loading", "create", "put"}, token : Version, step : Step]
    BY DEF Idle, Step
  <2>6. asked' \subseteq Version \X Step
    BY <1>6, <2>2 DEF Put, RotationTypeOK, Step
  <2>7. QED
    BY <1>6, <2>3, <2>4, <2>5, <2>6 DEF Put, RotationTypeOK
<1>7. CASE UNCHANGED rotationVars
  BY <1>7 DEF rotationVars, RotationTypeOK
<1>8. QED
  BY <1>1, <1>2, <1>3, <1>4, <1>5, <1>6, <1>7 DEF RotationNext, Handler

\* The first version stays the current one, with the value it was created with: the
\* only call that moves a label moves the other one, and a value is put where none is.
CurrentIsFirst ==
  /\ stages.AWSCURRENT = FirstVersion
  /\ values[FirstVersion].form = "json"

\* No step of a rotation moves AWSCURRENT or changes the value it is attached to.
LEMMA CurrentStep ==
  ASSUME RotationTypeOK, CurrentIsFirst, [RotationNext]_rotationVars
  PROVE  CurrentIsFirst' /\ values'[FirstVersion] = values[FirstVersion]
<1> USE RotationAssumption DEF RotationAssumption
<1>1. ASSUME NEW v \in Version, RotateSecret(v)
      PROVE  CurrentIsFirst' /\ values'[FirstVersion] = values[FirstVersion]
  BY <1>1 DEF RotateSecret, CurrentIsFirst, RotationTypeOK
<1>2. CASE CancelRotateSecret
  BY <1>2 DEF CancelRotateSecret, CurrentIsFirst, RotationTypeOK
<1>3. CASE CompleteEnvironment \/ \E w \in Worker : Invoke(w)
  BY <1>3 DEF CompleteEnvironment, Invoke, CurrentIsFirst
<1>4. ASSUME NEW w \in Worker, Load(w) \/ LookUp(w) \/ Fails(w)
      PROVE  UNCHANGED <<stages, values>>
  BY <1>4 DEF Load, LookUp, Fails, Raises, Returns, Goes
<1>5. ASSUME NEW w \in Worker, Put(w)
      PROVE  CurrentIsFirst' /\ values'[FirstVersion] = values[FirstVersion]
  <2>1. PICK password \in Password :
          /\ values[invocation[w].token] \in
               {NoValue, [form |-> "bare", password |-> password]}
          /\ put_secret_value(w, password)
    BY <1>5 DEF Put
  <2>2. values[invocation[w].token].form # "json"
    BY <2>1 DEF NoValue
  <2>3. invocation[w].token # FirstVersion
    BY <2>2 DEF CurrentIsFirst
  <2>4. values'[FirstVersion] = values[FirstVersion]
    BY <2>1, <2>3 DEF put_secret_value, RotationTypeOK
  <2>5. stages'.AWSCURRENT = stages.AWSCURRENT
    BY <2>1 DEF put_secret_value, RotationTypeOK
  <2>6. QED
    BY <2>4, <2>5 DEF CurrentIsFirst
<1>6. CASE UNCHANGED rotationVars
  BY <1>6 DEF rotationVars, CurrentIsFirst
<1>7. QED
  BY <1>1, <1>2, <1>3, <1>4, <1>5, <1>6 DEF RotationNext, Handler, CurrentIsFirst

-----------------------------------------------------------------------------
(* Both together.                                                          *)

\* The inductive invariant.  PasswordInForce alone is not inductive: it needs what the
\* bootstrap has read to be the current value until it is put, and the current version
\* not to change in between.
BackendInv ==
  /\ BootstrapInv
  /\ RotationTypeOK
  /\ CurrentIsFirst
  /\ read \in {NoValue, values[FirstVersion]}
  /\ userPassword \in Password \cup {None}
  /\ "user" \in domain => userPassword = values[FirstVersion].password

\* A call that puts something else does not put the user.
LEMMA OtherCall ==
  ASSUME BootstrapInv, ~PutsUser, CreateCall, "user" \in domain'
  PROVE  "user" \in domain
<1>1. step \in 1..9 /\ createCalls[step] \in Range(createCalls) /\ createCalls[step] # "user"
  BY Calls DEF CreateCall, PutsUser, BootstrapInv, TypeOK
<1>2. PICK objects \in Outcomes(createCalls[step]) : domain' = domain \cup objects
  BY DEF CreateCall
<1>3. "user" \notin objects
  BY <1>1, <1>2, OutcomesOfCall, SavedObjectsAssumption, Calls
<1>4. QED
  BY <1>2, <1>3

\* The bootstrap leaves the secret as it is, and a rotation the rest.
LEMMA SharedStep ==
  ASSUME BackendInv, [BackendNext]_backendVars
  PROVE  BootstrapInv' /\ RotationTypeOK' /\ CurrentIsFirst'
         /\ values'[FirstVersion] = values[FirstVersion]
<1>1. BootstrapInv'
  BY BootstrapStep, BootstrapInvStep DEF BackendInv
<1>2. [RotationNext]_rotationVars
  BY DEF BackendNext, ReadSecret, PutUser, DeleteUser, OtherBootstrap, BootstrapFails,
         RotationSteps, backendVars
<1>3. RotationTypeOK'
  BY <1>2, RotationTypeStep DEF BackendInv
<1>4. CurrentIsFirst' /\ values'[FirstVersion] = values[FirstVersion]
  BY <1>2, CurrentStep DEF BackendInv
<1>5. QED
  BY <1>1, <1>3, <1>4

\* Each step of either program keeps the password of the first version in force.
LEMMA BackendInvStep == BackendInv /\ [BackendNext]_backendVars => BackendInv'
<1> SUFFICES ASSUME BackendInv, [BackendNext]_backendVars
             PROVE  BackendInv'
  OBVIOUS
<1>0. /\ BootstrapInv' /\ RotationTypeOK' /\ CurrentIsFirst'
      /\ values'[FirstVersion] = values[FirstVersion]
  BY SharedStep
<1>a. values[FirstVersion] # NoValue /\ values[FirstVersion].password \in Password \cup {None}
  BY RotationAssumption DEF RotationAssumption, BackendInv, CurrentIsFirst, NoValue,
     RotationTypeOK, Value
<1> DEFINE Rest == /\ read \in {NoValue, values[FirstVersion]}
                   /\ userPassword \in Password \cup {None}
                   /\ "user" \in domain => userPassword = values[FirstVersion].password
<1>b. SUFFICES Rest'
  BY <1>0 DEF BackendInv
<1>c. Rest
  BY DEF BackendInv
<1>1. CASE ReadSecret
  <2>1. values[stages.AWSCURRENT] = values[FirstVersion]
    BY DEF BackendInv, CurrentIsFirst
  <2>2. UNCHANGED <<domain, userPassword>>
    BY <1>1 DEF ReadSecret, vars
  <2>3. read' \in {NoValue, values[FirstVersion]}
    BY <1>1, <1>c, <2>1 DEF ReadSecret
  <2>4. QED
    BY <1>0, <1>c, <2>2, <2>3
<1>2. CASE PutUser
  BY <1>0, <1>a, <1>c, <1>2 DEF PutUser
<1>3. CASE DeleteUser
  <2>1. "user" \in domain' => "user" \in domain
    BY <1>3 DEF DeleteUser, DeleteCall
  <2>2. userPassword' \in Password \cup {None}
    BY <1>3, <1>c DEF DeleteUser
  <2>3. QED
    BY <1>0, <1>3, <1>c, <2>1, <2>2 DEF DeleteUser
<1>4. CASE OtherBootstrap
  <2>1. "user" \in domain' => "user" \in domain
    <3>1. CASE DatabaseEnabled
      <4>1. domain' = domain \cup {"internal_database"}
        BY <3>1 DEF DatabaseEnabled, InternalUsers
      <4>2. "user" # "internal_database"
        OBVIOUS
      <4>3. QED
        BY <4>1, <4>2
    <3>2. CASE ~DatabaseEnabled
      BY <1>4, <3>2, OtherCall DEF OtherBootstrap, BackendInv, SendCreate, SendUpdate,
         SendDelete, Send, CreateReturns, DeleteSavedObjects
    <3>3. QED
      BY <3>1, <3>2
  <2>2. QED
    BY <1>0, <1>4, <1>c, <2>1 DEF OtherBootstrap
<1>5. CASE BootstrapFails
  <2>1. UNCHANGED domain
    BY <1>5 DEF BootstrapFails, CreateRefused, DeleteRefused, Crash
  <2>2. QED
    BY <1>0, <1>5, <1>c, <2>1 DEF BootstrapFails
<1>6. CASE RotationSteps \/ UNCHANGED backendVars
  <2>1. UNCHANGED <<domain, read, userPassword>>
    BY <1>6 DEF RotationSteps, backendVars, vars
  <2>2. QED
    BY <1>0, <1>c, <2>1
<1>7. QED
  BY <1>1, <1>2, <1>3, <1>4, <1>5, <1>6 DEF BackendNext

\* The invariant of both programs.
LEMMA BackendInvAlways == BackendSpec => []BackendInv
<1>1. BackendInit => BackendInv
  <2> SUFFICES ASSUME BackendInit
               PROVE  BackendInv
    OBVIOUS
  <2>1. BootstrapInv /\ RotationTypeOK
    BY BootstrapInit, RotationTypeInit DEF BackendInit
  <2>2. CurrentIsFirst
    BY RotationAssumption DEF RotationAssumption, BackendInit, RotationInit, CurrentIsFirst
  <2>3. QED
    BY <2>1, <2>2 DEF BackendInit, BackendInv, Init
<1>2. BackendInv /\ [BackendNext]_backendVars => BackendInv'
  BY BackendInvStep
<1>3. QED
  BY <1>1, <1>2, PTL DEF BackendSpec

\* Every variable of the bootstrap and of the rotation keeps its range, and the steps of
\* a rotation that the handler cannot enter are never entered.
THEOREM BackendTypeCorrect == BackendSpec => []BackendTypeOK
<1>1. BackendInv => BackendTypeOK
  <2> SUFFICES ASSUME BackendInv
               PROVE  BackendTypeOK
    OBVIOUS
  <2>1. NoValue \in Value /\ values[FirstVersion] \in Value
    BY RotationAssumption DEF RotationAssumption, BackendInv, RotationTypeOK, NoValue, Value
  <2>2. QED
    BY <2>1 DEF BackendInv, BackendTypeOK, BootstrapInv
<1>2. QED
  BY <1>1, BackendInvAlways, PTL

\* Whatever the rotation's handler and the bootstrap do, the current version of the
\* secret can be parsed, and its password is the one the domain has for the user.
THEOREM PasswordStaysInForce == BackendSpec => []PasswordInForce
<1>1. BackendInv => PasswordInForce
  BY DEF BackendInv, CurrentIsFirst, PasswordInForce
<1>2. QED
  BY <1>1, BackendInvAlways, PTL
=============================================================================
