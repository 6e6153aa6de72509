--------------------------- MODULE SecretRotation ---------------------------
(***************************************************************************)
(* The rotation of a dashboard user's secret: rotate.py's handler, called  *)
(* by Secrets Manager for one step of a rotation at a time.  A call may    *)
(* fail or exceed its time and is then repeated, also while the first one  *)
(* still runs; so one action is what lies between two calls of the handler *)
(* to Secrets Manager.  Secrets Manager and the operator are external.     *)
(*                                                                         *)
(* The bodies of set_secret, test_secret and finish_secret are left out:   *)
(* the handler cannot enter them.                                          *)
(***************************************************************************)
EXTENDS Integers

CONSTANTS
  Version,          \* versions of the secret, each with its token
  FirstVersion,     \* the one the stack creates
  Password,
  Worker,           \* invocations of the handler at one time
  None              \* neither a version nor a password

ASSUME RotationAssumption ==
  /\ FirstVersion \in Version
  /\ Password # {}
  /\ None \notin Version \cup Password

VARIABLES
  stages,           \* staging label -> the version it is attached to
  values,           \* version -> its value
  rotationEnabled,
  asked,            \* requests of Secrets Manager; each may be sent again
  environment,      \* of the function
  invocation        \* worker -> what it does

rotationVars == <<stages, values, rotationEnabled, asked, environment, invocation>>

Step == {"createSecret", "setSecret", "testSecret", "finishSecret"}

\* A generated secret is JSON with a user name, a rotated one the bare password.
Value == [form : {"json", "bare", "none"}, password : Password \cup {None}]

NoValue == [form |-> "none", password |-> None]

\* Read when the module is loaded.
Required == {"DOMAIN_NAME", "AWS_REGION", "DOMAIN_ENDPOINT", "SECRETS_MANAGER_ENDPOINT"}

\* What backend_stack.py sets, with what every function has.
Deployed == {"DOMAIN_NAME", "AWS_REGION"}

Idle == [at |-> "idle", token |-> FirstVersion, step |-> "createSecret"]

RotationTypeOK ==
  /\ stages \in [{"AWSCURRENT", "AWSPENDING"} -> Version \cup {None}]
  /\ values \in [Version -> Value]
  /\ rotationEnabled \in BOOLEAN
  /\ asked \subseteq Version \X Step
  /\ environment \in {Deployed, Required}
  /\ invocation \in
       [Worker -> [at : {"idle", "loading", "create", "put"}, token : Version, step : Step]]

RotationInit ==
  /\ stages = [AWSCURRENT |-> FirstVersion, AWSPENDING |-> None]
  /\ \E p \in Password :
       values = [v \in Version |->
                   IF v = FirstVersion THEN [form |-> "json", password |-> p] ELSE NoValue]
  /\ rotationEnabled = TRUE
  /\ asked = {}
  /\ environment = Deployed
  /\ invocation = [w \in Worker |-> Idle]

-----------------------------------------------------------------------------
(* Secrets Manager and the operator.                                       *)

\* A rotation begins when none is pending: a new version is staged, without a value.
RotateSecret(v) ==
  /\ stages.AWSPENDING = None
  /\ values[v] = NoValue
  /\ stages' = [stages EXCEPT !.AWSPENDING = v]
  /\ asked' = asked \cup {<<v, "createSecret">>}
  /\ rotationEnabled' = TRUE
  /\ UNCHANGED <<values, environment, invocation>>

\* A rotation is cancelled, and the label it leaves may be removed.
CancelRotateSecret ==
  /\ rotationEnabled' = FALSE
  /\ stages' \in {stages, [stages EXCEPT !.AWSPENDING = None]}
  /\ UNCHANGED <<values, asked, environment, invocation>>

\* The operator adds the variables that the function misses.
CompleteEnvironment ==
  /\ environment' = Required
  /\ UNCHANGED <<stages, values, rotationEnabled, asked, invocation>>

Invoke(w) ==
  /\ invocation[w].at = "idle"
  /\ \E request \in asked :
       invocation' = [invocation EXCEPT
         ![w] = [at |-> "loading", token |-> request[1], step |-> request[2]]]
  /\ UNCHANGED <<stages, values, rotationEnabled, asked, environment>>

-----------------------------------------------------------------------------
(* The handler.                                                            *)

Raises(w) ==
  /\ invocation' = [invocation EXCEPT ![w] = Idle]
  /\ UNCHANGED <<stages, values, rotationEnabled, asked, environment>>

\* Secrets Manager goes on with the next step when one has returned.
Returns(w) ==
  /\ asked' = asked \cup
       (IF invocation[w].step = "createSecret" THEN {<<invocation[w].token, "setSecret">>}
        ELSE {})
  /\ invocation' = [invocation EXCEPT ![w] = Idle]
  /\ UNCHANGED <<stages, values, rotationEnabled, environment>>

Goes(w, at) ==
  /\ invocation' = [invocation EXCEPT ![w].at = at]
  /\ UNCHANGED <<stages, values, rotationEnabled, asked, environment>>

\* The module can be loaded, which takes the environment, and the secret is described
\* as one that rotates.
Described == Required \subseteq environment /\ rotationEnabled

\* Mutant: the other steps are called with the arguments they take.
Load_AllSteps(w) ==
  LET call == invocation[w]
  IN  /\ call.at = "loading"
      /\ IF Described /\ stages.AWSCURRENT = call.token THEN Returns(w)
         ELSE IF Described /\ stages.AWSPENDING = call.token THEN Goes(w, call.step)
         ELSE Raises(w)

\* There is nothing to do for the current version, and the version must be staged as
\* pending.  Of the four steps only create_secret is called with the arguments it takes.
Load(w) ==
  LET call == invocation[w]
  IN  /\ call.at = "loading"
      /\ IF Described /\ stages.AWSCURRENT = call.token THEN Returns(w)
         ELSE IF /\ Described
                 /\ stages.AWSPENDING = call.token
                 /\ call.step = "createSecret" THEN Goes(w, "create")
         ELSE Raises(w)

\* create_secret asks for the pending version's value.
HasPending(w) ==
  LET token == invocation[w].token
  IN  stages.AWSPENDING = token /\ values[token] # NoValue

LookUp(w) ==
  /\ invocation[w].at = "create"
  /\ IF HasPending(w) THEN Returns(w) ELSE Goes(w, "put")

\* Mutant: the new version is staged as the current one.
put_secret_value_Current(w, password) ==
  LET token == invocation[w].token
  IN  /\ values' = [values EXCEPT ![token] = [form |-> "bare", password |-> password]]
      /\ stages' = [stages EXCEPT !.AWSCURRENT = token]

\* The label moves to the version of the token, wherever it was.
put_secret_value(w, password) ==
  LET token == invocation[w].token
  IN  /\ values' = [values EXCEPT ![token] = [form |-> "bare", password |-> password]]
      /\ stages' = [stages EXCEPT !.AWSPENDING = token]

\* A version that has a value already accepts no other one.  Secrets Manager may miss
\* the answer.
Put(w) ==
  /\ invocation[w].at = "put"
  /\ \E password \in Password :
       /\ values[invocation[w].token] \in {NoValue, [form |-> "bare", password |-> password]}
       /\ put_secret_value(w, password)
  /\ asked' \in {asked, asked \cup {<<invocation[w].token, "setSecret">>}}
  /\ invocation' = [invocation EXCEPT ![w] = Idle]
  /\ UNCHANGED <<rotationEnabled, environment>>

\* A call to Secrets Manager fails, or the time is up.
Fails(w) == invocation[w].at # "idle" /\ Raises(w)

Handler(w) == Load(w) \/ LookUp(w) \/ Put(w)

RotationNext ==
  \/ \E v \in Version : RotateSecret(v)
  \/ CancelRotateSecret \/ CompleteEnvironment
  \/ \E w \in Worker : Invoke(w) \/ Handler(w) \/ Fails(w)
=============================================================================
