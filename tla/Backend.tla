------------------------------ MODULE Backend ------------------------------
(***************************************************************************)
(* The two programs of the backend that share a dashboard user's secret:   *)
(* the bootstrap, which reads it and puts the user with its password into  *)
(* the domain, and the rotation, which makes new versions of it.  Both run *)
(* at any time: a rotation 30 days after another, or on request, and the   *)
(* bootstrap when CloudFormation creates, updates or deletes its resource. *)
(*                                                                         *)
(* The administrator's secret is another one, used in the same way; here   *)
(* its user is only one of the things that exist in the domain.            *)
(***************************************************************************)
EXTENDS Bootstrap, SecretRotation

VARIABLES
  read,             \* the value that the bootstrap's handler has read, or NoValue
  userPassword      \* the password the domain has for the user, or None

backendVars == <<vars, rotationVars, read, userPassword>>

BackendTypeOK ==
  /\ TypeOK
  /\ RotationTypeOK
  /\ read \in Value
  /\ userPassword \in Password \cup {None}

BackendInit ==
  /\ Init
  /\ RotationInit
  /\ read = NoValue
  /\ userPassword = None

-----------------------------------------------------------------------------
PutsUser == Creating /\ step <= Len(createCalls) /\ createCalls[step] = "user"

\* get_secret: the current version; one that is not JSON with a user name raises.
ReadSecret ==
  /\ PutsUser
  /\ read = NoValue
  /\ IF values[stages.AWSCURRENT].form = "json"
       THEN read' = values[stages.AWSCURRENT] /\ UNCHANGED vars
       ELSE Answer(FALSE) /\ UNCHANGED <<domain, read>>
  /\ UNCHANGED rotationVars /\ UNCHANGED userPassword

\* PUT of the internal user, which replaces the password it may have had.
PutUser ==
  /\ PutsUser
  /\ read # NoValue
  /\ CreateCall
  /\ userPassword' = read.password
  /\ read' = NoValue
  /\ UNCHANGED rotationVars

DeleteUser ==
  /\ DeleteCall
  /\ userPassword' = IF "user" \in domain' THEN userPassword ELSE None
  /\ UNCHANGED rotationVars /\ UNCHANGED read

\* All else that the bootstrap does, CloudFormation with it, and the domain.
OtherBootstrap ==
  /\ \/ SendCreate \/ SendUpdate \/ SendDelete
     \/ ~PutsUser /\ CreateCall
     \/ CreateReturns \/ DeleteSavedObjects \/ DatabaseEnabled
  /\ UNCHANGED rotationVars /\ UNCHANGED <<read, userPassword>>

\* The handler ends, and what it has read is gone.
BootstrapFails ==
  /\ CreateRefused \/ DeleteRefused \/ Crash
  /\ read' = NoValue
  /\ UNCHANGED rotationVars /\ UNCHANGED userPassword

RotationSteps == RotationNext /\ UNCHANGED vars /\ UNCHANGED <<read, userPassword>>

BackendNext ==
  \/ ReadSecret \/ PutUser \/ DeleteUser \/ OtherBootstrap \/ BootstrapFails
  \/ RotationSteps

BackendSpec == BackendInit /\ [][BackendNext]_backendVars

-----------------------------------------------------------------------------
\* Whoever reads the current version of the secret can parse it, and finds the password
\* that the domain has for the user, however rotations, their repeated and abandoned
\* calls, and repeated or failed runs of the bootstrap interleave.
PasswordInForce ==
  /\ values[stages.AWSCURRENT].form = "json"
  /\ "user" \in domain => userPassword = values[stages.AWSCURRENT].password
=============================================================================
