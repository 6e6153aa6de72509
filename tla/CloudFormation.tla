--------------------------- MODULE CloudFormation ---------------------------
(***************************************************************************)
(* The service that the CDK application is deployed with, as far as the    *)
(* code relies on it.  It creates the resources of a template, each when   *)
(* everything it refers to, or was declared to depend on, is in place; it  *)
(* deletes a resource when nothing is left that needs it.  The creation of *)
(* any resource may fail, and then what was created is taken down again.   *)
(*                                                                         *)
(* A custom resource is created and deleted by a handler of the            *)
(* application, which takes time and may answer with a failure; the other  *)
(* resources appear and disappear in one step.                             *)
(***************************************************************************)
CONSTANTS
  Resource,         \* the logical ids of all templates
  CustomResource    \* those with a handler of their own

ASSUME CloudFormationAssumption == CustomResource \subseteq Resource

VARIABLES
  template,         \* the resources of the stack, and what each of them needs
  status,           \* of each resource
  phase             \* of the stack

engineVars == <<template, status, phase>>

Status == {"absent", "creating", "created", "deleting", "delete_failed"}

Phase == {"none", "creating", "created", "rolling_back", "rolled_back",
          "deleting", "failed"}

Template == [resources : SUBSET Resource, needs : [Resource -> SUBSET Resource]]

NoTemplate == [resources |-> {}, needs |-> [r \in Resource |-> {}]]

EngineTypeOK ==
  /\ template \in Template
  /\ status \in [Resource -> Status]
  /\ phase \in Phase

EngineInit ==
  /\ template = NoTemplate
  /\ status = [r \in Resource |-> "absent"]
  /\ phase = "none"

InPlace(r) == status[r] = "created"

\* Everything r needs is there.
Ready(r) == \A n \in template.needs[r] : InPlace(n)

\* Nothing that needs r is left.
Released(r) ==
  \A d \in template.resources : r \in template.needs[d] => status[d] = "absent"

Set(r, s) == status' = [status EXCEPT ![r] = s]

-----------------------------------------------------------------------------
\* A template is submitted with the references and declared dependencies it has, pairs
\* <<r, n>> where r needs n.
Deploy(resources, needs) ==
  /\ phase = "none"
  /\ template' = [resources |-> resources,
                  needs |-> [r \in Resource |-> {n \in Resource : <<r, n>> \in needs}]]
  /\ phase' = "creating"
  /\ UNCHANGED status

\* A custom resource whose handler has been called.
Running(r) == r \in CustomResource /\ status[r] \in {"creating", "deleting"}

StartCreating(r) ==
  /\ phase = "creating"
  /\ r \in template.resources
  /\ status[r] = "absent"
  /\ Ready(r)

Create(r) ==
  /\ StartCreating(r)
  /\ Set(r, IF r \in CustomResource THEN "creating" ELSE "created")
  /\ UNCHANGED <<template, phase>>

\* The creation is refused by the resource's service, or its handler fails.
CreationFails(r) ==
  /\ \/ StartCreating(r) /\ r \notin CustomResource
     \/ status[r] = "creating"
  /\ Set(r, "absent")
  /\ phase' = "rolling_back"
  /\ UNCHANGED template

\* A handler that runs when the rollback begins is waited for.
HandlerCreates(r) ==
  /\ status[r] = "creating"
  /\ Set(r, "created")
  /\ UNCHANGED <<template, phase>>

StackCreated ==
  /\ phase = "creating"
  /\ \A r \in template.resources : InPlace(r)
  /\ phase' = "created"
  /\ UNCHANGED <<template, status>>

\* An output cannot be computed.
OutputsFail ==
  /\ phase = "creating"
  /\ \A r \in template.resources : InPlace(r)
  /\ phase' = "rolling_back"
  /\ UNCHANGED <<template, status>>

TakingDown == phase \in {"rolling_back", "deleting"}

Delete(r) ==
  /\ TakingDown
  /\ InPlace(r)
  /\ Released(r)
  /\ Set(r, IF r \in CustomResource THEN "deleting" ELSE "absent")
  /\ UNCHANGED <<template, phase>>

HandlerDeletes(r) ==
  /\ status[r] = "deleting"
  /\ Set(r, "absent")
  /\ UNCHANGED <<template, phase>>

DeletionFails(r) ==
  /\ status[r] = "deleting"
  /\ Set(r, "delete_failed")
  /\ UNCHANGED <<template, phase>>

StackGone ==
  /\ TakingDown
  /\ \A r \in template.resources : status[r] = "absent"
  /\ IF phase = "deleting"
       THEN phase' = "none" /\ template' = NoTemplate
       ELSE phase' = "rolled_back" /\ UNCHANGED template
  /\ UNCHANGED status

\* What could be deleted is deleted, and something is left.
StackFails ==
  /\ TakingDown
  /\ \E r \in template.resources : status[r] = "delete_failed"
  /\ \A r \in template.resources : ~Running(r) /\ ~(InPlace(r) /\ Released(r))
  /\ phase' = "failed"
  /\ UNCHANGED <<template, status>>

\* The stack is deleted, whatever became of it; what could not be deleted the last
\* time is tried again.
Destroy ==
  /\ phase \in {"created", "rolled_back", "failed"}
  /\ phase' = "deleting"
  /\ status' = [r \in Resource |->
                  IF status[r] = "delete_failed" THEN "created" ELSE status[r]]
  /\ UNCHANGED template

-----------------------------------------------------------------------------
\* A resource that is there, or is being created or deleted, has what it needs.
NeedsInPlace ==
  \A r \in Resource : status[r] # "absent" => Ready(r)
=============================================================================
