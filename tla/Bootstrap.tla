----------------------------- MODULE Bootstrap -----------------------------
(***************************************************************************)
(* The custom resource that prepares the OpenSearch domain: bootstrap.py's *)
(* handler behind the CDK provider framework, driven by CloudFormation.    *)
(*                                                                         *)
(* A handler is a list of calls to the domain.  Any call may be refused    *)
(* (an answer that is not ok) or end the handler (an exception, the        *)
(* Lambda's time limit); what earlier calls did stays in the domain.       *)
(* CloudFormation and the framework are external.                          *)
(***************************************************************************)
EXTENDS Integers, Sequences, SequencesExt

CONSTANTS
  SavedObjects,     \* the dashboards' saved objects, imported by one call
  MaxRequests       \* bound: requests that CloudFormation sends

ASSUME BootstrapAssumption == MaxRequests \in Nat /\ SavedObjects # {}

VARIABLES
  stack,            \* CloudFormation's view of the resource
  request,          \* "none", "Create", "Update" or "Delete"
  step,             \* the next call of the handler
  domain,           \* what exists in the OpenSearch domain
  requests          \* requests sent so far

vars == <<stack, request, step, domain, requests>>

\* on_create, in order; "database_change" asks the domain to switch to internal users,
\* and "dashboards" is the one call that imports saved objects.
createCalls ==
  <<"pipeline_role", "role_mapping", "database_change", "admin", "user",
    "spark_logs", "spark_task_metrics", "spark_stage_agg_metrics", "dashboards">>

\* on_delete up to the saved objects, which it looks up in event['Data'].
deleteCalls ==
  <<"pipeline_role", "role_mapping", "admin", "user",
    "spark_logs", "spark_task_metrics", "spark_stage_agg_metrics">>

\* What an accepted call may put in place.  The import is accepted as a whole even
\* if some of its objects fail: on_create reads successResults and not success.
\* With none imported there are no successResults and the handler raises.
Outcomes(call) ==
  IF call = "dashboards" THEN (SUBSET SavedObjects) \ {{}} ELSE {{call}}

AllObjects == UNION UNION {Outcomes(c) : c \in Range(createCalls)}

\* What the domain makes of an accepted "database_change", in its own time.
InternalUsers == "internal_database"

\* The ids of saved objects are none of the other things.
ASSUME SavedObjectsAssumption ==
  SavedObjects \cap (Range(createCalls) \cup {InternalUsers}) = {}

TypeOK ==
  /\ stack \in {"absent", "creating", "created", "updating", "update_failed",
                "deleting", "delete_failed"}
  /\ request \in {"none", "Create", "Update", "Delete"}
  /\ step \in 1..Len(createCalls) + 1
  /\ domain \subseteq AllObjects \cup {InternalUsers}
  /\ requests \in 0..MaxRequests

Init ==
  /\ stack = "absent"
  /\ request = "none"
  /\ step = 1
  /\ domain = {}
  /\ requests = 0

-----------------------------------------------------------------------------
(* CloudFormation.                                                         *)

Send(kind, state) ==
  /\ request = "none"
  /\ requests < MaxRequests
  /\ requests' = requests + 1
  /\ request' = kind
  /\ stack' = state
  /\ step' = 1
  /\ UNCHANGED domain

\* After a failed create the framework ignores the rollback's delete, so that a
\* new attempt finds what the last one left behind.
SendCreate == stack = "absent" /\ Send("Create", "creating")

\* A failed update is rolled back by another update.
SendUpdate == stack \in {"created", "update_failed"} /\ Send("Update", "updating")

SendDelete ==
  /\ stack \in {"created", "update_failed", "delete_failed"}
  /\ Send("Delete", "deleting")

AfterSuccess == [Create |-> "created", Update |-> "created", Delete |-> "absent"]

AfterFailure == [Create |-> "absent", Update |-> "update_failed", Delete |-> "delete_failed"]

Answer(ok) ==
  /\ request' = "none"
  /\ step' = 1
  /\ stack' = IF ok THEN AfterSuccess[request] ELSE AfterFailure[request]
  /\ UNCHANGED requests

-----------------------------------------------------------------------------
(* The handler.                                                            *)

\* Mutant: no answer is checked.
Checked_Never(call) == FALSE

\* on_create looks at every answer but the first.
Checked(call) == call # "pipeline_role"

Creating == request \in {"Create", "Update"}

CreateCall ==
  /\ Creating
  /\ step <= Len(createCalls)
  /\ \E objects \in Outcomes(createCalls[step]) : domain' = domain \cup objects
  /\ step' = step + 1
  /\ UNCHANGED <<stack, request, requests>>

CreateRefused ==
  /\ Creating
  /\ step <= Len(createCalls)
  /\ IF Checked(createCalls[step])
       THEN Answer(FALSE)
       ELSE step' = step + 1 /\ UNCHANGED <<stack, request, requests>>
  /\ UNCHANGED domain

CreateReturns ==
  /\ Creating
  /\ step > Len(createCalls)
  /\ Answer(TRUE)
  /\ UNCHANGED domain

\* Deleting what is not there is answered with 404, which is not ok.
DeleteCall ==
  /\ request = "Delete"
  /\ step <= Len(deleteCalls)
  /\ IF deleteCalls[step] \in domain
       THEN /\ domain' = domain \ {deleteCalls[step]}
            /\ step' = step + 1
            /\ UNCHANGED <<stack, request, requests>>
       ELSE Answer(FALSE) /\ UNCHANGED domain

DeleteRefused ==
  /\ request = "Delete"
  /\ step <= Len(deleteCalls)
  /\ Answer(FALSE)
  /\ UNCHANGED domain

\* A delete event has no 'Data': the look-up raises KeyError.
DeleteSavedObjects ==
  /\ request = "Delete"
  /\ step > Len(deleteCalls)
  /\ Answer(FALSE)
  /\ UNCHANGED domain

\* An exception or the time limit, before or after the call took effect (the
\* latter is CreateCall or DeleteCall followed by this).
Crash ==
  /\ request # "none"
  /\ Answer(FALSE)
  /\ UNCHANGED domain

\* update_domain_config only accepts a change.  The domain applies it some time later,
\* for which no handler waits: on_create goes on to put the users at once.
DatabaseEnabled ==
  /\ "database_change" \in domain
  /\ InternalUsers \notin domain
  /\ domain' = domain \cup {InternalUsers}
  /\ UNCHANGED <<stack, request, step, requests>>

Next ==
  \/ SendCreate \/ SendUpdate \/ SendDelete
  \/ CreateCall \/ CreateRefused \/ CreateReturns
  \/ DeleteCall \/ DeleteRefused \/ DeleteSavedObjects
  \/ Crash \/ DatabaseEnabled

Spec == Init /\ [][Next]_vars

\* No call is refused and nothing crashes, and a handler with work left does it.
HealthyNext ==
  \/ SendCreate \/ SendUpdate \/ SendDelete
  \/ CreateCall \/ CreateReturns \/ DeleteCall \/ DeleteSavedObjects
  \/ DatabaseEnabled

HealthySpec ==
  /\ Init /\ [][HealthyNext]_vars
  /\ WF_vars(CreateCall) /\ WF_vars(CreateReturns)
  /\ WF_vars(DeleteCall) /\ WF_vars(DeleteSavedObjects)

-----------------------------------------------------------------------------
\* A resource CloudFormation takes for created has everything whose creation is
\* checked, and a dashboard object, however many failed and repeated attempts came
\* before.  Neither the role that the mapping refers to nor the complete set of
\* saved objects is checked: on_create does not notice when they are missing.  Of the
\* internal users only the change is asked for, which may still be under way.
CreatedIsComplete ==
  stack = "created" =>
    /\ AllObjects \ (SavedObjects \cup {"pipeline_role"}) \subseteq domain
    /\ SavedObjects \cap domain # {}

\* The last comment in on_delete: it deletes the dashboards, and so ends.
DeleteCompletes == request = "Delete" ~> stack = "absent"
=============================================================================
