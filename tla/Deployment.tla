----------------------------- MODULE Deployment -----------------------------
(***************************************************************************)
(* One stack of the CDK application (app.py) from the command that deploys *)
(* it to the one that deletes it, and to the next attempt: the templates   *)
(* of BackendStack and PipelineStacks in the hands of CloudFormation, the  *)
(* handlers of the two custom resources, and the instances of the proxy.   *)
(*                                                                         *)
(* Of the bootstrap's handler this module keeps that a create may succeed  *)
(* or fail and that a delete fails always; Bootstrap has the rest of it.   *)
(***************************************************************************)
EXTENDS PipelineStacks, CloudFormation

CONSTANTS
  Contexts,         \* the command lines in use: functions from parameters to values
  MaxInstances,     \* bound: instances that the auto scaling group launches
  MaxDeployments    \* bound: deployments of the stack

VARIABLES
  domainAccepted,            \* OpenSearch can make the domain as described
  instances,                 \* EC2: the tagged instances, a sequence of records
  address,                   \* PublicIpAddress as the finder answered it
  finderCrashed,             \* history: the finder did not come to answer a delete
  deployments                \* deployments so far

ASSUME DeploymentAssumption ==
  /\ CustomResource = {"bootstrap", "finder"}
  /\ \A f \in BackendFragments \cup
        {OwnVpc, IngestorFragment, IngestorVpcFragment, EmrRoleFragment,
         EmrApplicationFragment, EmrVpcFragment, TpcdsJob, VpcStack} :
       f.resources \subseteq Resource
  /\ \A c \in Contexts :
       Given(c, "OpensearchSubnetsIDs") => c.OpensearchSubnetsIDs \in Seq(Subnet)
  /\ MaxInstances \in Nat /\ MaxDeployments \in Nat

envVars == <<domainAccepted, instances, address, finderCrashed, deployments>>

vars ==
  <<template, status, phase, domainAccepted, instances, address, finderCrashed, deployments>>

\* PublicIpAddress: an instance's, the empty text, or left out of the answer.
Empty == 0
Missing == -1

InstanceState == {"pending", "running", "terminated", "gone"}

TypeOK ==
  /\ EngineTypeOK
  /\ domainAccepted \in BOOLEAN
  /\ instances \in Seq([state : InstanceState, deployment : 1..MaxDeployments])
  /\ Len(instances) <= MaxInstances
  /\ address \in {Empty, Missing} \cup DOMAIN instances
  /\ finderCrashed \in BOOLEAN
  /\ deployments \in 0..MaxDeployments

Init ==
  /\ EngineInit
  /\ domainAccepted = FALSE
  /\ instances = <<>>
  /\ address = Empty
  /\ finderCrashed = FALSE
  /\ deployments = 0

-----------------------------------------------------------------------------
(* app.py.                                                                 *)

StackRaises(context) ==
  \/ ~Given(context, "Stack")
  \/ CASE context.Stack = "backend"  -> SizeRaises(context)
       [] context.Stack = "ingestor" -> IngestorRaises(context)
       [] context.Stack = "example"  -> EmrServerlessRaises(context)
       [] context.Stack = "vpc"      -> FALSE
       [] OTHER -> TRUE

Synth(context) ==
  CASE context.Stack = "backend"  -> BackendStack(context)
    [] context.Stack = "ingestor" -> IngestorStack(context)
    [] context.Stack = "example"  -> EmrServerlessStack(context)
    [] context.Stack = "vpc"      -> VpcStack

\* cdk deploy: the application raises, and nothing happens, or the template goes to
\* CloudFormation.
CdkDeploy(context) ==
  /\ ~StackRaises(context)
  /\ deployments < MaxDeployments
  /\ Deploy(Synth(context).resources, Synth(context).needs)
  /\ domainAccepted' = (context.Stack = "backend" /\ Accepted(context, context.TshirtSize))
  /\ address' = Empty
  /\ deployments' = deployments + 1
  /\ UNCHANGED <<instances, finderCrashed>>

\* cdk destroy, with the context of a stack that can be synthesised.
CdkDestroy ==
  /\ Destroy
  /\ finderCrashed' = FALSE
  /\ UNCHANGED <<domainAccepted, instances, address, deployments>>

-----------------------------------------------------------------------------
(* CloudFormation.                                                         *)

CreateResource(r) ==
  /\ Create(r)
  /\ r = "domain" => domainAccepted
  /\ UNCHANGED envVars

ResourceFails(r) == CreationFails(r) /\ UNCHANGED envVars

\* The group takes its instances with it.
DeleteResource(r) ==
  /\ Delete(r)
  /\ instances' = [i \in DOMAIN instances |->
                     IF r = "autoScalingGroup" /\ instances[i].state # "gone"
                       THEN [instances[i] EXCEPT !.state = "terminated"]
                       ELSE instances[i]]
  /\ UNCHANGED <<domainAccepted, address, finderCrashed, deployments>>

\* The URL of the dashboard is an output made of the finder's answer.
FinishCreation ==
  /\ IF address = Missing THEN OutputsFail ELSE StackCreated
  /\ UNCHANGED envVars

FinishDeletion == (StackGone \/ StackFails) /\ UNCHANGED envVars

-----------------------------------------------------------------------------
(* The proxy's auto scaling group, of one instance.                        *)

Fleet(states) == {i \in DOMAIN instances : instances[i].state \in states}

LaunchInstance ==
  /\ InPlace("autoScalingGroup")
  /\ Fleet({"pending", "running"}) = {}
  /\ Len(instances) < MaxInstances
  /\ instances' = Append(instances, [state |-> "pending", deployment |-> deployments])
  /\ UNCHANGED engineVars /\ UNCHANGED <<domainAccepted, address, finderCrashed, deployments>>

\* A pending instance comes up, a running one is lost, and a terminated one is listed
\* by EC2 for a while.
InstanceMoves ==
  /\ \E i \in DOMAIN instances :
       /\ instances[i].state # "gone"
       /\ instances' = [instances EXCEPT ![i].state =
            CASE @ = "pending" -> "running"
              [] @ = "running" -> "terminated"
              [] @ = "terminated" -> "gone"]
  /\ UNCHANGED engineVars /\ UNCHANGED <<domainAccepted, address, finderCrashed, deployments>>

-----------------------------------------------------------------------------
(* The handlers of the custom resources.                                   *)

BootstrapCreates == HandlerCreates("bootstrap") /\ UNCHANGED envVars

BootstrapDeletes == DeletionFails("bootstrap") /\ UNCHANGED envVars

\* Mutant: an instance that has no address is passed over, whatever it was known by.
PublicIpAddress_Any ==
  LET found == Fleet(InstanceState \ {"gone"})
  IN  IF found = {} THEN {Empty} ELSE found

\* describe_instances returns the tagged instances in any state and any order, and the
\* last one's address counts; one without an address raises, which the handler turns
\* into an answer without the attribute.
PublicIpAddress ==
  LET found == Fleet(InstanceState \ {"gone"})
  IN  IF found = {} THEN {Empty}
      ELSE IF found \subseteq Fleet({"running"}) THEN found
      ELSE {Missing}

\* Mutant: the answer does not wait for the instance.
FinderCreates_Early ==
  /\ HandlerCreates("finder")
  /\ address' = IF Fleet({"running"}) = {} THEN Len(instances) + 1 ELSE Empty
  /\ UNCHANGED <<domainAccepted, instances, finderCrashed, deployments>>

FinderCreates ==
  /\ HandlerCreates("finder")
  /\ address' \in PublicIpAddress
  /\ UNCHANGED <<domainAccepted, instances, finderCrashed, deployments>>

\* Mutant: every request asks for the address, and 'FAILURE' is answered as such.
FinderDeletes_Asks ==
  /\ IF PublicIpAddress = {Missing}
       THEN DeletionFails("finder") ELSE HandlerDeletes("finder")
  /\ UNCHANGED envVars

\* A delete asks EC2 nothing, and an exception inside the try is answered with success.
FinderDeletes == HandlerDeletes("finder") /\ UNCHANGED envVars

\* An exception outside the try, or the time limit, which the 30 seconds of sleep count
\* for: the provider answers with a failure.
FinderCrashes ==
  /\ DeletionFails("finder")
  /\ finderCrashed' = TRUE
  /\ UNCHANGED <<domainAccepted, instances, address, deployments>>

-----------------------------------------------------------------------------
\* What takes a stack down, once begun.
TakeDown ==
  \/ \E r \in template.resources : DeleteResource(r)
  \/ \E r \in CustomResource : ResourceFails(r)
  \/ BootstrapCreates \/ BootstrapDeletes
  \/ FinderCreates \/ FinderDeletes \/ FinderCrashes
  \/ FinishDeletion

Next ==
  \/ \E c \in Contexts : CdkDeploy(c)
  \/ CdkDestroy
  \/ \E r \in template.resources : CreateResource(r) \/ ResourceFails(r)
  \/ FinishCreation
  \/ LaunchInstance \/ InstanceMoves
  \/ TakeDown

Spec == Init /\ [][Next]_vars

\* CloudFormation goes on with what it has begun, and a handler answers.
FairSpec == Spec /\ WF_vars(TakeDown)

-----------------------------------------------------------------------------
\* What bootstrap.py reads from its environment, signs its requests with and calls.
BootstrapUses ==
  {"bootstrapFunction", "role", "rolePolicy", "secrets", "pipelineRole", "domain",
   "domainSecurityGroup", "bootstrapSecurityGroup", "crToDomainIngress"}

\* Whenever the bootstrap's handler runs, to create or to delete, in a deployment, a
\* rollback or a destruction, all it needs to reach the domain is in place: the comment
\* on the race with the ingress rule (backend_stack.py:129) holds in every order in
\* which CloudFormation may create and delete.
BootstrapCanRun ==
  status["bootstrap"] \in {"creating", "deleting"} => \A r \in BootstrapUses : InPlace(r)

\* The dashboard's URL in the outputs of a created stack names no instance of an earlier
\* deployment or one that was not up: it is empty or names a proxy of this deployment,
\* although EC2 lists terminated instances and the group replaces its own.
DashboardUrl ==
  phase = "created" /\ InPlace("finder") /\ address # Empty =>
    /\ address \in DOMAIN instances
    /\ instances[address].deployment = deployments

DifferentZones(subnets) ==
  \A i, j \in DOMAIN subnets : i # j => subnets[i].zone # subnets[j].zone

\* n subnets, each on its own, in as many zones.
OneOfEach(subnets, n) ==
  /\ Len(subnets) = n
  /\ \A i \in DOMAIN subnets : Len(subnets[i]) = 1
  /\ DifferentZones([i \in DOMAIN subnets |-> subnets[i][1]])

\* Without a list of subnets the stack chooses one for each zone that the domain of the
\* size has, in any VPC with as many zones and however many subnets each zone has
\* (backend_stack.py:50).  Of a list that is given nothing of the kind is true.
ChosenSubnetsFit ==
  [][\A c \in Contexts :
       LET zones == {s.zone : s \in Range(PrivateSubnetsOf(c))}
           n == az_count(c.TshirtSize)
       IN  /\ CdkDeploy(c)
           /\ c.Stack = "backend" /\ ~Given(c, "OpensearchSubnetsIDs")
           /\ Cardinality(zones) >= n
           => OneOfEach(os_subnets(c, c.TshirtSize), n)]_deployments

\* A rollback ends with everything gone, whatever EC2 says of the instances, unless the
\* bootstrap's resource had been created, or the finder's handler did not come to answer.
RollbackEnds ==
  phase = "rolling_back" ~>
    \/ phase = "rolled_back"
    \/ phase = "failed" /\ (status["bootstrap"] = "delete_failed" \/ finderCrashed)
=============================================================================
