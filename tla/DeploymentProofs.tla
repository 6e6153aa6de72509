-------------------------- MODULE DeploymentProofs --------------------------
(***************************************************************************)
(* Proofs about the stacks in the hands of CloudFormation, for any command *)
(* lines, any subnets, and any number of deployments and instances.        *)
(***************************************************************************)
EXTENDS Deployment, InductionLemmas

-----------------------------------------------------------------------------
(* CloudFormation.                                                         *)

\* Only what the template names is there, and nothing before a template is submitted.
OnlyTemplate ==
  /\ \A r \in Resource : status[r] # "absent" => r \in template.resources
  /\ phase = "none" => \A r \in Resource : status[r] = "absent"

\* A stack that counts as created has all of its resources.
CreatedIsWhole == phase = "created" => \A r \in template.resources : InPlace(r)

\* The inductive invariant of CloudFormation: NeedsInPlace needs the other two, so that
\* a new template does not give needs to what an earlier one left behind.
EngineInv == EngineTypeOK /\ NeedsInPlace /\ OnlyTemplate /\ CreatedIsWhole

\* What changes the status of one resource that nothing there needs keeps the needs of
\* the rest; a resource that comes to be there must be ready.
LEMMA OneStatus ==
  ASSUME EngineInv, NEW r \in Resource, NEW s \in Status, Set(r, s), UNCHANGED template,
         phase' \in Phase, phase' \notin {"none", "created"},
         InPlace(r) => Released(r),
         s # "absent" => r \in template.resources /\ Ready(r)
  PROVE  EngineInv'
<1>1. EngineTypeOK'
  BY DEF EngineInv, EngineTypeOK, Set
<1>2. status' = [status EXCEPT ![r] = s] /\ status \in [Resource -> Status]
  BY DEF EngineInv, EngineTypeOK, Set
<1>3. \A d \in Resource : status[d] # "absent" => r \notin template.needs[d]
  BY DEF EngineInv, EngineTypeOK, NeedsInPlace, OnlyTemplate, Ready, Released
<1>4. NeedsInPlace'
  <2> SUFFICES ASSUME NEW d \in Resource, status'[d] # "absent", NEW n \in template.needs[d]
               PROVE  status'[n] = "created"
    BY DEF NeedsInPlace, Ready, InPlace
  <2>1. template.needs[d] \subseteq Resource
    BY DEF EngineInv, EngineTypeOK, Template
  <2>2. CASE d # r
    BY <1>2, <1>3, <2>1, <2>2 DEF EngineInv, NeedsInPlace, Ready, InPlace
  <2>3. CASE d = r
    <3>1. InPlace(n)
      BY <1>2, <2>3 DEF Ready
    <3>2. n # r
      BY <1>2, <1>3, <2>3, <3>1 DEF InPlace
    <3>3. QED
      BY <1>2, <2>1, <3>1, <3>2 DEF InPlace
  <2>4. QED
    BY <2>2, <2>3
<1>5. OnlyTemplate'
  BY <1>2 DEF EngineInv, OnlyTemplate
<1>6. QED
  BY <1>1, <1>4, <1>5 DEF EngineInv, CreatedIsWhole

\* What changes only the phase, and does not claim that all is there or nothing.
LEMMA OnePhase ==
  ASSUME EngineInv, UNCHANGED <<template, status>>, phase' \in Phase \ {"none"},
         phase' = "created" => \A r \in template.resources : InPlace(r)
  PROVE  EngineInv'
<1>1. EngineTypeOK'
  BY DEF EngineInv, EngineTypeOK
<1>2. NeedsInPlace'
  BY DEF EngineInv, NeedsInPlace, Ready, InPlace
<1>3. OnlyTemplate' /\ CreatedIsWhole'
  BY DEF EngineInv, OnlyTemplate, CreatedIsWhole, InPlace
<1>4. QED
  BY <1>1, <1>2, <1>3 DEF EngineInv

\* While something is being created or deleted the stack is not created, and not gone.
LEMMA Busy ==
  ASSUME EngineInv, NEW r \in Resource, status[r] \in {"creating", "deleting", "delete_failed"}
  PROVE  phase \notin {"none", "created"} /\ r \in template.resources /\ Ready(r)
  BY DEF EngineInv, OnlyTemplate, CreatedIsWhole, NeedsInPlace, InPlace

\* A template is submitted when nothing is there.
LEMMA DeployInv ==
  ASSUME EngineInv, NEW resources \in SUBSET Resource, NEW needs, Deploy(resources, needs)
  PROVE  EngineInv'
<1>1. template' \in Template
  BY DEF Deploy, Template
<1>2. EngineTypeOK'
  BY <1>1 DEF Deploy, EngineInv, EngineTypeOK, Phase
<1>3. \A r \in Resource : status'[r] = "absent"
  BY DEF Deploy, EngineInv, OnlyTemplate
<1>4. phase' = "creating"
  BY DEF Deploy
<1>5. QED
  BY <1>2, <1>3, <1>4 DEF EngineInv, NeedsInPlace, OnlyTemplate, CreatedIsWhole

\* A resource is created when it is ready.
LEMMA CreateInv ==
  ASSUME EngineInv, NEW r \in Resource, Create(r)
  PROVE  EngineInv'
<1> DEFINE s == IF r \in CustomResource THEN "creating" ELSE "created"
<1>1. s \in Status /\ Set(r, s) /\ UNCHANGED <<template, phase>>
  BY DEF Create, Status
<1>2. phase = "creating" /\ r \in template.resources /\ Ready(r) /\ ~InPlace(r)
  BY DEF Create, StartCreating, InPlace
<1> HIDE DEF s
<1>3. QED
  BY <1>1, <1>2, OneStatus DEF Phase

\* What could not be created is absent, and nothing needs it yet.
LEMMA CreationFailsInv ==
  ASSUME EngineInv, NEW r \in Resource, CreationFails(r)
  PROVE  EngineInv'
<1>1. Set(r, "absent") /\ UNCHANGED template /\ phase' = "rolling_back" /\ ~InPlace(r)
  BY DEF CreationFails, StartCreating, InPlace
<1>2. QED
  BY <1>1, OneStatus DEF Phase, Status

\* A handler's resource was ready when its handler was called, and still is.
LEMMA HandlerCreatesInv ==
  ASSUME EngineInv, NEW r \in Resource, HandlerCreates(r)
  PROVE  EngineInv'
<1>1. Set(r, "created") /\ UNCHANGED <<template, phase>> /\ ~InPlace(r) /\ status[r] = "creating"
  BY DEF HandlerCreates, InPlace
<1>2. phase \in Phase
  BY DEF EngineInv, EngineTypeOK
<1>3. QED
  BY <1>1, <1>2, Busy, OneStatus DEF Status

\* A resource is deleted when nothing needs it.
LEMMA DeleteInv ==
  ASSUME EngineInv, NEW r \in Resource, Delete(r)
  PROVE  EngineInv'
<1> DEFINE s == IF r \in CustomResource THEN "deleting" ELSE "absent"
<1>1. s \in Status /\ Set(r, s) /\ UNCHANGED <<template, phase>> /\ Released(r) /\ InPlace(r)
  BY DEF Delete, Status
<1>2. phase \in {"rolling_back", "deleting"}
  BY DEF Delete, TakingDown
<1>3. r \in template.resources /\ Ready(r)
  BY <1>1 DEF EngineInv, OnlyTemplate, NeedsInPlace, InPlace
<1> HIDE DEF s
<1>4. QED
  BY <1>1, <1>2, <1>3, OneStatus DEF Phase

\* Nothing came to need the resource while its handler ran.
LEMMA HandlerDeletesInv ==
  ASSUME EngineInv, NEW r \in Resource, HandlerDeletes(r) \/ DeletionFails(r)
  PROVE  EngineInv'
<1>1. PICK s \in {"absent", "delete_failed"} :
        Set(r, s) /\ UNCHANGED <<template, phase>> /\ status[r] = "deleting"
  BY DEF HandlerDeletes, DeletionFails
<1>2. phase \in Phase /\ s \in Status /\ ~InPlace(r)
  BY <1>1 DEF EngineInv, EngineTypeOK, Status, InPlace
<1>3. QED
  BY <1>1, <1>2, Busy, OneStatus

\* A stack is gone when all of its resources are.
LEMMA StackGoneInv ==
  ASSUME EngineInv, StackGone
  PROVE  EngineInv'
<1>1. CASE phase = "deleting"
  <2>1. phase' = "none" /\ template' = NoTemplate /\ UNCHANGED status
    BY <1>1 DEF StackGone
  <2>2. \A r \in Resource : status[r] = "absent"
    BY DEF StackGone, EngineInv, OnlyTemplate
  <2>3. EngineTypeOK'
    BY <2>1 DEF EngineInv, EngineTypeOK, NoTemplate, Template, Phase
  <2>4. QED
    BY <2>1, <2>2, <2>3 DEF EngineInv, NeedsInPlace, OnlyTemplate, CreatedIsWhole
<1>2. CASE phase # "deleting"
  BY <1>2, OnePhase DEF StackGone, Phase
<1>3. QED
  BY <1>1, <1>2

\* What is to be deleted once more still has what it needs.
LEMMA DestroyInv ==
  ASSUME EngineInv, Destroy
  PROVE  EngineInv'
<1>1. /\ phase' = "deleting" /\ UNCHANGED template
      /\ status' = [r \in Resource |->
                      IF status[r] = "delete_failed" THEN "created" ELSE status[r]]
  BY DEF Destroy
<1>2. EngineTypeOK'
  BY <1>1 DEF EngineInv, EngineTypeOK, Phase, Status
<1>3. \A r \in Resource : status'[r] = "absent" <=> status[r] = "absent"
  BY <1>1
<1>4. \A r \in Resource : InPlace(r) => status'[r] = "created"
  BY <1>1 DEF InPlace
<1>5. NeedsInPlace'
  BY <1>1, <1>3, <1>4 DEF EngineInv, EngineTypeOK, Template, NeedsInPlace, Ready, InPlace
<1>6. QED
  BY <1>1, <1>2, <1>3, <1>5 DEF EngineInv, OnlyTemplate, CreatedIsWhole

\* The other ends of an operation change the phase only.
LEMMA StackEndsInv ==
  ASSUME EngineInv, StackCreated \/ OutputsFail \/ StackFails
  PROVE  EngineInv'
  BY OnePhase DEF StackCreated, OutputsFail, StackFails, Phase

-----------------------------------------------------------------------------
(* The templates.                                                          *)

\* What the resources that a property is about need, in any template that has them.
TemplateInv ==
  "bootstrap" \in template.resources =>
    /\ {"bootstrapFunction", "domain", "crToDomainIngress"} \subseteq template.needs["bootstrap"]
    /\ {"role", "rolePolicy", "secrets", "pipelineRole", "bootstrapSecurityGroup"}
         \subseteq template.needs["bootstrapFunction"]
    /\ "domainSecurityGroup" \in template.needs["domain"]

\* The same of a fragment, in pairs.
BootstrapPairs ==
  ({"bootstrap"} \X {"bootstrapFunction", "domain", "crToDomainIngress"})
    \cup ({"bootstrapFunction"} \X
            {"role", "rolePolicy", "secrets", "pipelineRole", "bootstrapSecurityGroup"})
    \cup {<<"domain", "domainSecurityGroup">>}

\* A stack has the resources and the pairs of its fragments.
LEMMA AssembleFields ==
  ASSUME NEW fragments
  PROVE  /\ Assemble(fragments).resources = UNION {f.resources : f \in fragments}
         /\ Assemble(fragments).needs = UNION {f.needs : f \in fragments}
  BY DEF Assemble, Fragment

\* The constructs of the backend have those pairs.
LEMMA BackendFacts == BootstrapPairs \subseteq UNION {f.needs : f \in BackendFragments}
<1>1. OpensearchBootstrap.needs =
           ({"bootstrapFunction"} \X
              {"pipelineRole", "domain", "secrets", "role", "rolePolicy",
               "bootstrapSecurityGroup"})
             \cup ({"bootstrap"} \X {"bootstrapFunction", "domain"})
  BY DEF OpensearchBootstrap, Fragment
<1>2. ({"domain"} \X {"role", "key", "domainSecurityGroup"}) \subseteq Opensearch.needs
  BY DEF Opensearch, Fragment
<1>3. ({"bootstrapFunction", "bootstrap"} \X {"crToDomainIngress"}) \subseteq Ingress.needs
  BY DEF Ingress, Fragment
<1>4. {OpensearchBootstrap, Opensearch, Ingress} \subseteq BackendFragments
  BY DEF BackendFragments
<1>5. BootstrapPairs \subseteq OpensearchBootstrap.needs \cup Opensearch.needs \cup Ingress.needs
  BY <1>1, <1>2, <1>3 DEF BootstrapPairs
<1>6. QED
  BY <1>4, <1>5, Zenon

\* The resources that the theorems are about are in the templates.
LEMMA KnownResources ==
  BootstrapUses \cup {"bootstrap", "autoScalingGroup", "finder"} \subseteq Resource
<1>1. \A f \in {OpensearchPreReq, OpensearchCrHelpers("bootstrapSecurityGroup"), OpensearchSecret,
               Opensearch, Ingress, OpensearchBootstrap, OpensearchRp, OpensearchRpCr} :
       f.resources \subseteq Resource
  BY DeploymentAssumption DEF DeploymentAssumption, BackendFragments
<1>2. /\ OpensearchPreReq.resources \subseteq Resource
      /\ OpensearchCrHelpers("bootstrapSecurityGroup").resources \subseteq Resource
      /\ OpensearchSecret.resources \subseteq Resource
      /\ Opensearch.resources \subseteq Resource
      /\ Ingress.resources \subseteq Resource
      /\ OpensearchBootstrap.resources \subseteq Resource
      /\ OpensearchRp.resources \subseteq Resource
      /\ OpensearchRpCr.resources \subseteq Resource
  BY <1>1
<1>3. QED
  BY <1>2 DEF BootstrapUses, OpensearchPreReq, OpensearchCrHelpers, OpensearchSecret, Opensearch,
              Ingress, OpensearchBootstrap, OpensearchRp, OpensearchRpCr, Fragment

\* A stack is assembled from known resources, and with those pairs if it has the
\* bootstrap.
LEMMA SynthFacts ==
  ASSUME NEW c, ~StackRaises(c)
  PROVE  /\ Synth(c).resources \subseteq Resource
         /\ "bootstrap" \in Synth(c).resources => BootstrapPairs \subseteq Synth(c).needs
<1>1. CASE c.Stack = "backend"
  <2> DEFINE fragments == BackendFragments \cup (IF Given(c, "VpcID") THEN {} ELSE {OwnVpc})
  <2>1. Synth(c) = Assemble(fragments)
    BY <1>1 DEF Synth, BackendStack
  <2>2. BackendFragments \subseteq fragments /\ fragments \subseteq BackendFragments \cup {OwnVpc}
    OBVIOUS
  <2>3. \A f \in fragments : f.resources \subseteq Resource
    BY <2>2, DeploymentAssumption DEF DeploymentAssumption
  <2> HIDE DEF fragments
  <2>4. UNION {f.needs : f \in BackendFragments} \subseteq UNION {f.needs : f \in fragments}
    BY <2>2
  <2>5. UNION {f.resources : f \in fragments} \subseteq Resource
    BY <2>3
  <2>6. QED
    BY <2>1, <2>4, <2>5, BackendFacts, AssembleFields
<1>2. CASE c.Stack = "ingestor"
  <2> DEFINE fragments == {IngestorFragment} \cup
               (IF Given(c, "VpcID") THEN {IngestorVpcFragment} ELSE {})
  <2>1. Synth(c) = Assemble(fragments)
    BY <1>2 DEF Synth, IngestorStack
  <2>2. \A f \in fragments : f.resources \subseteq Resource /\ "bootstrap" \notin f.resources
    BY DeploymentAssumption
       DEF DeploymentAssumption, IngestorFragment, IngestorVpcFragment, Pipelines, Fragment
  <2> HIDE DEF fragments
  <2>3. QED
    BY <2>1, <2>2, AssembleFields
<1>3. CASE c.Stack = "example"
  <2> DEFINE fragments == {EmrRoleFragment, EmrApplicationFragment, TpcdsJob} \cup
               (IF Given(c, "VpcID") THEN {EmrVpcFragment} ELSE {})
  <2>1. Synth(c) = Assemble(fragments)
    BY <1>3 DEF Synth, EmrServerlessStack
  <2>2. \A f \in fragments : f.resources \subseteq Resource /\ "bootstrap" \notin f.resources
    BY DeploymentAssumption
       DEF DeploymentAssumption, EmrRoleFragment, EmrApplicationFragment, TpcdsJob,
           EmrVpcFragment, Fragment
  <2> HIDE DEF fragments
  <2>3. QED
    BY <2>1, <2>2, AssembleFields
<1>4. CASE c.Stack = "vpc"
  <2>1. Synth(c) = VpcStack
    BY <1>4 DEF Synth
  <2>2. VpcStack.resources \subseteq Resource
    BY DeploymentAssumption DEF DeploymentAssumption
  <2>3. VpcStack.resources = {"vpc"}
    BY DEF VpcStack, Fragment
  <2>4. QED
    BY <2>1, <2>2, <2>3
<1>5. QED
  BY <1>1, <1>2, <1>3, <1>4 DEF StackRaises

\* What cdk deploy submits is one of the templates.
LEMMA DeployTemplate ==
  ASSUME NEW c, CdkDeploy(c)
  PROVE  TemplateInv'
<1>1. /\ template'.resources = Synth(c).resources
      /\ \A r, n \in Resource : <<r, n>> \in Synth(c).needs => n \in template'.needs[r]
      /\ ~StackRaises(c)
  BY DEF CdkDeploy, Deploy
<1>2. CASE "bootstrap" \in Synth(c).resources
  <2>1. BootstrapPairs \subseteq Synth(c).needs
    BY <1>1, <1>2, SynthFacts
  <2>2. /\ \A n \in {"bootstrapFunction", "domain", "crToDomainIngress"} :
             <<"bootstrap", n>> \in Synth(c).needs
        /\ \A n \in {"role", "rolePolicy", "secrets", "pipelineRole", "bootstrapSecurityGroup"} :
             <<"bootstrapFunction", n>> \in Synth(c).needs
        /\ <<"domain", "domainSecurityGroup">> \in Synth(c).needs
    BY <2>1 DEF BootstrapPairs
  <2>3. QED
    BY <1>1, <2>2, KnownResources DEF TemplateInv, BootstrapUses
<1>3. CASE "bootstrap" \notin Synth(c).resources
  BY <1>1, <1>3 DEF TemplateInv
<1>4. QED
  BY <1>2, <1>3

-----------------------------------------------------------------------------
(* The stack, its instances and the answer of the finder.                  *)

\* The instances that are up, or will be, belong to a group that is there, of this
\* deployment; the finder's answer is of this deployment, and was good for the outputs
\* if the stack counts as created.  There is no stack before the first deployment.
InstancesInv ==
  /\ \A i \in DOMAIN instances :
       instances[i].state \in {"pending", "running"} =>
         InPlace("autoScalingGroup") /\ instances[i].deployment = deployments
  /\ address \in DOMAIN instances => instances[address].deployment = deployments
  /\ phase = "created" => address # Missing
  /\ phase # "none" => deployments > 0

\* The inductive invariant.
DeploymentInv == TypeOK /\ EngineInv /\ TemplateInv /\ InstancesInv

\* At first there is no stack and no instance.
LEMMA InitInv == Init => DeploymentInv
<1> SUFFICES ASSUME Init
             PROVE  DeploymentInv
  OBVIOUS
<1>1. EngineInv
  BY DEF Init, EngineInit, EngineInv, EngineTypeOK, NoTemplate, Template, Status, Phase,
         NeedsInPlace, OnlyTemplate, CreatedIsWhole
<1>2. instances \in Seq([state : InstanceState, deployment : 1..MaxDeployments])
      /\ Len(instances) = 0
  BY DEF Init
<1>3. address = Empty /\ deployments \in 0..MaxDeployments /\ Len(instances) <= MaxInstances
  BY <1>2, DeploymentAssumption DEF Init, DeploymentAssumption
<1>4. TypeOK
  BY <1>1, <1>2, <1>3 DEF Init, TypeOK, EngineInv
<1>5. TemplateInv /\ InstancesInv
  BY DEF Init, EngineInit, NoTemplate, TemplateInv, InstancesInv, Empty, Missing
<1>6. QED
  BY <1>1, <1>4, <1>5 DEF DeploymentInv

\* Every step is one of CloudFormation's, on a known resource.
LEMMA EngineSteps ==
  ASSUME DeploymentInv, [Next]_vars
  PROVE  EngineInv'
<1>1. {"bootstrap", "finder"} \subseteq Resource /\ CustomResource \subseteq Resource
      /\ template.resources \subseteq Resource /\ EngineInv
  BY KnownResources, CloudFormationAssumption
     DEF CloudFormationAssumption, DeploymentInv, EngineInv, EngineTypeOK, Template
<1>2. ASSUME NEW c \in Contexts, CdkDeploy(c)
      PROVE  EngineInv'
  BY <1>1, <1>2, SynthFacts, DeployInv DEF CdkDeploy
<1>3. CASE CdkDestroy
  BY <1>1, <1>3, DestroyInv DEF CdkDestroy
<1>4. ASSUME NEW r \in Resource, CreateResource(r) \/ ResourceFails(r) \/ DeleteResource(r)
      PROVE  EngineInv'
  BY <1>1, <1>4, CreateInv, CreationFailsInv, DeleteInv
     DEF CreateResource, ResourceFails, DeleteResource
<1>5. CASE FinishCreation \/ FinishDeletion
  BY <1>1, <1>5, StackEndsInv, StackGoneInv DEF FinishCreation, FinishDeletion
<1>6. CASE BootstrapCreates \/ FinderCreates
  BY <1>1, <1>6, HandlerCreatesInv DEF BootstrapCreates, FinderCreates
<1>7. CASE BootstrapDeletes \/ FinderDeletes \/ FinderCrashes
  BY <1>1, <1>7, HandlerDeletesInv DEF BootstrapDeletes, FinderDeletes, FinderCrashes
<1>8. CASE LaunchInstance \/ InstanceMoves \/ UNCHANGED vars
  <2>1. UNCHANGED engineVars
    BY <1>8 DEF LaunchInstance, InstanceMoves, vars, engineVars
  <2>2. QED
    BY <1>1, <2>1 DEF engineVars, EngineInv, EngineTypeOK, NeedsInPlace, OnlyTemplate,
                      CreatedIsWhole, Ready, InPlace
<1>9. QED
  BY <1>1, <1>2, <1>3, <1>4, <1>5, <1>6, <1>7, <1>8 DEF Next, TakeDown

\* Only a deployment brings a template, and only the end of a deletion takes it away.
LEMMA TemplateSteps ==
  ASSUME DeploymentInv, [Next]_vars
  PROVE  TemplateInv'
<1>1. ASSUME NEW c \in Contexts, CdkDeploy(c)
      PROVE  TemplateInv'
  BY <1>1, DeployTemplate
<1>2. CASE template' = template
  BY <1>2 DEF DeploymentInv, TemplateInv
<1>3. CASE template' = NoTemplate
  BY <1>3 DEF TemplateInv, NoTemplate
<1>4. (\A c \in Contexts : ~CdkDeploy(c)) => template' = template \/ template' = NoTemplate
  BY DEF Next, TakeDown, CdkDestroy, Destroy, CreateResource, Create, ResourceFails,
         CreationFails, DeleteResource, Delete, FinishCreation, OutputsFail, StackCreated,
         FinishDeletion, StackGone, StackFails, LaunchInstance, InstanceMoves,
         BootstrapCreates, BootstrapDeletes, FinderCreates, FinderDeletes, FinderCrashes,
         HandlerCreates, HandlerDeletes, DeletionFails, engineVars, vars
<1>5. QED
  BY <1>1, <1>2, <1>3, <1>4

\* An instance as a record, and the sequence of them as a function.
Instance == [state : InstanceState, deployment : 1..MaxDeployments]

\* Each instance has a state and a deployment.
LEMMA InstancesTyped ==
  ASSUME TypeOK
  PROVE  /\ instances \in Seq(Instance)
         /\ Len(instances) \in Nat /\ DOMAIN instances = 1..Len(instances)
         /\ \A i \in DOMAIN instances : instances[i] \in Instance
<1>1. instances \in Seq(Instance)
  BY DEF TypeOK, Instance
<1>2. QED
  BY <1>1

\* What keeps the length, and the deployment of each instance, is well typed.
LEMMA MovedInstances ==
  ASSUME DeploymentInv, NEW moved, DOMAIN moved = DOMAIN instances,
         moved = [i \in DOMAIN instances |-> moved[i]],
         \A i \in DOMAIN instances :
           moved[i] \in Instance /\ moved[i].deployment = instances[i].deployment
  PROVE  /\ moved \in Seq(Instance) /\ Len(moved) = Len(instances)
<1>2. DOMAIN instances = 1..Len(instances) /\ Len(instances) \in Nat
  BY InstancesTyped DEF DeploymentInv
<1>3. moved \in [1..Len(instances) -> Instance]
  BY <1>2
<1>4. QED
  BY <1>2, <1>3

\* Instances change in their state only, and never come up again.
LEMMA DeleteResourceInstances ==
  ASSUME DeploymentInv, NEW r \in Resource, DeleteResource(r)
  PROVE  /\ instances' \in Seq(Instance) /\ Len(instances') = Len(instances)
         /\ DOMAIN instances' = DOMAIN instances
         /\ \A i \in DOMAIN instances :
              /\ instances'[i].deployment = instances[i].deployment
              /\ instances'[i].state \in {"pending", "running"} =>
                   instances'[i] = instances[i] /\ r # "autoScalingGroup"
<1>1. instances' = [i \in DOMAIN instances |->
                      IF r = "autoScalingGroup" /\ instances[i].state # "gone"
                        THEN [instances[i] EXCEPT !.state = "terminated"]
                        ELSE instances[i]]
  BY DEF DeleteResource
<1>2. \A i \in DOMAIN instances : instances[i] \in Instance
  BY InstancesTyped DEF DeploymentInv
<1>3. ASSUME NEW i \in DOMAIN instances
      PROVE  /\ instances'[i] \in Instance
             /\ instances'[i].deployment = instances[i].deployment
             /\ instances'[i].state \in {"pending", "running"} =>
                  instances'[i] = instances[i] /\ r # "autoScalingGroup"
  <2>1. instances'[i] = IF r = "autoScalingGroup" /\ instances[i].state # "gone"
                          THEN [instances[i] EXCEPT !.state = "terminated"]
                          ELSE instances[i]
    BY <1>1
  <2>2. [instances[i] EXCEPT !.state = "terminated"] \in Instance
        /\ [instances[i] EXCEPT !.state = "terminated"].deployment = instances[i].deployment
        /\ [instances[i] EXCEPT !.state = "terminated"].state = "terminated"
    BY <1>2 DEF Instance, InstanceState
  <2>3. QED
    BY <1>2, <2>1, <2>2
<1>4. DOMAIN instances' = DOMAIN instances
      /\ instances' = [i \in DOMAIN instances |-> instances'[i]]
  BY <1>1
<1>5. QED
  BY <1>3, <1>4, MovedInstances

\* A move of one instance keeps what is known of all of them.
LEMMA InstanceMovesInstances ==
  ASSUME DeploymentInv, InstanceMoves
  PROVE  /\ instances' \in Seq(Instance) /\ Len(instances') = Len(instances)
         /\ DOMAIN instances' = DOMAIN instances
         /\ \A i \in DOMAIN instances :
              /\ instances'[i].deployment = instances[i].deployment
              /\ instances'[i].state \in {"pending", "running"} =>
                   instances[i].state \in {"pending", "running"}
<1>1. PICK j \in DOMAIN instances :
        /\ instances[j].state # "gone"
        /\ instances' = [instances EXCEPT ![j].state =
             CASE @ = "pending" -> "running"
               [] @ = "running" -> "terminated"
               [] @ = "terminated" -> "gone"]
  BY DEF InstanceMoves
<1> DEFINE next == CASE instances[j].state = "pending" -> "running"
                     [] instances[j].state = "running" -> "terminated"
                     [] instances[j].state = "terminated" -> "gone"
<1>2. \A i \in DOMAIN instances : instances[i] \in Instance
  BY InstancesTyped DEF DeploymentInv
<1>3. instances[j].state \in {"pending", "running", "terminated"}
  BY <1>1, <1>2 DEF Instance, InstanceState
<1>4. /\ next \in InstanceState
      /\ next \in {"pending", "running"} => instances[j].state \in {"pending", "running"}
  BY <1>3 DEF InstanceState
<1>5. instances' = [instances EXCEPT ![j] = [instances[j] EXCEPT !.state = next]]
  BY <1>1, Zenon
<1> HIDE DEF next
<1>6. /\ [instances[j] EXCEPT !.state = next] \in Instance
      /\ [instances[j] EXCEPT !.state = next].deployment = instances[j].deployment
      /\ [instances[j] EXCEPT !.state = next].state = next
  BY <1>2, <1>4 DEF Instance
<1>7. \A i \in DOMAIN instances :
        /\ instances'[i] \in Instance
        /\ instances'[i].deployment = instances[i].deployment
        /\ instances'[i].state \in {"pending", "running"} =>
             instances[i].state \in {"pending", "running"}
  BY <1>2, <1>4, <1>5, <1>6 DEF DeploymentInv, TypeOK
<1>8. DOMAIN instances' = DOMAIN instances
      /\ instances' = [i \in DOMAIN instances |-> instances'[i]]
  BY <1>5 DEF DeploymentInv, TypeOK
<1>9. QED
  BY <1>7, <1>8, MovedInstances

\* The type invariant, step by step.
LEMMA TypeSteps ==
  ASSUME DeploymentInv, [Next]_vars
  PROVE  TypeOK'
<1>1. EngineTypeOK'
  BY EngineSteps DEF EngineInv
<1>2. /\ TypeOK /\ MaxDeployments \in Nat /\ MaxInstances \in Nat
      /\ {"bootstrap", "finder"} \subseteq Resource /\ template.resources \subseteq Resource
      /\ CustomResource \subseteq Resource
  BY KnownResources, CloudFormationAssumption, DeploymentAssumption
     DEF DeploymentInv, TypeOK, EngineTypeOK, Template, CloudFormationAssumption,
         DeploymentAssumption
<1>3. ASSUME NEW c \in Contexts, CdkDeploy(c)
      PROVE  TypeOK'
  <2>1. domainAccepted' \in BOOLEAN
    BY <1>3, Zenon DEF CdkDeploy
  <2>2. deployments' \in 0..MaxDeployments /\ address' = Empty /\ UNCHANGED <<instances, finderCrashed>>
    BY <1>2, <1>3 DEF CdkDeploy, TypeOK
  <2>3. QED
    BY <1>1, <1>2, <2>1, <2>2 DEF TypeOK
<1>4. CASE UNCHANGED envVars
  BY <1>1, <1>2, <1>4 DEF TypeOK, envVars
<1>5. ASSUME NEW r \in Resource, DeleteResource(r)
      PROVE  TypeOK'
  <2>1. /\ instances' \in Seq(Instance) /\ Len(instances') = Len(instances)
        /\ DOMAIN instances' = DOMAIN instances
    BY <1>5, DeleteResourceInstances
  <2>2. UNCHANGED <<domainAccepted, address, finderCrashed, deployments>>
    BY <1>5 DEF DeleteResource
  <2>3. QED
    BY <1>1, <1>2, <2>1, <2>2 DEF TypeOK, Instance
<1>6. CASE LaunchInstance
  <2>1. /\ InPlace("autoScalingGroup") /\ Len(instances) < MaxInstances
        /\ instances' = Append(instances, [state |-> "pending", deployment |-> deployments])
        /\ UNCHANGED engineVars /\ UNCHANGED <<domainAccepted, address, finderCrashed, deployments>>
    BY <1>6 DEF LaunchInstance
  <2>2. deployments \in 1..MaxDeployments
    BY <1>2, <2>1, KnownResources
       DEF DeploymentInv, InstancesInv, EngineInv, OnlyTemplate, InPlace, TypeOK
  <2>3. [state |-> "pending", deployment |-> deployments] \in Instance
    BY <2>2 DEF Instance, InstanceState
  <2>4. /\ instances' \in Seq(Instance) /\ Len(instances') = Len(instances) + 1
        /\ DOMAIN instances \subseteq DOMAIN instances' /\ Len(instances) \in Nat
    BY <1>2, <2>1, <2>3, InstancesTyped
  <2>5. QED
    BY <1>1, <1>2, <2>1, <2>4 DEF TypeOK, Instance
<1>7. CASE InstanceMoves
  <2>1. /\ instances' \in Seq(Instance) /\ Len(instances') = Len(instances)
        /\ DOMAIN instances' = DOMAIN instances
    BY <1>7, InstanceMovesInstances
  <2>2. UNCHANGED <<domainAccepted, address, finderCrashed, deployments>>
    BY <1>7 DEF InstanceMoves
  <2>3. QED
    BY <1>1, <1>2, <2>1, <2>2 DEF TypeOK, Instance
<1>8. CASE FinderCreates
  <2>1. address' \in {Empty, Missing} \cup DOMAIN instances
    BY <1>8 DEF FinderCreates, PublicIpAddress, Fleet
  <2>2. UNCHANGED <<domainAccepted, instances, finderCrashed, deployments>>
    BY <1>8 DEF FinderCreates
  <2>3. QED
    BY <1>1, <1>2, <2>1, <2>2 DEF TypeOK
<1>9. CASE CdkDestroy \/ FinderCrashes
  <2>1. /\ finderCrashed' \in BOOLEAN
        /\ UNCHANGED <<domainAccepted, instances, address, deployments>>
    BY <1>9 DEF CdkDestroy, FinderCrashes
  <2>2. QED
    BY <1>1, <1>2, <2>1 DEF TypeOK
<1>10. \/ \E c \in Contexts : CdkDeploy(c)
      \/ UNCHANGED envVars \/ CdkDestroy \/ FinderCrashes
      \/ \E r \in Resource : DeleteResource(r)
      \/ LaunchInstance \/ InstanceMoves \/ FinderCreates
  BY <1>2 DEF Next, TakeDown, CreateResource, ResourceFails, FinishCreation,
         FinishDeletion, BootstrapCreates, BootstrapDeletes, FinderDeletes, envVars, vars
<1>11. QED
  BY <1>3, <1>4, <1>5, <1>6, <1>7, <1>8, <1>9, <1>10

\* Only its own deletion takes the group away, and its instances with it.
LEMMA InstancesSteps ==
  ASSUME DeploymentInv, [Next]_vars
  PROVE  InstancesInv'
<1>1. /\ InstancesInv /\ deployments \in Nat /\ template.resources \subseteq Resource
      /\ "autoScalingGroup" \in Resource /\ "finder" \in Resource
      /\ Empty \notin DOMAIN instances /\ Missing \notin DOMAIN instances
      /\ Empty # Missing
  BY KnownResources, InstancesTyped
     DEF DeploymentInv, TypeOK, EngineTypeOK, Template, Empty, Missing
<1>2. ASSUME NEW c \in Contexts, CdkDeploy(c)
      PROVE  InstancesInv'
  <2>1. /\ phase = "none" /\ phase' = "creating" /\ address' = Empty
        /\ deployments' = deployments + 1 /\ UNCHANGED instances
    BY <1>2 DEF CdkDeploy, Deploy
  <2>2. ~InPlace("autoScalingGroup")
    BY <1>1, <2>1 DEF DeploymentInv, EngineInv, OnlyTemplate, InPlace
  <2>3. \A i \in DOMAIN instances : instances[i].state \notin {"pending", "running"}
    BY <1>1, <2>2 DEF InstancesInv
  <2>4. QED
    BY <1>1, <2>1, <2>3 DEF InstancesInv
<1>3. CASE CdkDestroy
  <2>1. /\ UNCHANGED <<instances, address, deployments>>
        /\ phase' = "deleting" /\ phase # "none"
    BY <1>3 DEF CdkDestroy, Destroy, envVars
  <2>2. InPlace("autoScalingGroup") => InPlace("autoScalingGroup")'
    BY <1>1, <1>3 DEF CdkDestroy, Destroy, InPlace
  <2>3. QED
    BY <1>1, <2>1, <2>2 DEF InstancesInv
<1>4. ASSUME NEW r \in Resource, CreateResource(r) \/ ResourceFails(r)
      PROVE  InstancesInv'
  <2>1. UNCHANGED <<instances, address, deployments>>
    BY <1>4 DEF CreateResource, ResourceFails, envVars
  <2>2. phase' = "created" => phase = "created"
    BY <1>4 DEF CreateResource, Create, ResourceFails, CreationFails
  <2>3. phase # "none"
    BY <1>4, Busy DEF CreateResource, Create, ResourceFails, CreationFails, StartCreating,
                      DeploymentInv
  <2>4. InPlace("autoScalingGroup") => InPlace("autoScalingGroup")'
    BY <1>1, <1>4 DEF CreateResource, Create, ResourceFails, CreationFails, StartCreating,
                      Set, InPlace, DeploymentInv, TypeOK, EngineTypeOK
  <2>5. QED
    BY <1>1, <2>1, <2>2, <2>3, <2>4 DEF InstancesInv
<1>5. ASSUME NEW r \in Resource, DeleteResource(r)
      PROVE  InstancesInv'
  <2>1. /\ DOMAIN instances' = DOMAIN instances
        /\ \A i \in DOMAIN instances :
             /\ instances'[i].deployment = instances[i].deployment
             /\ instances'[i].state \in {"pending", "running"} =>
                  instances'[i] = instances[i] /\ r # "autoScalingGroup"
    BY <1>5, DeleteResourceInstances
  <2>2. UNCHANGED <<phase, address, deployments>>
    BY <1>5 DEF DeleteResource, Delete
  <2>3. r # "autoScalingGroup" =>
          (InPlace("autoScalingGroup") => InPlace("autoScalingGroup")')
    BY <1>1, <1>5 DEF DeleteResource, Delete, Set, InPlace, DeploymentInv, TypeOK, EngineTypeOK
  <2>4. QED
    BY <1>1, <2>1, <2>2, <2>3 DEF InstancesInv
<1>6. CASE FinishCreation \/ FinishDeletion
  <2>1. UNCHANGED <<instances, address, deployments, status>>
    BY <1>6 DEF FinishCreation, StackCreated, OutputsFail, FinishDeletion, StackGone,
                StackFails, envVars
  <2>2. phase # "none" /\ (phase' = "created" => address # Missing)
    BY <1>6 DEF FinishCreation, StackCreated, OutputsFail, FinishDeletion, StackGone,
                StackFails, TakingDown
  <2>3. QED
    BY <1>1, <2>1, <2>2 DEF InstancesInv, InPlace
<1>7. CASE LaunchInstance
  <2>1. /\ InPlace("autoScalingGroup") /\ UNCHANGED <<status, phase, address, deployments>>
        /\ instances' = Append(instances, [state |-> "pending", deployment |-> deployments])
    BY <1>7 DEF LaunchInstance, engineVars
  <2>2. /\ instances \in Seq(Instance) /\ Len(instances) \in Nat
        /\ DOMAIN instances = 1..Len(instances)
    BY InstancesTyped DEF DeploymentInv
  <2>3. /\ DOMAIN instances' = 1..(Len(instances) + 1)
        /\ \A i \in DOMAIN instances : instances'[i] = instances[i]
        /\ instances'[Len(instances) + 1] = [state |-> "pending", deployment |-> deployments]
    BY <2>1, <2>2
  <2>4. \A i \in DOMAIN instances' : i \in DOMAIN instances \/ i = Len(instances) + 1
    BY <2>2, <2>3
  <2>5. address \in DOMAIN instances' => address \in DOMAIN instances
    BY <1>1, <2>2, <2>3 DEF DeploymentInv, TypeOK, Empty, Missing
  <2>6. QED
    BY <1>1, <2>1, <2>3, <2>4, <2>5 DEF InstancesInv, InPlace
<1>8. CASE InstanceMoves
  <2>1. /\ DOMAIN instances' = DOMAIN instances
        /\ \A i \in DOMAIN instances :
             /\ instances'[i].deployment = instances[i].deployment
             /\ instances'[i].state \in {"pending", "running"} =>
                  instances[i].state \in {"pending", "running"}
    BY <1>8, InstanceMovesInstances
  <2>2. UNCHANGED <<status, phase, address, deployments>>
    BY <1>8 DEF InstanceMoves, engineVars
  <2>3. QED
    BY <1>1, <2>1, <2>2 DEF InstancesInv, InPlace
<1>9. CASE FinderCreates
  <2>1. /\ address' \in PublicIpAddress /\ UNCHANGED <<instances, deployments, phase>>
        /\ status["finder"] = "creating" /\ status' = [status EXCEPT !["finder"] = "created"]
    BY <1>9 DEF FinderCreates, HandlerCreates, Set
  <2>2. phase \notin {"none", "created"}
    BY <1>1, <2>1, Busy DEF DeploymentInv
  <2>3. address' \in DOMAIN instances => instances[address'].state = "running"
    BY <1>1, <2>1 DEF PublicIpAddress, Fleet
  <2>4. InPlace("autoScalingGroup") => InPlace("autoScalingGroup")'
    BY <1>1, <2>1 DEF InPlace, DeploymentInv, TypeOK, EngineTypeOK
  <2>5. QED
    BY <1>1, <2>1, <2>2, <2>3, <2>4 DEF InstancesInv
<1>10. CASE BootstrapCreates \/ BootstrapDeletes \/ FinderDeletes \/ FinderCrashes
  <2>1. UNCHANGED <<instances, address, deployments, phase>>
    BY <1>10 DEF BootstrapCreates, BootstrapDeletes, FinderDeletes, FinderCrashes,
                 HandlerCreates, HandlerDeletes, DeletionFails, envVars
  <2>2. InPlace("autoScalingGroup") => InPlace("autoScalingGroup")'
    BY <1>1, <1>10 DEF BootstrapCreates, BootstrapDeletes, FinderDeletes, FinderCrashes,
                 HandlerCreates, HandlerDeletes, DeletionFails, Set, InPlace, DeploymentInv, TypeOK,
                 EngineTypeOK
  <2>3. QED
    BY <1>1, <2>1, <2>2 DEF InstancesInv
<1>11. CASE UNCHANGED vars
  BY <1>1, <1>11 DEF vars, InstancesInv, InPlace
<1>12. CustomResource \subseteq Resource
  BY CloudFormationAssumption DEF CloudFormationAssumption
<1>13. QED
  BY <1>1, <1>2, <1>3, <1>4, <1>5, <1>6, <1>7, <1>8, <1>9, <1>10, <1>11, <1>12
     DEF Next, TakeDown

-----------------------------------------------------------------------------
(* The theorems.                                                           *)

\* The inductive invariant holds in every behaviour.
LEMMA Invariant == Spec => []DeploymentInv
<1>1. DeploymentInv /\ [Next]_vars => DeploymentInv'
  BY EngineSteps, TemplateSteps, TypeSteps, InstancesSteps DEF DeploymentInv
<1>2. QED
  BY InitInv, <1>1, PTL DEF Spec

\* Every variable keeps its type, for any templates, any number of deployments and any
\* number of instances.
THEOREM TypeCorrect == Spec => []TypeOK
<1>1. DeploymentInv => TypeOK
  BY DEF DeploymentInv
<1>2. QED
  BY Invariant, <1>1, PTL

\* The bootstrap's handler runs only when the domain can be reached: its own needs, and
\* those of the function and of the domain, in the templates of the backend stack, cover
\* all that the handler uses (opensearch_bootstrap.py:62 and backend_stack.py:129).
THEOREM BootstrapReachesDomain == Spec => []BootstrapCanRun
<1>1. DeploymentInv => BootstrapCanRun
  <2> SUFFICES ASSUME DeploymentInv, status["bootstrap"] \in {"creating", "deleting"}
               PROVE  \A r \in BootstrapUses : InPlace(r)
    BY DEF BootstrapCanRun
  <2>1. /\ EngineInv /\ TemplateInv
        /\ {"bootstrap", "bootstrapFunction", "domain"} \subseteq Resource
    BY KnownResources DEF DeploymentInv, BootstrapUses
  <2>2. "bootstrap" \in template.resources /\ Ready("bootstrap")
    BY <2>1, Busy
  <2>3. InPlace("bootstrapFunction") /\ InPlace("domain") /\ InPlace("crToDomainIngress")
    BY <2>1, <2>2 DEF TemplateInv, Ready
  <2>4. Ready("bootstrapFunction") /\ Ready("domain")
    BY <2>1, <2>3 DEF EngineInv, NeedsInPlace, InPlace
  <2>5. \A r \in {"role", "rolePolicy", "secrets", "pipelineRole", "bootstrapSecurityGroup",
                  "domainSecurityGroup"} : InPlace(r)
    BY <2>1, <2>2, <2>4 DEF TemplateInv, Ready
  <2>6. QED
    BY <2>3, <2>5 DEF BootstrapUses
<1>2. QED
  BY Invariant, <1>1, PTL

\* The dashboard's URL of a created stack is that of a proxy of this deployment, however
\* often instances are lost and replaced and stacks deployed and destroyed before.
THEOREM UrlOfThisDeployment == Spec => []DashboardUrl
<1>1. DeploymentInv => DashboardUrl
  BY DEF DeploymentInv, TypeOK, InstancesInv, DashboardUrl
<1>2. QED
  BY Invariant, <1>1, PTL

-----------------------------------------------------------------------------
(* The subnets of the domain.                                              *)

\* One subnet more, unless its zone has one.
Keep(chosen, s) ==
  IF \E i \in DOMAIN chosen : chosen[i].zone = s.zone THEN chosen ELSE Append(chosen, s)

\* What a function that goes through the subnets, in order, satisfies.
Chooses(f, subnets) ==
  f = [T \in SUBSET (DOMAIN subnets) |->
         IF T = {} THEN <<>> ELSE Keep(f[T \ {Max(T)}], subnets[Max(T)])]

\* A set of positions has a last one.
LEMMA LastPosition ==
  ASSUME NEW n \in Nat, NEW T \in SUBSET (1..n), T # {}
  PROVE  Max(T) \in T
<1>1. IsFiniteSet(1..n) /\ T \subseteq Int
  BY FS_Interval
<1>2. IsFiniteSet(T)
  BY <1>1, FS_Subset
<1>3. \E least \in T, most \in T : \A x \in T : least <= x /\ x <= most
  BY <1>1, <1>2, FiniteHasBounds
<1>4. \E most \in T : \A x \in T : most >= x
  BY <1>1, <1>3
<1>5. QED
  BY <1>4 DEF Max

\* The zones of a list of subnets.
ZonesOf(subnets) == {subnets[i].zone : i \in DOMAIN subnets}

\* A subnet more is one of another zone, and its zone is one of those there are then.
LEMMA KeepDifferent ==
  ASSUME NEW chosen \in Seq(Subnet), NEW s \in Subnet
  PROVE  /\ Keep(chosen, s) \in Seq(Subnet)
         /\ DifferentZones(chosen) => DifferentZones(Keep(chosen, s))
         /\ ZonesOf(Keep(chosen, s)) = ZonesOf(chosen) \cup {s.zone}
<1>1. Keep(chosen, s) \in Seq(Subnet)
  BY DEF Keep
<1>2. ASSUME DifferentZones(chosen), ~ \E i \in DOMAIN chosen : chosen[i].zone = s.zone
      PROVE  DifferentZones(Append(chosen, s))
  <2> DEFINE longer == Append(chosen, s)
  <2>1. /\ DOMAIN chosen = 1..Len(chosen) /\ DOMAIN longer = 1..Len(chosen) + 1
        /\ Len(chosen) \in Nat
    OBVIOUS
  <2>2. /\ \A i \in 1..Len(chosen) : longer[i] = chosen[i]
        /\ longer[Len(chosen) + 1] = s
    OBVIOUS
  <2> HIDE DEF longer
  <2>3. ASSUME NEW i \in DOMAIN longer, NEW j \in DOMAIN longer, i < j
        PROVE  longer[i].zone # longer[j].zone
    <3>1. i \in DOMAIN chosen /\ longer[i] = chosen[i]
      BY <2>1, <2>2, <2>3
    <3>2. CASE j \in DOMAIN chosen
      BY <1>2, <2>1, <2>2, <2>3, <3>1, <3>2 DEF DifferentZones
    <3>3. CASE j \notin DOMAIN chosen
      <4>1. j = Len(chosen) + 1
        BY <2>1, <3>3
      <4>2. QED
        BY <1>2, <2>2, <3>1, <4>1
    <3>4. QED
      BY <3>2, <3>3
  <2>4. \A i, j \in DOMAIN longer : i # j => i < j \/ j < i
    BY <2>1
  <2>5. DifferentZones(longer)
    BY <2>3, <2>4 DEF DifferentZones
  <2>6. QED
    BY <2>5 DEF longer
<1>3. ZonesOf(Append(chosen, s)) = ZonesOf(chosen) \cup {s.zone}
  <2> DEFINE longer == Append(chosen, s)
  <2>1. /\ DOMAIN chosen = 1..Len(chosen) /\ DOMAIN longer = 1..Len(chosen) + 1
        /\ Len(chosen) \in Nat
        /\ \A i \in 1..Len(chosen) : longer[i] = chosen[i]
        /\ longer[Len(chosen) + 1] = s
    OBVIOUS
  <2> HIDE DEF longer
  <2>2. DOMAIN longer = DOMAIN chosen \cup {Len(chosen) + 1}
    BY <2>1
  <2>3. ZonesOf(longer) = ZonesOf(chosen) \cup {s.zone}
    BY <2>1, <2>2 DEF ZonesOf
  <2>4. QED
    BY <2>3 DEF longer
<1>4. (\E i \in DOMAIN chosen : chosen[i].zone = s.zone) => s.zone \in ZonesOf(chosen)
  BY DEF ZonesOf
<1>5. QED
  BY <1>1, <1>2, <1>3, <1>4 DEF Keep

\* Such a function exists for every list.
LEMMA ChoiceExists ==
  ASSUME NEW subnets \in Seq(Subnet)
  PROVE  \E f \in [SUBSET (DOMAIN subnets) -> Seq(Subnet)] : Chooses(f, subnets)
<1> DEFINE D == DOMAIN subnets
           V == Seq(Subnet)
           step == [p \in D \X V |-> Keep(p[2], subnets[p[1]])]
           pick == [T \in SUBSET D |-> Max(T)]
<1>0. D = 1..Len(subnets) /\ Len(subnets) \in Nat
  OBVIOUS
<1>1. FoldArguments(D, V, <<>>, step, pick)
  <2>1. IsFiniteSet(D)
    BY <1>0, FS_Interval
  <2>2. step \in [D \X V -> V]
    <3>1. \A p \in D \X V : p[2] \in V /\ subnets[p[1]] \in Subnet
      OBVIOUS
    <3>2. \A p \in D \X V : Keep(p[2], subnets[p[1]]) \in V
      BY <3>1, KeepDifferent
    <3>3. QED
      BY <3>2
  <2>3. \A T \in SUBSET D : T # {} => pick[T] \in T
    BY <1>0, LastPosition
  <2>4. <<>> \in V
    OBVIOUS
  <2>5. QED
    BY <2>1, <2>2, <2>3, <2>4 DEF FoldArguments
<1>2. \E f \in [SUBSET D -> V] : IsFold(f, D, <<>>, step, pick)
  <2> HIDE DEF D, V, step, pick
  <2>1. QED
    BY <1>1, FoldExists
<1>3. PICK f \in [SUBSET D -> V] : IsFold(f, D, <<>>, step, pick)
  BY <1>2
<1>4. ASSUME NEW T \in SUBSET D, T # {}
      PROVE  f[T] = Keep(f[T \ {Max(T)}], subnets[Max(T)])
  <2>1. Max(T) \in T /\ pick[T] = Max(T)
    BY <1>0, <1>4, LastPosition
  <2>2. f[T] = step[<<Max(T), f[T \ {Max(T)}]>>]
    BY <1>3, <1>4, <2>1 DEF IsFold
  <2>3. <<Max(T), f[T \ {Max(T)}]>> \in D \X V
    <3>1. T \ {Max(T)} \in SUBSET D /\ Max(T) \in D
      BY <2>1
    <3> HIDE DEF D, V
    <3>2. QED
      BY <1>3, <3>1
  <2> HIDE DEF V
  <2>4. QED
    BY <2>2, <2>3
<1>5. Chooses(f, subnets)
  <2>1. f = [T \in SUBSET D |-> f[T]]
    BY <1>3
  <2>2. \A T \in SUBSET D :
          f[T] = IF T = {} THEN <<>> ELSE Keep(f[T \ {Max(T)}], subnets[Max(T)])
    BY <1>3, <1>4 DEF IsFold
  <2>3. QED
    BY <2>1, <2>2 DEF Chooses
<1>6. QED
  BY <1>3, <1>5

\* The subnets chosen are what such a function has for the whole list.
LEMMA OnePerZoneChooses ==
  ASSUME NEW subnets \in Seq(Subnet)
  PROVE  \E g : Chooses(g, subnets) /\ OnePerZone(subnets) = g[DOMAIN subnets]
<1>1. PICK f : Chooses(f, subnets)
  BY ChoiceExists
<1>2. QED
  BY <1>1 DEF Chooses, Keep, OnePerZone, FoldLeft, MapThenFoldSet

\* The subnets chosen lie in different zones, and in all that the subnets have.
LEMMA ChosenDiffer ==
  ASSUME NEW subnets \in Seq(Subnet)
  PROVE  /\ OnePerZone(subnets) \in Seq(Subnet)
         /\ DifferentZones(OnePerZone(subnets))
         /\ ZonesOf(OnePerZone(subnets)) = ZonesOf(subnets)
<1> DEFINE D == DOMAIN subnets
<1>0. D = 1..Len(subnets) /\ Len(subnets) \in Nat
  OBVIOUS
<1>1. PICK g : Chooses(g, subnets) /\ OnePerZone(subnets) = g[D]
  BY OnePerZoneChooses
<1> DEFINE Good == {T \in SUBSET D : /\ g[T] \in Seq(Subnet) /\ DifferentZones(g[T])
                                     /\ ZonesOf(g[T]) = {subnets[i].zone : i \in T}}
<1>2. {} \in Good
  <2>1. g[{}] = <<>>
    BY <1>1 DEF Chooses
  <2>2. DifferentZones(<<>>) /\ <<>> \in Seq(Subnet) /\ ZonesOf(<<>>) = {}
    BY DEF DifferentZones, ZonesOf
  <2>3. QED
    BY <2>1, <2>2
<1>3. ASSUME NEW T \in SUBSET D, T # {}, \A x \in T : T \ {x} \in Good
      PROVE  T \in Good
  <2>1. Max(T) \in T /\ subnets[Max(T)] \in Subnet
    BY <1>0, <1>3, LastPosition
  <2>2. g[T] = Keep(g[T \ {Max(T)}], subnets[Max(T)])
    BY <1>1, <1>3 DEF Chooses
  <2>3. /\ g[T \ {Max(T)}] \in Seq(Subnet) /\ DifferentZones(g[T \ {Max(T)}])
        /\ ZonesOf(g[T \ {Max(T)}]) = {subnets[i].zone : i \in T \ {Max(T)}}
    BY <1>3, <2>1
  <2>4. /\ g[T] \in Seq(Subnet) /\ DifferentZones(g[T])
        /\ ZonesOf(g[T]) = ZonesOf(g[T \ {Max(T)}]) \cup {subnets[Max(T)].zone}
    BY <2>1, <2>2, <2>3, KeepDifferent
  <2>5. ZonesOf(g[T]) = {subnets[i].zone : i \in T}
    BY <2>1, <2>3, <2>4
  <2>6. QED
    BY <1>3, <2>4, <2>5
<1>4. SUBSET D \subseteq Good
  <2>1. IsFiniteSet(D)
    BY <1>0, FS_Interval
  <2> HIDE DEF Good, D
  <2>2. QED
    BY <2>1, <1>2, <1>3, ClosedUnderAddition
<1>5. D \in Good
  BY <1>4
<1>6. QED
  BY <1>1, <1>5 DEF ZonesOf

\* Subnets of different zones are as many as their zones.
LEMMA AsManyAsZones ==
  ASSUME NEW subnets \in Seq(Subnet), DifferentZones(subnets)
  PROVE  Cardinality(ZonesOf(subnets)) = Len(subnets)
<1> DEFINE D == 1..Len(subnets)
           zone == [i \in D |-> subnets[i].zone]
<1>1. DOMAIN subnets = D /\ Len(subnets) \in Nat
  OBVIOUS
<1>2. zone \in [D -> ZonesOf(subnets)]
  BY <1>1 DEF ZonesOf
<1>3. \A i, j \in D : zone[i] = zone[j] => i = j
  BY <1>1 DEF DifferentZones
<1>4. \A z \in ZonesOf(subnets) : \E i \in D : zone[i] = z
  BY <1>1 DEF ZonesOf
<1>5. IsFiniteSet(D) /\ Cardinality(D) = Len(subnets)
  BY <1>1, FS_Interval
<1> HIDE DEF D, zone
<1>6. zone \in Bijection(D, ZonesOf(subnets))
  BY <1>2, <1>3, <1>4 DEF Bijection, Injection, Surjection, IsInjective
<1>7. ExistsBijection(D, ZonesOf(subnets))
  BY <1>6 DEF ExistsBijection
<1>8. QED
  BY <1>5, <1>7, FS_Bijection

\* What the domain is described with: one subnet for each zone it needs.
LEMMA SubnetsOfDomain ==
  ASSUME NEW c \in Contexts, ~Given(c, "OpensearchSubnetsIDs"),
         NEW size, NEW n \in Nat, n = az_count(size),
         Cardinality({s.zone : s \in Range(PrivateSubnetsOf(c))}) >= n,
         NEW subnets, subnets = os_subnets(c, size)
  PROVE  OneOfEach(subnets, n)
<1>1. PICK list : list = OnePerZone(PrivateSubnetsOf(c))
  OBVIOUS
<1>2. list \in Seq(Subnet) /\ DifferentZones(list) /\ Len(list) >= n
  <2>1. PrivateSubnetsOf(c) \in Seq(Subnet)
    <3>1. PrivateSubnets \in Seq(Subnet)
      BY BackendAssumption DEF BackendAssumption
    <3>2. [i \in 1..3 |-> [zone |-> i, id |-> i]] \in [1..3 -> Subnet]
      BY DEF Subnet
    <3>3. \A f \in [1..3 -> Subnet] : f = <<f[1], f[2], f[3]>>
      OBVIOUS
    <3>4. [i \in 1..3 |-> [zone |-> i, id |-> i]] \in Seq(Subnet)
      BY <3>2, <3>3
    <3>5. QED
      BY <3>1, <3>4 DEF PrivateSubnetsOf
  <2>2. {s.zone : s \in Range(PrivateSubnetsOf(c))} = ZonesOf(PrivateSubnetsOf(c))
    BY DEF ZonesOf, Range
  <2>3. /\ list \in Seq(Subnet) /\ DifferentZones(list)
        /\ ZonesOf(list) = ZonesOf(PrivateSubnetsOf(c))
    BY <1>1, <2>1, ChosenDiffer
  <2>4. Len(list) = Cardinality(ZonesOf(list))
    BY <2>3, AsManyAsZones
  <2>5. QED
    BY <2>2, <2>3, <2>4
<1>3. subnets = [i \in 1..n |-> <<list[i]>>]
  <2>1. PICK m : m = Len(list)
    OBVIOUS
  <2>2. Min({m, n}) = n
    <3>1. m \in Nat /\ m >= n
      BY <1>2, <2>1
    <3>2. \A x \in {m, n} : (\A y \in {m, n} : x <= y) <=> x = n
      BY <3>1
    <3>3. QED
      BY <3>2 DEF Min
  <2>3. QED
    BY <1>1, <2>1, <2>2 DEF os_subnets
<1>4. DOMAIN list = 1..Len(list) /\ Len(list) \in Nat
  BY <1>2
<1>5. DOMAIN subnets = 1..n /\ Len(subnets) = n
  BY <1>3
<1>6. \A i \in 1..n : Len(subnets[i]) = 1 /\ subnets[i][1] = list[i]
  BY <1>3
<1>7. \A i, j \in 1..n : i # j => list[i].zone # list[j].zone
  BY <1>2, <1>4 DEF DifferentZones
<1>8. DifferentZones([i \in DOMAIN subnets |-> subnets[i][1]])
  BY <1>5, <1>6, <1>7 DEF DifferentZones
<1>9. QED
  BY <1>5, <1>6, <1>8 DEF OneOfEach

\* Every size has a number of zones.
LEMMA SizesHaveZones ==
  ASSUME NEW size \in TshirtSize
  PROVE  az_count(size) \in Nat
<1>1. CASE size = "xs"
  BY <1>1 DEF az_count, ClusterConfig, Cluster
<1>2. CASE size = "s"
  BY <1>2 DEF az_count, ClusterConfig, Cluster
<1>3. CASE size = "m"
  BY <1>3 DEF az_count, ClusterConfig, Cluster
<1>4. CASE size = "l"
  BY <1>4 DEF az_count, ClusterConfig, Cluster
<1>5. CASE size = "xl"
  BY <1>5 DEF az_count, ClusterConfig, Cluster
<1>6. QED
  BY <1>1, <1>2, <1>3, <1>4, <1>5 DEF TshirtSize

\* The subnets that the stack chooses itself are one for each zone of the domain, for
\* every size and every VPC that has the zones, whatever subnets are in them
\* (backend_stack.py:50-56).
THEOREM ChosenFit == Spec => ChosenSubnetsFit
<1>1. ASSUME NEW c \in Contexts, CdkDeploy(c), c.Stack = "backend",
             ~Given(c, "OpensearchSubnetsIDs"),
             Cardinality({s.zone : s \in Range(PrivateSubnetsOf(c))}) >= az_count(c.TshirtSize)
      PROVE  OneOfEach(os_subnets(c, c.TshirtSize), az_count(c.TshirtSize))
  <2>1. PICK size : size = c.TshirtSize
    OBVIOUS
  <2>2. size \in TshirtSize
    BY <1>1, <2>1 DEF CdkDeploy, StackRaises, SizeRaises
  <2>3. PICK n \in Nat : n = az_count(size)
    BY <2>2, SizesHaveZones
  <2>4. PICK subnets : subnets = os_subnets(c, size)
    OBVIOUS
  <2>5. OneOfEach(subnets, n)
    BY <1>1, <2>1, <2>3, <2>4, SubnetsOfDomain
  <2>6. QED
    BY <2>1, <2>3, <2>4, <2>5
<1>2. [Next]_vars =>
        [\A c \in Contexts :
           LET zones == {s.zone : s \in Range(PrivateSubnetsOf(c))}
               n == az_count(c.TshirtSize)
           IN  /\ CdkDeploy(c)
               /\ c.Stack = "backend" /\ ~Given(c, "OpensearchSubnetsIDs")
               /\ Cardinality(zones) >= n
               => OneOfEach(os_subnets(c, c.TshirtSize), n)]_deployments
  BY <1>1
<1>3. QED
  BY <1>2, PTL DEF Spec, ChosenSubnetsFit
=============================================================================
