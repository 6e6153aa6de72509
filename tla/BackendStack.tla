---------------------------- MODULE BackendStack ----------------------------
(***************************************************************************)
(* What the CDK application makes of the parameters of its backend stack:  *)
(* the description of the domain that OpenSearch is asked for, and the     *)
(* template that CloudFormation is given.                                  *)
(*                                                                         *)
(* A template has the resources that some property tells apart, each under *)
(* one name together with those that always come and go with it, and the   *)
(* pairs <<r, n>> where r refers to n or was declared to depend on it.     *)
(* CDK lets a function wait for its role and the policies of the role.     *)
(***************************************************************************)
EXTENDS Integers, Sequences, SequencesExt

CONSTANT PrivateSubnets   \* those of the VPC that VpcID names

\* A subnet lies in one zone of the region.
Subnet == [zone : Nat, id : Nat]

ASSUME BackendAssumption == PrivateSubnets \in Seq(Subnet)

Fragment(resources, needs) == [resources |-> resources, needs |-> needs]

\* A context is a function from the parameters that are given to their values.
Given(context, key) == key \in DOMAIN context

-----------------------------------------------------------------------------
(* The domain.                                                             *)

TshirtSize == {"xs", "s", "m", "l", "xl"}

\* load_tshirt_size raises; a size in capitals counts as the same.
SizeRaises(context) == ~Given(context, "TshirtSize") \/ context.TshirtSize \notin TshirtSize

Cluster(type, count, masters, warm, zones) ==
  [instance_type |-> type, instance_count |-> count, dedicated_master_count |-> masters,
   warm_count |-> warm, availability_zone_count |-> zones]

\* 0 where the code leaves a count out: no zone awareness, no dedicated masters.
ClusterConfig ==
  [xs |-> Cluster("t3.small.search", 3, 0, 0, 0),
   s  |-> Cluster("m6g.large.search", 3, 0, 0, 3),
   m  |-> Cluster("r6g.xlarge.search", 3, 3, 1, 3),
   l  |-> Cluster("r6g.4xlarge.search", 3, 3, 1, 3),
   xl |-> Cluster("r6.4xlarge.search", 12, 5, 4, 3)]

\* Without zone awareness the look-up raises, and the count is 1.
az_count(size) ==
  IF ClusterConfig[size].availability_zone_count = 0
    THEN 1
    ELSE ClusterConfig[size].availability_zone_count

\* Vpc(max_azs=3) without VpcID: one private subnet in each of three zones.
PrivateSubnetsOf(context) ==
  IF Given(context, "VpcID") THEN PrivateSubnets ELSE [i \in 1..3 |-> [zone |-> i, id |-> i]]

\* Mutant: all subnets of the type, several of them in one zone.
OnePerZone_All(subnets) == subnets

\* select_subnets(one_per_az=True).
OnePerZone(subnets) ==
  FoldLeft(LAMBDA chosen, s :
             IF \E i \in DOMAIN chosen : chosen[i].zone = s.zone
               THEN chosen ELSE Append(chosen, s),
           <<>>, subnets)

\* Python's list.split(',', n): at most n cuts, and the rest stays one piece.
SplitAtMost(list, n) ==
  IF Len(list) <= n + 1
    THEN [i \in DOMAIN list |-> <<list[i]>>]
    ELSE Append([i \in 1..n |-> <<list[i]>>], SubSeq(list, n + 1, Len(list)))

\* The subnet ids the domain is described with; one that is still a list is not an id.
os_subnets(context, size) ==
  IF Given(context, "OpensearchSubnetsIDs")
    THEN SplitAtMost(context.OpensearchSubnetsIDs, az_count(size))
    ELSE LET chosen == OnePerZone(PrivateSubnetsOf(context))
         IN  [i \in 1..Min({Len(chosen), az_count(size)}) |-> <<chosen[i]>>]

\* The types the sizes are documented with; OpenSearch has no r6 without a g.
SearchInstanceTypes ==
  {"t3.small.search", "m6g.large.search", "r6g.xlarge.search", "r6g.4xlarge.search"}

\* OpenSearch takes three or five dedicated masters, warm nodes only beside them, a node
\* for each zone, and exactly one subnet per zone of the domain, all of one VPC.
Accepted(context, size) ==
  LET cluster == ClusterConfig[size]
      subnets == os_subnets(context, size)
  IN  /\ cluster.instance_type \in SearchInstanceTypes
      /\ cluster.dedicated_master_count \in {0, 3, 5}
      /\ cluster.warm_count > 0 => cluster.dedicated_master_count > 0
      /\ cluster.instance_count >= cluster.availability_zone_count
      /\ Len(subnets) = az_count(size)
      /\ \A i \in DOMAIN subnets : Len(subnets[i]) = 1
      /\ \A i, j \in DOMAIN subnets : i # j => subnets[i][1].zone # subnets[j][1].zone
      /\ Given(context, "OpensearchSubnetsIDs") => Given(context, "VpcID")

-----------------------------------------------------------------------------
(* The constructs.                                                         *)

\* A role stands for the managed policies of AWS attached to it, too; the log group and its
\* resource policy come with the domain that logs there.
OpensearchPreReq == Fragment({"role", "key", "domainSecurityGroup"}, {})

\* Made twice; either adds statements to the policy of the one role.
OpensearchCrHelpers(security_group) ==
  Fragment({security_group, "rolePolicy"}, {"rolePolicy"} \X {"role", "key"})

\* The function with its layer and the schedules that have it rotate the secrets.
RotateFunction ==
  Fragment({"rotateFunction"},
           {"rotateFunction"} \X {"role", "rolePolicy", "secretSecurityGroup", "secrets"})

\* The user's and the administrator's; the role may read both.
OpensearchSecret == Fragment({"secrets"}, {<<"rolePolicy", "secrets">>})

\* The domain, and the role of the pipelines, whose policy lets them write to it.
Opensearch ==
  Fragment({"domain", "pipelineRole", "pipelinePolicy"},
           ({"domain"} \X {"role", "key", "domainSecurityGroup"})
             \cup ({"pipelinePolicy"} \X {"pipelineRole", "domain"}))

\* Mutant: the function is not given the pipeline's role and the domain.
OpensearchBootstrap_NoDomain ==
  Fragment({"bootstrapFunction", "bootstrap"},
           ({"bootstrapFunction"} \X {"secrets", "role", "rolePolicy", "bootstrapSecurityGroup"})
             \cup {<<"bootstrap", "bootstrapFunction">>})

\* The function with its layer and its provider, and the custom resource.
OpensearchBootstrap ==
  Fragment({"bootstrapFunction", "bootstrap"},
           ({"bootstrapFunction"} \X
              {"pipelineRole", "domain", "secrets", "role", "rolePolicy",
               "bootstrapSecurityGroup"})
             \cup ({"bootstrap"} \X {"bootstrapFunction", "domain"}))

\* The group, with the role, the topic and the key of the topic that it is made with.
OpensearchRp ==
  Fragment({"rpSecurityGroup", "autoScalingGroup"},
           {"autoScalingGroup"} \X {"rpSecurityGroup", "domain"})

\* The custom resource of the address finder, with its role, function and provider.
OpensearchRpCr ==
  Fragment({"finder"}, {<<"finder", "autoScalingGroup">>})

\* Mutant: the custom resource does not wait for the rule.
Ingress_NoDependency ==
  Fragment({"crToDomainIngress", "rpToDomainIngress"},
           ({"crToDomainIngress"} \X {"domainSecurityGroup", "bootstrapSecurityGroup"})
             \cup ({"rpToDomainIngress"} \X {"domainSecurityGroup", "rpSecurityGroup"}))

\* The rules that admit the bootstrap function and the proxy to the domain;
\* cr.node.add_dependency covers everything in the construct.
Ingress ==
  Fragment({"crToDomainIngress", "rpToDomainIngress"},
           ({"crToDomainIngress"} \X {"domainSecurityGroup", "bootstrapSecurityGroup"})
             \cup ({"rpToDomainIngress"} \X {"domainSecurityGroup", "rpSecurityGroup"})
             \cup ({"bootstrapFunction", "bootstrap"} \X {"crToDomainIngress"}))

OwnVpc ==
  Fragment({"vpc"},
           {"domainSecurityGroup", "bootstrapSecurityGroup", "secretSecurityGroup",
            "rpSecurityGroup", "rotateFunction", "bootstrapFunction", "domain",
            "autoScalingGroup"} \X {"vpc"})

BackendFragments ==
  {OpensearchPreReq, OpensearchCrHelpers("bootstrapSecurityGroup"),
   OpensearchCrHelpers("secretSecurityGroup"), RotateFunction, OpensearchSecret,
   Opensearch, Ingress, OpensearchBootstrap, OpensearchRp, OpensearchRpCr}

Assemble(fragments) ==
  Fragment(UNION {f.resources : f \in fragments}, UNION {f.needs : f \in fragments})

BackendStack(context) ==
  Assemble(BackendFragments \cup (IF Given(context, "VpcID") THEN {} ELSE {OwnVpc}))
=============================================================================
