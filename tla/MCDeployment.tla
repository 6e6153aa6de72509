---------------------------- MODULE MCDeployment ----------------------------
(***************************************************************************)
(* Values for TLC: a VPC with two private subnets in its first zone, and   *)
(* command lines for each stack, some that raise or cannot be carried out. *)
(* With a VPC of its own a backend is only tried in the size whose domain  *)
(* is refused: such a template has the needs of the others and one more.   *)
(***************************************************************************)
EXTENDS Deployment, TLC

MCResource ==
  UNION {f.resources : f \in BackendFragments \cup
    {OwnVpc, IngestorFragment, IngestorVpcFragment, EmrRoleFragment,
     EmrApplicationFragment, EmrVpcFragment, TpcdsJob, VpcStack}}

S(zone, id) == [zone |-> zone, id |-> id]

MCPrivateSubnets == <<S(1, 1), S(1, 2), S(2, 3), S(3, 4)>>

Backend(size) == [Stack |-> "backend", TshirtSize |-> size]

InVpc == [VpcID |-> "vpc-1"]

Subnets(list) == [OpensearchSubnetsIDs |-> list]

Ingestor == [Stack |-> "ingestor", PipelineRoleArn |-> "role", OpensearchDomainEndpoint |-> "url"]

Example == [Stack |-> "example", CollectorPolicyArn |-> "policy", MetricsPipelineUrl |-> "url"]

MCContexts ==
  {Backend("xl"), Backend("s") @@ InVpc, Backend("l") @@ InVpc,
   Backend("xs") @@ InVpc @@ Subnets(<<S(1, 1)>>),
   Backend("xs") @@ InVpc @@ Subnets(<<S(1, 1), S(2, 3)>>),
   Backend("m") @@ InVpc @@ Subnets(<<S(1, 2), S(2, 3), S(3, 4)>>),
   Backend("m") @@ InVpc @@ Subnets(<<S(1, 1), S(1, 2), S(2, 3)>>),
   Backend("m") @@ InVpc @@ Subnets(<<S(1, 1), S(1, 2), S(2, 3), S(3, 4)>>),
   Backend("m") @@ Subnets(<<S(1, 2), S(2, 3), S(3, 4)>>),
   Backend("huge"), [Stack |-> "backend"],
   Ingestor, Ingestor @@ InVpc, [Stack |-> "ingestor"],
   Example, Example @@ InVpc, [Stack |-> "example"],
   [Stack |-> "vpc"], [Stack |-> "none"], InVpc}
=============================================================================
