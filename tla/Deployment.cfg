CONSTANTS
  Resource <- MCResource
  CustomResource = {"bootstrap", "finder"}
  PrivateSubnets <- MCPrivateSubnets
  Contexts <- MCContexts
  MaxInstances = 2
  MaxDeployments = 2

SPECIFICATION FairSpec

INVARIANTS
  TypeOK
  BootstrapCanRun
  DashboardUrl

PROPERTIES
  ChosenSubnetsFit
  RollbackEnds

\* A deployment may be the last one.
CHECK_DEADLOCK FALSE
