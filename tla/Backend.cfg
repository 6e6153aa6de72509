CONSTANTS
  SavedObjects = {index_pattern, dashboard}
  MaxRequests = 2
  Version = {v1, v2, v3}
  FirstVersion = v1
  Password = {p1, p2}
  Worker = {w1, w2}
  None = None

SPECIFICATION BackendSpec

SYMMETRY Symmetry

INVARIANTS
  BackendTypeOK
  CreatedIsComplete
  PasswordInForce

\* CloudFormation stops sending requests.
CHECK_DEADLOCK FALSE
