SPECIFICATION Spec
CONSTANTS
  MaxRequests = 0
  MaxWrites = 0
  Rules = {p1, p2}
  MaxConfigs = 1
  Downloads = {}
  Workloads <- ProxyWorkload
  Word = 4
  Times = {0}
INVARIANTS
  NoErroneousAccess
CHECK_DEADLOCK FALSE
