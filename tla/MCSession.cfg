SPECIFICATION FairSpec
CONSTANTS
  MaxRequests = 2
  MaxWrites = 2
  Rules = {p1, p2}
  MaxConfigs = 4
  Downloads = {d1, d2}
  Workloads <- MCWorkloads
  Word = 4
  Times = {0, 3, 4, 9}
INVARIANTS
  CookiesInOrder
  ProxyFollowsRules
  CookiesSurvive
PROPERTIES
  RequestsServed
CHECK_DEADLOCK FALSE
