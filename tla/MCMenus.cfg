SPECIFICATION Spec
CONSTANTS
  Menus = {m1, m2, m3}
  Windows = {1, 2}
  Commands = {c1, c2}
  None = None
  MaxItems = 2
  MaxCalls = 7
  MaxRestarts = 2
  Workloads = {"menus", "registrar"}
  Mac = FALSE
  Tokens <- MCTokens
  MaxTokens = 3
INVARIANTS
  BarsFollow
  CarefulMenusWork
  RegistrarKnowsBars
  AcceleratorsAgree
CHECK_DEADLOCK FALSE
