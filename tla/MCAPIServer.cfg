SPECIFICATION FairSpec
CONSTANTS
  Types <- MCTypes
  UnknownType = "other"
  SessionType = "session"
  WindowType = "window"
  MenuType = "menu"
  MaxSent = 4
  MaxPushes = 2
  MaxTraffic = 5
INVARIANTS
  RemotesOwned
  CallbackRunsOnce
  AliveIffHeld
  ActionsArrive
PROPERTIES
  ImplementsContract
  SessionsLast
  CreatesAndDeletesAnswered
CHECK_DEADLOCK FALSE
