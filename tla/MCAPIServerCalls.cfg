SPECIFICATION FairSpec
CONSTANTS
  Types <- MCTypes
  UnknownType = "other"
  SessionType = "session"
  WindowType = "window"
  MenuType = "menu"
  MaxSent = 3
  MaxPushes = 0
  MaxTraffic = 3
PROPERTY CallsAnswered
CHECK_DEADLOCK FALSE
