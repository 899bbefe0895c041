SPECIFICATION FairSpec
CONSTANTS
  Windows = {w1, w2}
  Platforms = {"views", "mac"}
  Methods <- AllMethods
  MaxCalls = 4
  ScreenHeight = 10
  Coordinates = {0, 1, 3, 6}
  Lengths = {0, 1, 4}
INVARIANTS
  ClientKnows
  PlatformsAgree
  ClicksDecided
PROPERTIES
  ClosesEventually
CHECK_DEADLOCK FALSE
