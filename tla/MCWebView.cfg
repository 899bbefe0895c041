SPECIFICATION FairSpec
CONSTANTS
  Urls = {"a", "b"}
  Zooms = {1, 2}
  DefaultZoom = 1
  MaxGuests = 2
  MaxDialogs = 2
  MaxTurns = 3
  MaxWrites = 2
  MaxActs = 1
  Calls = {"Reload", "Stop"}
  ContentCalls = {"Find"}
INVARIANTS
  CarefulPagesNeverCrash
  GuestsAccountedFor
  ElementShowsGuest
  AnswersReachTheirDialog
PROPERTIES
  AssignmentsNavigate
  NothingHangs
CHECK_DEADLOCK FALSE
