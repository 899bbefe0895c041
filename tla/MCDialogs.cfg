SPECIFICATION ChooserFairSpec
CONSTANTS
  Contents = {1, 2}
  Platforms = {"win", "mac", "aura"}
  MaxRequests = 3
  MaxReports = 2
  Entries <- MCEntries
INVARIANTS
  ChoosersSound
  ColoursKept
  FilesFitTheMode
PROPERTIES
  ChoosersEnd
CHECK_DEADLOCK FALSE
