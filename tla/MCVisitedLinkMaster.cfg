SPECIFICATION MasterSpec
CONSTANTS
  Fingerprints = {4, 9, 15}
  TableSizes <- MCSizes
  BigDelete = 1
  Operations <- AllOperations
  MayFail = TRUE
  MaxOps = 3
  MaxCrashes = 1
INVARIANTS
  TableSound
  SavedWhenQuiet
  LookupsDuringDeletion
PROPERTIES
  ChangesKeptAndTold
  Durable
CHECK_DEADLOCK FALSE
