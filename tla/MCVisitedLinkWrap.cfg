SPECIFICATION MasterSpec
CONSTANTS
  Fingerprints = {4, 9, 15}
  TableSizes <- MCSizes
  BigDelete = 1
  Operations <- AllOperations
  MayFail = FALSE
  MaxOps = 2
  MaxCrashes = 0
INVARIANTS
  WrapIsHandled
CHECK_DEADLOCK FALSE
