SPECIFICATION FairSpec
CONSTANTS
  Listeners = {l1, l2, l3}
  MaxDocuments = 2
  MaxMessages = 2
  MaxCalls = 4
INVARIANTS
  MessagesHeard
  ClientHearsInOrder
PROPERTIES
  DispatchCompletes
CHECK_DEADLOCK FALSE
