SPECIFICATION FairSpec
CONSTANTS
  Renderers = {r1, r2}
  Links = {l1, l2}
  Threshold = 1
  Operations <- AllOperations
  MaxOps = 2
INVARIANTS
  EveryRendererServed
  ColoursCorrected
PROPERTIES
  EventuallyPainted
CHECK_DEADLOCK FALSE
