\* Two deliveries of one lane, two helpers, one of which may stop between any
\* two steps.
SPECIFICATION FairSpec
CONSTANTS
  NumDeliveries = 2
  h1 = h1
  h2 = h2
  Helper = {h1, h2}
  Coalescing = {}
  BatchLimit = 3
  Mishap = {"crash"}
  MaxMishaps = 1
INVARIANTS OneReservation
PROPERTIES EveryTurnComes
CHECK_DEADLOCK FALSE
