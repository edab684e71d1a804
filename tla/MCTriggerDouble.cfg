\* Three deliveries, the first two of which coalesce, and no mishap at all.
SPECIFICATION Spec
CONSTANTS
  NumDeliveries = 3
  h1 = h1
  h2 = h2
  Helper = {h1, h2}
  Coalescing = {1, 2}
  BatchLimit = 3
  Mishap = {}
  MaxMishaps = 0
SYMMETRY Symmetry
INVARIANTS OneHome
CHECK_DEADLOCK FALSE
