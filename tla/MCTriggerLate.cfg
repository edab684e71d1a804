\* A reservation for a delivery that was published since it was chosen.
SPECIFICATION PlotSpec
CONSTANTS
  NumDeliveries = 4
  h1 = h1
  h2 = h2
  h3 = h3
  Helper = {h1, h2, h3}
  Coalescing = {}
  BatchLimit = 3
  Mishap = {"crash"}
  MaxMishaps = 1
INVARIANTS OwnPlace
CHECK_DEADLOCK FALSE
