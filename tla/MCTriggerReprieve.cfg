\* Two deliveries of one lane and a deletion of the account that is called off.
SPECIFICATION Spec
CONSTANTS
  NumDeliveries = 2
  h1 = h1
  h2 = h2
  Helper = {h1, h2}
  Coalescing = {}
  BatchLimit = 3
  Mishap = {"deletion"}
  MaxMishaps = 1
SYMMETRY Symmetry
INVARIANTS OwnPlace
CHECK_DEADLOCK FALSE
