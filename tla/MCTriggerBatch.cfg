\* Two deliveries that coalesce, with one mishap of any kind: a dead letter that
\* is requeued, a helper that stops, or the deletion of the account.
SPECIFICATION Spec
CONSTANTS
  NumDeliveries = 2
  h1 = h1
  h2 = h2
  Helper = {h1, h2}
  Coalescing = {1, 2}
  BatchLimit = 3
  Mishap = {"requeue", "crash", "deletion"}
  MaxMishaps = 1
SYMMETRY Symmetry
PROPERTIES OrderSpec OutcomeIsTheRoots
CHECK_DEADLOCK FALSE
