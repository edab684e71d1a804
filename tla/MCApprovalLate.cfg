SPECIFICATION Spec
CONSTANTS
  Procs = {p1, p2}
  p1 = p1
  p2 = p2
  MaxGen = 1
  MaxActions = 2
PROPERTY NeverResumedLate
CHECK_DEADLOCK FALSE
