SPECIFICATION Spec
CONSTANTS
  Worker = {w1}
  Nobody = Nobody
  w1 = w1
  w2 = w2
  MaxDue = 1
  MaxClicks = 0
  MaxEdits = 1
  MaxSuspends = 1
  MaxChanges = 2
  Watched = {}
INVARIANTS OffStaysOff
CHECK_DEADLOCK FALSE
