SPECIFICATION Spec
CONSTANTS
  Worker = {w1}
  Nobody = Nobody
  w1 = w1
  w2 = w2
  MaxDue = 1
  MaxClicks = 1
  MaxEdits = 0
  MaxSuspends = 0
  MaxChanges = 1
  Watched = {}
INVARIANTS EvidenceKept
CHECK_DEADLOCK FALSE
