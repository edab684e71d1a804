SPECIFICATION Spec
CONSTANTS
  Worker = {w1, w2}
  Nobody = Nobody
  w1 = w1
  w2 = w2
  MaxDue = 1
  MaxClicks = 1
  MaxEdits = 1
  MaxSuspends = 1
  MaxChanges = 1
  Watched = {}
SYMMETRY Symmetry
INVARIANTS FiredOncePerRow TeardownIsDrained
PROPERTIES NoneLost SupersededIsHarmless LeaseIsOnesOwn
CHECK_DEADLOCK FALSE
