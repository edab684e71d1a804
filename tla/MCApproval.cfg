SPECIFICATION FairSpec
CONSTANTS
  Procs = {p1, p2}
  p1 = p1
  p2 = p2
  MaxGen = 2
  MaxActions = 2
INVARIANTS OneDriver ResumedWasSaved ResumedWasReviewed LapsedWasExpired StoppedWasAsked
PROPERTIES BarrierIsExclusive EveryPauseEnds
CHECK_DEADLOCK FALSE
