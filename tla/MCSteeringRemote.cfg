SPECIFICATION FairSpec
CONSTANTS
  Steers = {s1, s2}
  NoSteer = NoSteer
  s1 = s1
  s2 = s2
  s3 = s3
  MaxGen = 3
  QueueMax = 2
  StoreFaults = TRUE
INVARIANTS RecoveredOnce
PROPERTIES LeaseProtects EverySteerSettles
CHECK_DEADLOCK FALSE
