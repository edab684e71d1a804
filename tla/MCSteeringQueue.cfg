SPECIFICATION Spec
CONSTANTS
  Steers = {s1, s2, s3}
  NoSteer = NoSteer
  s1 = s1
  s2 = s2
  s3 = s3
  MaxGen = 2
  QueueMax = 2
  StoreFaults = FALSE
INVARIANTS Accounted DeliveredOnce DeliveredIsInContent
PROPERTIES SealIsFinal PromiseSpec
CHECK_DEADLOCK FALSE
