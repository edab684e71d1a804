SPECIFICATION FairSpec
CONSTANTS
  Procs = {p1, p2}
  NoProc = NoProc
  p1 = p1
  p2 = p2
  MaxOwners = 2
  MaxClaims = 3
INVARIANTS DeliveryIsExclusive
PROPERTIES LogoutWaits RevocationHolds ResultIsKept EveryRequestReturns
CHECK_DEADLOCK FALSE
