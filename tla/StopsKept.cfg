SPECIFICATION FairSpec
CONSTANTS
  s1 = s1
  s2 = s2
  t1 = t1
  Qty = 2
  Stops <- TwoStops
  Trails <- OneTrail
  Short = FALSE
  Faults = {"lost", "undelivered", "refused", "crash", "sync", "position", "unconfirmed", "expires"}
  MaxFaults = 3
INVARIANTS
  TypeOK
  OneSale
  NoBlindOrder
  ExitStands
PROPERTIES
  EventuallyCovered
  DueExit
CHECK_DEADLOCK FALSE
