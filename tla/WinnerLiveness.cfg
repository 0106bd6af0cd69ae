SPECIFICATION FairSpec
CONSTANTS
  FullQty = 1
  InitialQty = 1
  TakeProfit = TRUE
  Trailing = FALSE
  Reinforce = FALSE
  Standard = TRUE
  MaxStop = 1
  Faults = {"lost"}
  MaxFaults = 2
PROPERTIES
  EventuallyCovered
  DueExit
  PlanEnds
CHECK_DEADLOCK FALSE
