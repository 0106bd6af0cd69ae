SPECIFICATION FairSpec
CONSTANTS
  FullQty = 2
  InitialQty = 1
  TakeProfit = FALSE
  Trailing = FALSE
  Reinforce = TRUE
  Standard = FALSE
  MaxStop = 1
  Faults = {"undelivered"}
  MaxFaults = 1
PROPERTIES
  AddNeverDelays
CHECK_DEADLOCK FALSE
