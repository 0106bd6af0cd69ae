SPECIFICATION Spec
CONSTANTS
  FullQty = 2
  InitialQty = 1
  TakeProfit = TRUE
  Trailing = FALSE
  Reinforce = TRUE
  Standard = TRUE
  MaxStop = 1
  Faults = {"lost", "receipt", "crash", "undelivered", "rejected", "unconfirmed", "canceled"}
  MaxFaults = 3
INVARIANTS
  NoLostOrder
  BooksBalance
  ReleasedIsFlat
PROPERTIES
  BuysOnlyWhenSettled
CHECK_DEADLOCK FALSE
