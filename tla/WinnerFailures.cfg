SPECIFICATION Spec
CONSTANTS
  FullQty = 2
  InitialQty = 2
  TakeProfit = TRUE
  Trailing = TRUE
  Reinforce = FALSE
  Standard = FALSE
  MaxStop = 2
  Faults = {"crash", "undelivered", "lost", "rejected", "canceled", "unconfirmed"}
  MaxFaults = 2
INVARIANTS
  TypeOK
  NeverOversold
  BooksBalance
PROPERTIES
  OutboxSpec
CHECK_DEADLOCK FALSE
