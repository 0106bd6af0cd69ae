SPECIFICATION FairSpec
CONSTANTS
  plan = plan
  buy = buy
  sell = sell
  watcher = watcher
  executorRun = executorRun
  Holding = Holding
  Orders <- ByHand
  Buys <- BuyOnly
  Planned <- SellOnly
  Polls <- SellOnly
  Syncers <- Both
  Adopters <- Alone
  Executor = executorRun
  Shares <- TwoOrOne
  MaxFailures = 1
INVARIANT EachBooksOnce
PROPERTIES
  FillsBooked
  RowsSettle
