SPECIFICATION Spec
CONSTANTS
  plan = plan
  buy = buy
  sell = sell
  watcher = watcher
  executorRun = executorRun
  Holding = Holding
  Orders <- Mixed
  Buys <- BuyOnly
  Planned <- PlanOnly
  Polls <- None
  Syncers <- Alone
  Adopters <- Alone
  Executor = executorRun
  Shares <- TwoEach
  MaxFailures = 2
INVARIANTS
  TypeOK
  NeverOverbooked
