SPECIFICATION FairSpec
CONSTANTS
  None = None
  e1 = e1  e2 = e2  t1 = t1  t2 = t2  t3 = t3  c1 = c1  c2 = c2  c3 = c3
  Executors <- OneExecutor
  Tasks <- TwoTasks
  ExecutorOf <- BothOnOne
  Closers <- OneExecutor
  Ids <- TwoIds
  Deletable <- FirstId
  Mortal <- FirstId
  MayRestart = TRUE
  SetupCount = 1
  PoolSize = 1
  MaxAbandoned = 1
 
PROPERTY EveryCallReturns
