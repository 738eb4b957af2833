SPECIFICATION FairSpec
CONSTANTS
  None = None  Pod = Pod
  e1 = e1  t1 = t1  t2 = t2
  Executors <- OneExecutor
  Tasks <- TwoTasks
  ExecutorOf <- BothOnOne
  Closers <- OneExecutor
  Ids <- OnePod
  Deleters <- OneExecutor
  MayRestart = TRUE
  SetupCount = 2
  MaxPods = 2
  MaxErrors = 1
INVARIANT TypeOK
 
INVARIANT SetupIsExclusive
 
