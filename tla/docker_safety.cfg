SPECIFICATION Spec
CONSTANTS
  None = None
  e1 = e1  e2 = e2  t1 = t1  t2 = t2  t3 = t3  c1 = c1  c2 = c2  c3 = c3
  Executors <- TwoExecutors
  Tasks <- ThreeTasks
  ExecutorOf <- TwoAndOne
  Closers <- SecondExecutor
  Ids <- ThreeIds
  Deletable <- NoIds
  Mortal <- ThreeIds
  MayRestart = TRUE
  SetupCount = 1
  PoolSize = 2
  MaxAbandoned = 0
SYMMETRY TasksAndIds
INVARIANT TypeOK
INVARIANT LockInv
INVARIANT EnsureReturnsId
INVARIANT RunningBounded
INVARIANT SetupIsExclusive
