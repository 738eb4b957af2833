SPECIFICATION FairSpec
CONSTANTS
  None = None  Gone = Gone
  p1 = p1  t1 = t1  t2 = t2  v1 = v1  v2 = v2  v3 = v3
  Procs <- OneProc
  Tasks <- OneTask
  ProcOf <- Alone
  Vms <- ThreeVms
  OpsOf <- AllCall
  MaxHangs = 2
  MaxDeaths = 2
  MaxCrashes = 1
INVARIANT TypeOK
INVARIANT NoOrphanUncrashed
INVARIANT EnvReachesUncrashed
PROPERTY EveryCallReturns
