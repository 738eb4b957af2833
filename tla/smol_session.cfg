SPECIFICATION SessionFairSpec
CONSTANTS
  None = None  Gone = Gone  p1 = p1
  SessionExecutor = SessionExecutor
  Name = Name
  SetupCount = 1
  Tasks = {t1, t2}
  Vms = {v1, v2}
  Procs <- OneProc
  ProcOf <- InOneProc
  OpsOf <- AllBackendCalls
  MaxHangs = 1
  MaxDeaths = 1
  MaxCrashes = 1
INVARIANT SessionTypeOK
INVARIANT SetupBeforeUse
INVARIANT EnvReachesUncrashed
PROPERTY EveryToolCallReturns
