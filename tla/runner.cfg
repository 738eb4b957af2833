SPECIFICATION Spec
CONSTANTS
  None = None  Root = Root  Watchdog = Watchdog  Sleep = Sleep  Runner = Runner
  p1 = p1  p2 = p2  r1 = r1  r2 = r2  r3 = r3
  Children = {}
  Reqs = {r1, r2, r3}
  Procs = {p1, p2}
  ProcOf <- OneApart
  VerbOf <- TwoExecsAndEnv
  MaxForks = 0
  MaxFaults = 1
CHECK_DEADLOCK FALSE
INVARIANT TypeOK
PROPERTY KeepsPromise
