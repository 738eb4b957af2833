SPECIFICATION Spec
CONSTANTS
  None = None  Gone = Gone
  p1 = p1  t1 = t1  t2 = t2  v1 = v1  v2 = v2  v3 = v3
  Procs <- OneProc
  Tasks <- TwoTasks
  ProcOf <- Together
  Vms <- ThreeVms
  OpsOf <- AllUse
  MaxHangs = 1
  MaxDeaths = 0
  MaxCrashes = 0
SYMMETRY TasksAndVms
INVARIANT NoOrphan
