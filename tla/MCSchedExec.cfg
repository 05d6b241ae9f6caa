SPECIFICATION FairSpec
CONSTANTS
  MaxPid = 3
  MaxGen = 1
  NULL = NULL
  Ctx = {c0}
  InitCtx = c0
  KernelCtx = k
  Workload <- Exec
PROPERTIES
  ReadyRuns
