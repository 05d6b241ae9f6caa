SPECIFICATION Spec
CONSTANTS
  MaxPid = 1
  MaxGen = 1
  NULL = NULL
  Ctx = {c0}
  InitCtx = c0
  KernelCtx = k
  Workload <- TestProgram
INVARIANTS
  OnePlace
