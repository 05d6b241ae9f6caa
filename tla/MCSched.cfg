SPECIFICATION Spec
CONSTANTS
  MaxPid = 3
  MaxGen = 0
  NULL = NULL
  Ctx = {c0, c1}
  InitCtx = c0
  KernelCtx = k
  Workload <- Traps
INVARIANTS
  TypeOK OnePlace NoDangling NoneLost ContextIntegrity ResumePoints
  InterruptsOff OwnAddressSpace WorkConserving
