SPECIFICATION KFairSpec
CONSTANTS
  MaxPid = 2
  MaxGen = 0
  NULL = NULL
  Ctx = {c0}
  InitCtx = c0
  KernelCtx = k
  Workload <- ConsoleUsers
  UART_TX_BUF_SIZE = 1
  RX_FIFO = 1
  MaxOut = 3
  MaxIn = 1
INVARIANTS
  IdleIsAwaited
PROPERTIES
  UartSpec PutcharReturns InputDelivered
