SPECIFICATION Spec
CONSTANTS
  Thread = {t1}
  UART_TX_BUF_SIZE = 2
  RX_FIFO = 1
  MaxOut = 5
  MaxIn = 0
INVARIANTS
  OutputInOrder
