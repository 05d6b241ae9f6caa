SPECIFICATION FairSpec
CONSTANTS
  Thread = {t1, t2, t3}
  UART_TX_BUF_SIZE = 2
  RX_FIFO = 2
  MaxOut = 5
  MaxIn = 3
INVARIANTS
  NothingLost InputInOrder NoLostWakeup WillInterrupt
PROPERTIES
  OutputDrains ReaderServed
