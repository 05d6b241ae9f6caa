----------------------------- MODULE UartProps -----------------------------
(***************************************************************************)
(* What the console driver of Uart.tla promises.                           *)
(***************************************************************************)
EXTENDS Uart

OutBuffer == [i \in 1..(uart_out_tx_w - uart_out_tx_r) |->
                uart_out_tx_buf[(uart_out_tx_r + i - 1) % UART_TX_BUF_SIZE]]
InBuffer  == [i \in 1..(uart_in_tx_w - uart_in_tx_r) |->
                uart_in_tx_buf[(uart_in_tx_r + i - 1) % UART_TX_BUF_SIZE]]

Waiting(place) == {t \in Thread : pc[t] = place}
InPutc == Waiting("wait_out") \cup Waiting("putc_loop")

\* Every character passed to uartputc is exactly once on the line, in THR, in
\* the ring, or with a thread that still waits for room (uartputc, uartstart,
\* the wrap-around of the ring).
NothingLost ==
  LET driver == (line \o thr) \o OutBuffer IN
  /\ IsInjective(driver)
  /\ ToSet(driver) \cup {ch[t] : t \in InPutc} = 1..written
  /\ ToSet(driver) \cap {ch[t] : t \in InPutc} = {}

\* Characters are read in the order they were typed, each at most once: what
\* is dropped for lack of room leaves a gap and nothing else (uartintr,
\* getchar).
InputInOrder ==
  LET s == (got \o InBuffer) \o rhr IN
  \A i, j \in 1..Len(s) : i < j => s[i] < s[j]

\* A thread waits for room only while the ring is full, and for input only
\* while it is empty: no wakeup is lost between the test and wait().
NoLostWakeup ==
  /\ Waiting("wait_out") # {} => uart_out_buffer_full
  /\ Waiting("wait_in") # {} => uart_in_tx_r = uart_in_tx_w

\* "it will interrupt when it's ready for a new byte" (uartstart): what is in
\* the ring will be sent without a further call.
WillInterrupt ==
  /\ uart_out_tx_w # uart_out_tx_r => ~TxIdle \/ irq
  /\ rhr # << >> => irq

\* user/hello.c writes H, e, l, l, o, and means "Hello": the characters of
\* uartputc calls made one after the other come out in that order.
OutputInOrder ==
  \A i, j \in 1..Len(line) : i < j => line[i] < line[j]

-----------------------------------------------------------------------------
(* Liveness                                                                *)

\* A thread inside the driver is scheduled again, the device sends, and a
\* pending interrupt is taken.
Fairness ==
  /\ \A t \in Thread : /\ WF_vars(uartputc_loop(t))
                       /\ WF_vars(pc[t] = "getc_loop" /\ getchar(t))
  /\ WF_vars(TxDone)
  /\ WF_vars(uartintr)

FairSpec == Spec /\ Fairness

\* Once programs stop writing, all output reaches the line and no thread is
\* left waiting for room.
OutputDrains == <>[](written = Len(line))

\* When a character arrives while a thread waits for one, some thread gets a
\* character.
ReaderServed ==
  \A n \in 0..MaxIn :
    (Waiting("wait_in") # {} /\ rhr # << >> /\ Len(got) = n) ~> Len(got) > n

=============================================================================
