-------------------------------- MODULE Uart --------------------------------
(***************************************************************************)
(* The console driver of kernel/uart.c and the 16550 it drives.            *)
(*                                                                         *)
(* Kernel threads call uartputc and getchar, and wait in wait_out and      *)
(* wait_in; uartintr runs between them, never inside (kernel threads run   *)
(* with interrupts masked, see InterruptsOff in SchedProps).  The device   *)
(* goes on by itself at any time, also between two reads of LSR.           *)
(*                                                                         *)
(* A character is the number of its uartputc call, or of its key stroke.   *)
(* The spinning output of the boot phase (kernel_initialized false) and    *)
(* after a panic is left out.                                              *)
(***************************************************************************)
EXTENDS Integers, Sequences, SequencesExt

CONSTANTS
  Thread,            \* the kernel threads
  UART_TX_BUF_SIZE,
  RX_FIFO,           \* depth of the receive FIFO of the device
  MaxOut, MaxIn      \* bounds on the characters written and typed

ASSUME UartAssumption ==
  /\ UART_TX_BUF_SIZE \in Nat \ {0}
  /\ RX_FIFO \in Nat \ {0}
  /\ MaxOut \in Nat /\ MaxIn \in Nat

VARIABLES
  \* The driver:
  uart_out_tx_buf, uart_out_tx_w, uart_out_tx_r,
  uart_in_tx_buf, uart_in_tx_w, uart_in_tx_r,
  pc,        \* where each thread is: outside, waiting, or back from wait
  ch,        \* the parameter of the uartputc a thread waits in, else 0
  \* The device:
  thr,       \* the character in THR; LSR_TX_IDLE means it is empty
  rhr,       \* the receive FIFO; LSR_RX_READY means it is not empty
  irq,       \* the interrupt is pending in the PLIC
  \* History:
  written,   \* the number of uartputc calls so far
  line,      \* the characters sent, in order
  typed,     \* the number of characters received so far
  got        \* the characters getchar has returned, in order

outVars  == <<uart_out_tx_buf, uart_out_tx_w, uart_out_tx_r, thr, line>>
inVars   == <<uart_in_tx_buf, uart_in_tx_w, uart_in_tx_r>>
vars     == <<outVars, inVars, pc, ch, rhr, irq, written, typed, got>>

Slot == 0..(UART_TX_BUF_SIZE - 1)

uart_out_buffer_full == uart_out_tx_w = uart_out_tx_r + UART_TX_BUF_SIZE
TxIdle == thr = << >>

Init ==
  /\ uart_out_tx_buf = [i \in Slot |-> 0]
  /\ uart_out_tx_w = 0 /\ uart_out_tx_r = 0
  /\ uart_in_tx_buf = [i \in Slot |-> 0]
  /\ uart_in_tx_w = 0 /\ uart_in_tx_r = 0
  /\ pc = [t \in Thread |-> "outside"]
  /\ ch = [t \in Thread |-> 0]
  /\ thr = << >> /\ rhr = << >> /\ irq = FALSE
  /\ written = 0 /\ line = << >>
  /\ typed = 0 /\ got = << >>

-----------------------------------------------------------------------------
(* Output                                                                  *)

\* The loop of uartstart on the buffer as its caller leaves it sends some of
\* the characters in it: one at least if the device is idle, and after each
\* one the device may be ready again before LSR is read, which also raises
\* its interrupt.
uartstart(raised) ==
  \E k \in 0..(uart_out_tx_w' - uart_out_tx_r) :
    LET sent == thr \o [i \in 1..k |->
                  uart_out_tx_buf'[(uart_out_tx_r + i - 1) % UART_TX_BUF_SIZE]]
    IN
    /\ (TxIdle /\ uart_out_tx_w' > uart_out_tx_r) => k > 0
    /\ uart_out_tx_r' = uart_out_tx_r + k
    /\ thr' = IF sent = << >> THEN << >> ELSE <<Last(sent)>>
    /\ line' = IF sent = << >> THEN line ELSE line \o Front(sent)
    /\ irq' = (raised \/ Len(sent) > 1)

\* uartputc finds the device idle and writes THR itself.
Direct(c) ==
  /\ TxIdle
  /\ thr' = <<c>>
  /\ UNCHANGED <<uart_out_tx_buf, uart_out_tx_w, uart_out_tx_r, line, irq>>

\* Mutants: no test for room; no call of uartstart.
Enqueue_full(c) ==
  /\ uart_out_tx_buf' =
       [uart_out_tx_buf EXCEPT ![uart_out_tx_w % UART_TX_BUF_SIZE] = c]
  /\ uart_out_tx_w' = uart_out_tx_w + 1
  /\ uartstart(irq)
Enqueue_nostart(c) ==
  /\ ~uart_out_buffer_full
  /\ uart_out_tx_buf' =
       [uart_out_tx_buf EXCEPT ![uart_out_tx_w % UART_TX_BUF_SIZE] = c]
  /\ uart_out_tx_w' = uart_out_tx_w + 1
  /\ UNCHANGED <<uart_out_tx_r, thr, line, irq>>

\* uartputc appends to the buffer and lets uartstart try.
Enqueue(c) ==
  /\ ~uart_out_buffer_full
  /\ uart_out_tx_buf' =
       [uart_out_tx_buf EXCEPT ![uart_out_tx_w % UART_TX_BUF_SIZE] = c]
  /\ uart_out_tx_w' = uart_out_tx_w + 1
  /\ uartstart(irq)

\* LSR is read once, on entry; device and buffer decide the path taken.
uartputc(t) ==
  /\ pc[t] = "outside"
  /\ written < MaxOut
  /\ written' = written + 1
  /\ \/ Direct(written') /\ UNCHANGED <<pc, ch>>
     \/ ~TxIdle /\ Enqueue(written') /\ UNCHANGED <<pc, ch>>
     \/ /\ ~TxIdle /\ uart_out_buffer_full
        /\ pc' = [pc EXCEPT ![t] = "wait_out"]
        /\ ch' = [ch EXCEPT ![t] = written']
        /\ UNCHANGED <<outVars, irq>>
  /\ UNCHANGED <<inVars, rhr, typed, got>>

\* Back from wait(&wait_out): only the buffer is looked at again.
uartputc_loop(t) ==
  /\ pc[t] = "putc_loop"
  /\ \/ /\ Enqueue(ch[t])
        /\ pc' = [pc EXCEPT ![t] = "outside"]
        /\ ch' = [ch EXCEPT ![t] = 0]
     \/ /\ uart_out_buffer_full
        /\ pc' = [pc EXCEPT ![t] = "wait_out"]
        /\ UNCHANGED <<outVars, ch, irq>>
  /\ UNCHANGED <<inVars, rhr, written, typed, got>>

-----------------------------------------------------------------------------
(* Input                                                                   *)

getchar(t) ==
  /\ pc[t] \in {"outside", "getc_loop"}
  /\ \/ /\ uart_in_tx_r = uart_in_tx_w
        /\ pc' = [pc EXCEPT ![t] = "wait_in"]
        /\ UNCHANGED <<uart_in_tx_r, got>>
     \/ /\ uart_in_tx_r # uart_in_tx_w
        /\ got' = Append(got, uart_in_tx_buf[uart_in_tx_r % UART_TX_BUF_SIZE])
        /\ uart_in_tx_r' = uart_in_tx_r + 1
        /\ pc' = [pc EXCEPT ![t] = "outside"]
  /\ UNCHANGED <<outVars, uart_in_tx_buf, uart_in_tx_w, ch, rhr, irq, written,
                 typed>>

-----------------------------------------------------------------------------
(* The interrupt                                                           *)

\* Room in the input ring.
in_room_plus == UART_TX_BUF_SIZE - (uart_in_tx_w - uart_in_tx_r) + 1  \* mutant
in_room == UART_TX_BUF_SIZE - (uart_in_tx_w - uart_in_tx_r)

\* The receive FIFO is emptied; what does not fit is dropped.
Receive ==
  LET n == IF Len(rhr) < in_room THEN Len(rhr) ELSE in_room
      Filled(i, j) == (uart_in_tx_w + j - 1) % UART_TX_BUF_SIZE = i
  IN
  /\ uart_in_tx_buf' =
       [i \in Slot |->
          IF \E j \in 1..n : Filled(i, j)
          THEN rhr[CHOOSE j \in 1..n : Filled(i, j)]
          ELSE uart_in_tx_buf[i]]
  /\ uart_in_tx_w' = uart_in_tx_w + n
  /\ rhr' = << >>

\* wakeup(&wait_in) and wakeup(&wait_out), under their conditions.
WakeIf(in, out) ==
  pc' = [t \in Thread |->
           IF pc[t] = "wait_in" /\ in THEN "getc_loop"
           ELSE IF pc[t] = "wait_out" /\ out THEN "putc_loop" ELSE pc[t]]

\* Mutants: readers are not woken; writers only when input has come; writers
\* before uartstart has made room.
Wake_writers == WakeIf(FALSE, ~uart_out_buffer_full')
Wake_rx      == WakeIf(rhr # << >>, rhr # << >> /\ ~uart_out_buffer_full')
Wake_early   == WakeIf(rhr # << >>, ~uart_out_buffer_full)
Wake         == WakeIf(rhr # << >>, ~uart_out_buffer_full')

\* uartintr reads all input, sends what it can, and wakes both groups.
uartintr ==
  /\ irq
  /\ Receive
  /\ UNCHANGED <<uart_out_tx_buf, uart_out_tx_w>>
  /\ uartstart(FALSE)
  /\ Wake
  /\ UNCHANGED <<uart_in_tx_r, ch, written, typed, got>>

-----------------------------------------------------------------------------
(* The device                                                              *)

\* THR has been sent, the transmitter is idle and interrupts.
TxDone ==
  /\ ~TxIdle
  /\ line' = line \o thr
  /\ thr' = << >>
  /\ irq' = TRUE
  /\ UNCHANGED <<uart_out_tx_buf, uart_out_tx_w, uart_out_tx_r, inVars, pc, ch,
                 rhr, written, typed, got>>

\* A character arrives; the receive FIFO drops it when it is full.
RxReady ==
  /\ typed < MaxIn
  /\ typed' = typed + 1
  /\ rhr' = IF Len(rhr) < RX_FIFO THEN Append(rhr, typed') ELSE rhr
  /\ irq' = TRUE
  /\ UNCHANGED <<outVars, inVars, pc, ch, written, got>>

\* The interrupt line is still high when the PLIC samples it.
Spurious ==
  /\ irq' = TRUE
  /\ UNCHANGED <<outVars, inVars, pc, ch, rhr, written, typed, got>>

-----------------------------------------------------------------------------

Next ==
  \/ \E t \in Thread : uartputc(t) \/ uartputc_loop(t) \/ getchar(t)
  \/ uartintr
  \/ TxDone \/ RxReady \/ Spurious

Spec == Init /\ [][Next]_vars

=============================================================================
