------------------------------- MODULE Kernel -------------------------------
(***************************************************************************)
(* The scheduler (Sched.tla) and the console driver (Uart.tla) together:   *)
(* the programs of Sched make the system calls that Uart's threads make,   *)
(* whether a thread waits in the driver depends on its buffers, and whom   *)
(* an interrupt wakes depends on what uartintr finds.                      *)
(*                                                                         *)
(* The driver has no state of its own for its callers: Uart's pc is where  *)
(* the kernel threads and the wait lists of Sched say a task is, and the   *)
(* pending interrupt is SEI in sip.                                        *)
(***************************************************************************)
EXTENDS Sched

CONSTANTS UART_TX_BUF_SIZE, RX_FIFO, MaxOut, MaxIn  \* as in Uart

ASSUME KernelAssumption ==
  /\ UART_TX_BUF_SIZE \in Nat \ {0}
  /\ RX_FIFO \in Nat \ {0}
  /\ MaxOut \in Nat /\ MaxIn \in Nat
  /\ NULL \notin KPoint

VARIABLES
  uart_out_tx_buf, uart_out_tx_w, uart_out_tx_r,
  uart_in_tx_buf, uart_in_tx_w, uart_in_tx_r,
  ch, thr, rhr, written, line, typed, got

uartVars == <<uart_out_tx_buf, uart_out_tx_w, uart_out_tx_r, uart_in_tx_buf,
              uart_in_tx_w, uart_in_tx_r, ch, thr, rhr, written, line, typed,
              got>>
kvars    == <<vars, uartVars>>

Queued(name, t) == \E i \in 1..Len(list[name]) : list[name][i].value = t

\* Where the kernel thread of t is, or will go on.
Point(t) ==
  IF t = current_task THEN kpc
  ELSE IF t \in live THEN kernel_frame[t] ELSE NULL

uart_pc ==
  [t \in Pid |->
     IF Queued("wait_in", t) THEN "wait_in"
     ELSE IF Queued("wait_out", t) THEN "wait_out"
     ELSE IF Point(t) = "getchar_loop" THEN "getc_loop"
     ELSE IF Point(t) \in {"putchar_loop", "dump_loop", "fault_loop"}
     THEN "putc_loop" ELSE "outside"]

U == INSTANCE Uart WITH Thread <- Pid, pc <- uart_pc, irq <- "SEI" \in pending

-----------------------------------------------------------------------------

\* A character is written: the handler that has one goes back to its caller,
\* one that has more stays where it is, or the thread waits.
PutcStep ==
  /\ At({"putchar", "dump", "fault"})
  /\ \/ kpc = "putchar" /\ SyscallReturn
     \/ /\ kpc # "putchar"
        /\ MayInterrupt(pending)
        /\ UNCHANGED <<queueVars, taskVars, hartVars, uctx>>
     \/ Wait("wait_out")
  /\ U!uartputc(current_task)

PutcLoopStep ==
  /\ At({"putchar_loop", "dump_loop", "fault_loop"})
  /\ \/ kpc = "putchar_loop" /\ SyscallReturn
     \/ NextChar
     \/ Wait("wait_out")
  /\ U!uartputc_loop(current_task)

GetcStep ==
  /\ At(InPoints)
  /\ SyscallReturn \/ Wait("wait_in")
  /\ U!getchar(current_task)

\* Kernel code that does not touch the console.
OtherStep ==
  /\ \/ Boot \/ YieldToUser \/ Dispatch \/ Yield \/ Fork \/ Exit \/ KillInit
     \/ ExecveFault \/ Execve \/ AllocPanic
     \/ At({"simple", "stack", "execve", "dump"}) /\ SyscallReturn
  /\ pending' = pending
  /\ UNCHANGED uartVars

\* User mode and the timer.
ProgramStep ==
  /\ \/ UserStep
     \/ \E cause \in Workload :
          /\ cause = "putchar" => written < MaxOut
          /\ UserTrap(cause)
     \/ PreemptUser \/ TimerInKernel \/ TimerTick
  /\ UNCHANGED uartVars

\* handle_interrupt for the PLIC: uartintr runs, then the scheduler.
ConsoleInterrupt ==
  /\ \E groups \in SUBSET WaitGroup :
       ExternalInUser(groups) \/ ExternalInKernel(groups)
  /\ U!uartintr

\* The device goes on while the hart does anything.
DeviceStep ==
  /\ hart \notin {"boot", "panic", "corrupt"}
  /\ MayInterrupt(pending)
  /\ UNCHANGED <<queueVars, taskVars, hartVars, uctx>>
  /\ U!TxDone \/ U!RxReady \/ U!Spurious

KernelCode == PutcStep \/ PutcLoopStep \/ GetcStep \/ OtherStep

KNext ==
  \/ KernelCode
  \/ ProgramStep
  \/ ConsoleInterrupt
  \/ DeviceStep
  \/ Halted /\ UNCHANGED uartVars

KInit == Init /\ U!Init

KSpec == KInit /\ [][KNext]_kvars

=============================================================================
