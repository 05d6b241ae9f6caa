---------------------------- MODULE KernelProps ----------------------------
(***************************************************************************)
(* What scheduler and console driver promise together.                     *)
(***************************************************************************)
EXTENDS Kernel, SchedProps

\* Every step of the kernel is a step of the driver as Uart.tla describes it:
\* threads enter and leave the driver, wait and are woken only there, and
\* uartintr never runs inside it (do_schedule, wait, wakeup, the wait lists).
UartSpec == U!Spec

Sleeping(t) == Queued("wait_in", t) \/ Queued("wait_out", t)

\* When the hart idles for want of a ready task, every program is waiting for
\* the console, and one that waits for room will get it: the device is busy or
\* has its interrupt pending, with interrupts enabled (idle, uartstart).
IdleIsAwaited ==
  hart = "idle" =>
    /\ \A t \in live : Sleeping(t)
    /\ list["wait_out"] # << >> => thr # << >> \/ "SEI" \in pending
    /\ sie

-----------------------------------------------------------------------------
(* Liveness                                                                *)

\* The hart executes kernel code, the device sends, the timer ticks, and an
\* interrupt that is pending again and again while it is enabled is taken.
KFairness ==
  /\ WF_kvars(KernelCode)
  /\ WF_kvars(DeviceStep /\ U!TxDone)
  /\ WF_kvars(TimerTick /\ UNCHANGED uartVars)
  /\ SF_kvars(PreemptUser /\ UNCHANGED uartVars)
  /\ SF_kvars(ConsoleInterrupt)

KFairSpec == KSpec /\ KFairness

Running(t) == hart = "user" /\ current_task = t

\* A program that writes a character goes on: its putchar does not block for
\* ever, although it may wait in wait_out, be woken by an interrupt, and wait
\* in the run queue behind programs that never give up the hart.
PutcharReturns ==
  \A t \in Pid : (current_task = t /\ kpc = "putchar") ~> (Running(t) \/ Halts)

\* When a character has arrived while a program waits for one, some program
\* gets a character (RxReady, uartintr, wakeup, getchar).
InputDelivered ==
  \A n \in 0..MaxIn :
    (list["wait_in"] # << >> /\ rhr # << >> /\ Len(got) = n)
      ~> (Len(got) > n \/ Halts)

=============================================================================
