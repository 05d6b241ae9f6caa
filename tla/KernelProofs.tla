---------------------------- MODULE KernelProofs ----------------------------
(***************************************************************************)
(* Proofs about scheduler and console driver together (Kernel.tla), for    *)
(* any number of programs and any sizes of the rings.                      *)
(*                                                                         *)
(* Every step of the composition is a step of Sched, so what is proved of  *)
(* the scheduler holds here; and, as long as no execve succeeds, it is a   *)
(* step of Uart or leaves the driver alone, so what is proved of the       *)
(* driver holds too.                                                       *)
(***************************************************************************)
EXTENDS KernelProps, SchedProofs

\* Driver and kernel threads as UartProofs knows them.
UP == INSTANCE UartProofs WITH
        Thread <- Pid, pc <- uart_pc, irq <- "SEI" \in pending

-----------------------------------------------------------------------------
(* Steps of the composition are steps of the scheduler                     *)

LEMMA RaisedOnly ==
  ASSUME MayInterrupt(pending), UNCHANGED <<queueVars, taskVars, hartVars, uctx>>,
         hart \notin {"boot", "panic", "corrupt"}
  PROVE  [Next]_vars
<1>1. CASE pending' = pending
  BY <1>1 DEF vars
<1>2. CASE pending' # pending
  <2>1. "SEI" \notin pending /\ pending' = pending \cup {"SEI"}
    BY <1>2 DEF MayInterrupt
  <2> QED BY <2>1 DEF Next, DeviceInterrupt
<1> QED BY <1>1, <1>2

LEMMA SchedStep == [KNext]_kvars => [Next]_vars
<1> SUFFICES ASSUME KNext PROVE [Next]_vars
  BY DEF kvars
<1>1. CASE PutcStep
  <2>1. CASE SyscallReturn \/ Wait("wait_out")
    BY <2>1 DEF Next, KernelStep, WaitGroup
  <2>2. CASE /\ MayInterrupt(pending)
             /\ UNCHANGED <<queueVars, taskVars, hartVars, uctx>>
    <3>1. hart = "kernel"
      BY <1>1 DEF PutcStep, At
    <3> QED BY <2>2, <3>1, RaisedOnly
  <2> QED BY <1>1, <2>1, <2>2 DEF PutcStep
<1>2. CASE PutcLoopStep
  BY <1>2 DEF PutcLoopStep, Next, KernelStep, WaitGroup
<1>3. CASE GetcStep
  BY <1>3 DEF GetcStep, Next, KernelStep, WaitGroup
<1>4. CASE OtherStep
  BY <1>4 DEF OtherStep, Next, KernelStep
<1>5. CASE ProgramStep
  BY <1>5 DEF ProgramStep, Next, Interrupt
<1>6. CASE ConsoleInterrupt
  BY <1>6 DEF ConsoleInterrupt, Next, Interrupt
<1>7. CASE DeviceStep
  BY <1>7, RaisedOnly DEF DeviceStep
<1>8. CASE Halted
  BY <1>8 DEF Next
<1> QED BY <1>1, <1>2, <1>3, <1>4, <1>5, <1>6, <1>7, <1>8
        DEF KNext, KernelCode

\* The composition only restricts the scheduler: whether a thread waits, and
\* whom an interrupt wakes, is among what Sched leaves open (wait, wakeup).
THEOREM SchedulerRefined == KSpec => Spec
<1>1. KInit => Init
  BY DEF KInit
<1> QED BY <1>1, SchedStep, PTL DEF KSpec, Spec

-----------------------------------------------------------------------------
(* Where the threads are, for the driver                                   *)

\* In user mode no kernel thread runs; idle() lets interrupts in.
Outer ==
  /\ hart = "user" => kpc = NULL
  /\ hart = "idle" => sie

LEMMA ScheduleOuter ==
  ASSUME NEW l, NEW frame, schedule(l, frame)
  PROVE  Outer'
BY DEF schedule, idle, run_task, klongjmp, return_to_user, corrupt, Outer

LEMMA OuterStep == IInv /\ Outer /\ [Next]_vars => Outer'
<1> SUFFICES ASSUME IInv, Outer, [Next]_vars PROVE Outer'
  OBVIOUS
<1>1. CASE UNCHANGED <<hart, kpc, sie>>
  BY <1>1 DEF Outer
<1>2. CASE hart' \notin {"user", "idle"}
  BY <1>2 DEF Outer
<1>3. CASE return_to_user
  BY <1>3 DEF return_to_user, Outer
<1>4. ASSUME NEW frame, schedule_next(frame) PROVE Outer'
  BY <1>4, ScheduleOuter DEF schedule_next, corrupt, Outer
<1>5. CASE KernelStep
  <2>1. CASE Boot \/ YieldToUser \/ Dispatch \/ SyscallReturn \/ NextChar
    BY <1>2, <1>3, <2>1, ScheduleOuter
       DEF Boot, YieldToUser, Dispatch, SyscallReturn, NextChar, At, Goto
  <2>2. ASSUME NEW g \in WaitGroup, Wait(g) PROVE Outer'
    BY <2>2, ScheduleOuter DEF Wait, corrupt, Outer
  <2>3. CASE Yield \/ Fork \/ Exit
    BY <1>2, <1>4, <2>3, ScheduleOuter DEF Yield, Fork, Exit, At, Goto
  <2>4. CASE KillInit \/ ExecveFault \/ Execve \/ AllocPanic
    BY <1>2, <2>4 DEF KillInit, ExecveFault, Execve, AllocPanic, At, Goto, panic
  <2> QED BY <1>5, <2>1, <2>2, <2>3, <2>4 DEF KernelStep
<1>6. CASE Interrupt
  <2>1. CASE PreemptUser \/ TimerInKernel
    BY <1>4, <2>1, ScheduleOuter DEF PreemptUser, TimerInKernel
  <2>2. ASSUME NEW groups \in SUBSET WaitGroup, ExternalInUser(groups)
        PROVE  Outer'
    BY <1>3, <2>2 DEF ExternalInUser
  <2>3. ASSUME NEW groups \in SUBSET WaitGroup, ExternalInKernel(groups)
        PROVE  Outer'
    <3>1. hart \in {"idle", "kernel"} /\ sie
      BY <2>3 DEF ExternalInKernel
    <3>2. current_task = NULL
      BY <3>1, IdleInterrupt
    <3> QED BY <2>3, <3>2, ScheduleOuter DEF ExternalInKernel
  <2> QED BY <1>6, <2>1, <2>2, <2>3 DEF Interrupt
<1>7. CASE UserStep \/ TimerTick \/ DeviceInterrupt \/ Halted \/ UNCHANGED vars
  BY <1>1, <1>7 DEF UserStep, TimerTick, DeviceInterrupt, Halted, vars, hartVars
<1>8. ASSUME NEW cause \in Workload, UserTrap(cause) PROVE Outer'
  BY <1>2, <1>8 DEF UserTrap
<1> QED BY <1>5, <1>6, <1>7, <1>8 DEF Next

LEMMA OuterInvariant == Spec => []Outer
<1>1. Init => Outer
  BY DEF Init, Outer
<1> QED BY <1>1, OuterStep, Invariant, PTL DEF Spec

\* What uart_pc says of a thread that is on no wait list.
Inside(point) ==
  IF point = "getchar_loop" THEN "getc_loop"
  ELSE IF point \in {"putchar_loop", "dump_loop", "fault_loop"}
  THEN "putc_loop" ELSE "outside"

\* Where a task goes on that is not running.
Parking(t) == IF t \in live THEN kernel_frame[t] ELSE NULL

LEMMA NotInside ==
  /\ Inside(NULL) = "outside"
  /\ \A point \in KPoint \ {"getchar_loop", "putchar_loop", "dump_loop",
                            "fault_loop"} :
       Inside(point) = "outside"
<1>1. {"getchar_loop", "putchar_loop", "dump_loop", "fault_loop"} \subseteq KPoint
  BY DEF KPoint, InPoints, OutPoints
<1> QED BY <1>1, KernelAssumption DEF Inside

\* The wait lists are the same, and every thread goes on where it did, as far
\* as the driver can tell.
LEMMA SamePlaces ==
  ASSUME list'["wait_in"] = list["wait_in"],
         list'["wait_out"] = list["wait_out"],
         \A t \in Pid : Inside(Point(t)') = Inside(Point(t))
  PROVE  uart_pc' = uart_pc
<1>1. ASSUME NEW t
      PROVE  /\ Queued("wait_in", t)' <=> Queued("wait_in", t)
             /\ Queued("wait_out", t)' <=> Queued("wait_out", t)
  BY DEF Queued
<1>2. uart_pc = [t \in Pid |-> IF Queued("wait_in", t) THEN "wait_in"
                               ELSE IF Queued("wait_out", t) THEN "wait_out"
                               ELSE Inside(Point(t))]
  BY DEF uart_pc, Inside
<1>3. uart_pc' = [t \in Pid |-> IF Queued("wait_in", t)' THEN "wait_in"
                                ELSE IF Queued("wait_out", t)' THEN "wait_out"
                                ELSE Inside(Point(t)')]
  BY DEF uart_pc, Inside
<1> QED BY <1>1, <1>2, <1>3

\* schedule() itself moves no thread: the task it runs goes on where it was.
LEMMA SchedulePlaces ==
  ASSUME IInv, QInv, NEW l, NEW frame, schedule(l, frame),
         Queues(l, live'), live' \subseteq Pid, gen' = [t \in Pid |-> 0],
         \A t \in live' :
           (mode'[t] = "USER") <=> (kernel_frame'[t] = "trap_return"),
         l["wait_in"] = list["wait_in"], l["wait_out"] = list["wait_out"],
         \A t \in Pid : Inside(Point(t)) = Inside(Parking(t)')
  PROVE  uart_pc' = uart_pc
<1>1. l \in [ListName -> Seq(Node)] /\ "wait_in" \in ListName
      /\ "wait_out" \in ListName
  BY DEF Queues, ListName, WaitGroup
<1>2. list'["wait_in"] = list["wait_in"] /\ list'["wait_out"] = list["wait_out"]
  BY <1>1 DEF schedule
<1>3. ASSUME NEW t \in Pid PROVE Inside(Point(t)') = Inside(Parking(t)')
  <2>1. CASE l["tasks"] = << >>
    <3>1. current_task' = NULL
      BY <2>1 DEF schedule, idle
    <3>2. t # current_task'
      BY <3>1, ConstantsAssumption
    <3> QED BY <3>2 DEF Point, Parking
  <2>2. CASE l["tasks"] # << >>
    <3> DEFINE n == Head(l["tasks"])
    <3>1. n \in Node /\ n.value \in live' /\ n.gen = 0
      BY <2>2, TakeQueues
    <3>2. ~IsDangling(n, live', gen')
      BY <3>1 DEF IsDangling
    <3>3. run_task(n, frame)
      BY <2>2, <3>2 DEF schedule
    <3> HIDE DEF n
    <3>4. current_task' = n.value
      BY <3>3 DEF run_task
    <3>5. CASE t # n.value
      BY <3>4, <3>5 DEF Point, Parking
    <3>6. CASE t = n.value /\ mode'[t] = "SUPERVISOR" /\ klongjmp(t)
      BY <3>1, <3>4, <3>6 DEF klongjmp, Point, Parking
    <3>7. CASE t = n.value /\ mode'[t] = "USER" /\ return_to_user
      <4>1. Point(t)' = NULL /\ Parking(t)' = "trap_return"
        BY <3>1, <3>4, <3>7 DEF return_to_user, Point, Parking
      <4>2. Inside("trap_return") = "outside"
        BY NotInside DEF KPoint, InPoints, OutPoints, Traps
      <4> QED BY <4>1, <4>2, NotInside
    <3> QED BY <3>3, <3>5, <3>6, <3>7 DEF run_task
  <2> QED BY <2>1, <2>2
<1> QED BY <1>2, <1>3, SamePlaces

\* From boot and from idle().
LEMMA IdlePlaces ==
  ASSUME IInv, QInv, hart \in {"boot", "idle"}, NEW frame,
         UNCHANGED <<next_task_id, live, gen, mode, kernel_frame>>,
         schedule(list, frame)
  PROVE  uart_pc' = uart_pc
<1>1. current_task = NULL /\ live \subseteq Pid /\ NULL \notin Pid
  BY ConstantsAssumption DEF IInv, TypeOK, Current
<1>2. live \ {current_task} = live
  BY <1>1
<1>3. Queues(list, live')
  BY <1>2 DEF QInv
<1>4. gen' = [t \in Pid |-> 0]
  BY DEF QInv
<1>5. \A t \in live' :
        (mode'[t] = "USER") <=> (kernel_frame'[t] = "trap_return")
  BY <1>2 DEF IInv, ResumePoints
<1>6. \A t \in Pid : Inside(Point(t)) = Inside(Parking(t)')
  BY <1>1 DEF Point, Parking
<1> QED BY <1>1, <1>3, <1>4, <1>5, <1>6, SchedulePlaces

\* schedule_next() from a point outside the driver.
LEMMA NextPlaces ==
  ASSUME IInv, QInv, hart \in {"user", "kernel"}, NEW frame,
         UNCHANGED <<next_task_id, live, gen>>,
         Inside(kpc) = "outside",
         Inside(kernel_frame'[current_task]) = "outside",
         \A t \in live \ {current_task} :
           kernel_frame'[t] = kernel_frame[t] /\ mode'[t] = mode[t],
         (mode'[current_task] = "USER")
           <=> (kernel_frame'[current_task] = "trap_return"),
         schedule_next(frame)
  PROVE  uart_pc' = uart_pc
<1> DEFINE l == push(list, "tasks", current_task_node)
<1>1. /\ current_task \in live /\ current_task_node \in Node
      /\ current_task_node.value = current_task /\ current_task_node.gen = 0
      /\ live \subseteq Pid /\ ~Dangling(current_task_node)
  BY RunningTask DEF IInv, TypeOK
<1>2. "tasks" \in ListName /\ schedule(l, frame)
  BY <1>1 DEF schedule_next, ListName
<1>3. Queues(l, (live \ {current_task}) \cup {current_task})
  BY <1>1, <1>2, PushQueues DEF QInv
<1>4. (live \ {current_task}) \cup {current_task} = live'
  BY <1>1
<1>5. l["wait_in"] = list["wait_in"] /\ l["wait_out"] = list["wait_out"]
  <2>1. list \in [ListName -> Seq(Node)] /\ "wait_in" \in ListName
        /\ "wait_out" \in ListName
    BY DEF QInv, Queues, ListName, WaitGroup
  <2> QED BY <2>1 DEF push
<1>6. gen' = [t \in Pid |-> 0]
  BY DEF QInv
<1>7. \A t \in live' :
        (mode'[t] = "USER") <=> (kernel_frame'[t] = "trap_return")
  BY <1>1 DEF IInv, ResumePoints
<1>8. ASSUME NEW t \in Pid PROVE Inside(Point(t)) = Inside(Parking(t)')
  <2>1. CASE t = current_task
    BY <1>1, <2>1 DEF Point, Parking
  <2>2. CASE t # current_task
    BY <2>2 DEF Point, Parking
  <2> QED BY <2>1, <2>2
<1> HIDE DEF l
<1> QED BY <1>1, <1>2, <1>3, <1>4, <1>5, <1>6, <1>7, <1>8, SchedulePlaces

\* Steps that switch no thread, and move the running one outside the driver.
LEMMA StayPlaces ==
  ASSUME UNCHANGED queueVars,
         \A t \in Pid \ {current_task} : Parking(t)' = Parking(t),
         \/ Inside(kpc) = "outside" /\ Inside(kpc') = "outside"
         \/ kpc' = kpc
  PROVE  uart_pc' = uart_pc
<1>1. list' = list /\ current_task' = current_task
  BY DEF queueVars
<1>2. ASSUME NEW t \in Pid PROVE Inside(Point(t)') = Inside(Point(t))
  <2>1. CASE t = current_task
    BY <1>1, <2>1 DEF Point
  <2>2. CASE t # current_task
    <3>1. Point(t)' = Parking(t)' /\ Point(t) = Parking(t)
      BY <1>1, <2>2 DEF Point, Parking
    <3> QED BY <2>2, <3>1
  <2> QED BY <2>1, <2>2
<1> QED BY <1>1, <1>2, SamePlaces

-----------------------------------------------------------------------------
(* Steps of kernel code that is not the driver's                           *)

LEMMA ForkPlaces ==
  ASSUME IInv, QInv, Fork
  PROVE  uart_pc' = uart_pc
<1> DEFINE child == next_task_id
<1>1. /\ hart = "kernel" /\ kpc = "fork" /\ kpc' = "task_entry"
      /\ live' = live \cup {child}
      /\ list' = push(list, "tasks", NodeOf(child))
      /\ kernel_frame' = [kernel_frame EXCEPT ![child] = "task_entry"]
      /\ current_task' = current_task
  BY DEF Fork, At, Goto, task_init_sched, NodeOf
<1>2. child \notin live /\ current_task \in live
  BY <1>1, RunningTask, InKernel DEF QInv, TaskTypes
<1>3. /\ list'["wait_in"] = list["wait_in"]
      /\ list'["wait_out"] = list["wait_out"]
  <2>1. list \in [ListName -> Seq(Node)] /\ "wait_in" \in ListName
        /\ "wait_out" \in ListName
    BY DEF QInv, Queues, ListName, WaitGroup
  <2> QED BY <1>1, <2>1 DEF push
<1>4. Inside("fork") = "outside" /\ Inside("task_entry") = "outside"
  BY NotInside DEF KPoint, Traps, InPoints, OutPoints
<1>5. ASSUME NEW t \in Pid PROVE Inside(Point(t)') = Inside(Point(t))
  <2>1. CASE t = current_task
    BY <1>1, <1>4, <2>1 DEF Point
  <2>2. CASE t # current_task /\ t = child
    <3>1. Point(t) = NULL /\ Point(t)' = "task_entry"
      <4>1. kernel_frame \in [Pid -> KPoint]
        BY DEF IInv, TypeOK
      <4> QED BY <1>1, <1>2, <2>2, <4>1 DEF Point
    <3> QED BY <1>4, <3>1, NotInside
  <2>3. CASE t # current_task /\ t # child
    <3>1. kernel_frame \in [Pid -> KPoint]
      BY DEF IInv, TypeOK
    <3> QED BY <1>1, <2>3, <3>1 DEF Point
  <2> QED BY <2>1, <2>2, <2>3
<1> QED BY <1>3, <1>5, SamePlaces

LEMMA ExitPlaces ==
  ASSUME IInv, QInv, Exit
  PROVE  uart_pc' = uart_pc
<1>1. /\ hart = "kernel" /\ kpc \in {"exit", "fault"}
      /\ live' = live \ {current_task}
      /\ UNCHANGED <<next_task_id, gen, mode, kernel_frame>>
      /\ schedule(list_remove(list, NodeOf(current_task)), trapframe)
  BY DEF Exit, At
<1>2. list_remove(list, NodeOf(current_task)) = list
  <2>1. NodeOf(current_task) \in Node
        /\ NodeOf(current_task).value = current_task
    BY <1>1, RunningTask
  <2> QED BY <2>1, RemoveNothing DEF QInv
<1>3. live' \subseteq Pid /\ gen' = [t \in Pid |-> 0] /\ Queues(list, live')
  BY <1>1 DEF IInv, TypeOK, QInv
<1>4. \A t \in live' :
        (mode'[t] = "USER") <=> (kernel_frame'[t] = "trap_return")
  BY <1>1 DEF IInv, ResumePoints
<1>5. Inside(kpc) = "outside"
  BY <1>1, NotInside DEF KPoint, Traps, InPoints, OutPoints
<1>6. \A t \in Pid : Inside(Point(t)) = Inside(Parking(t)')
  BY <1>1, <1>5, NotInside DEF Point, Parking
<1> QED BY <1>1, <1>2, <1>3, <1>4, <1>6, SchedulePlaces

LEMMA YieldPlaces ==
  ASSUME IInv, QInv, Yield
  PROVE  uart_pc' = uart_pc
<1>1. /\ hart = "kernel" /\ kpc = "yield"
      /\ mode' = [mode EXCEPT ![current_task] = "SUPERVISOR"]
      /\ kernel_frame' = [kernel_frame EXCEPT ![current_task] = "task_entry"]
      /\ UNCHANGED <<next_task_id, live, gen>>
      /\ schedule_next(trapframe)
  BY DEF Yield, At, save_supervisor
<1>2. /\ kernel_frame \in [Pid -> KPoint] /\ current_task \in Pid
      /\ mode \in [Pid -> {"USER", "SUPERVISOR"}] /\ live \subseteq Pid
  BY <1>1, InKernel DEF TaskTypes
<1>3. Inside("yield") = "outside" /\ Inside("task_entry") = "outside"
  BY NotInside DEF KPoint, Traps, InPoints, OutPoints
<1>4. /\ kernel_frame'[current_task] = "task_entry"
      /\ mode'[current_task] = "SUPERVISOR"
      /\ \A t \in live \ {current_task} :
           kernel_frame'[t] = kernel_frame[t] /\ mode'[t] = mode[t]
  BY <1>1, <1>2
<1> QED BY <1>1, <1>3, <1>4, NextPlaces

LEMMA OtherPlaces ==
  ASSUME IInv, QInv, OtherStep, ~Execve
  PROVE  uart_pc' = uart_pc
<1>1. ASSUME NEW point \in {"task_entry", "trap_return", "simple", "stack",
                            "execve", "dump"} \cup Traps
      PROVE  Inside(point) = "outside"
  BY NotInside DEF KPoint, Traps, InPoints, OutPoints
<1>2. CASE Boot
  BY <1>2, IdlePlaces DEF Boot, taskVars
<1>3. CASE YieldToUser
  <2>1. /\ kpc = "task_entry" /\ kpc' = NULL
        /\ kernel_frame' = [kernel_frame EXCEPT ![current_task] = "trap_return"]
        /\ UNCHANGED <<queueVars, live>>
    BY <1>3 DEF YieldToUser, At, mark_trap_return, return_to_user
  <2>2. \A t \in Pid \ {current_task} : Parking(t)' = Parking(t)
    BY <2>1 DEF Parking, IInv, TypeOK
  <2> QED BY <1>1, <2>1, <2>2, NotInside, StayPlaces
<1>4. CASE Dispatch
  <2>1. /\ kpc = "trap_return" /\ kpc' = scause /\ scause \in Traps
        /\ UNCHANGED <<queueVars, taskVars>>
    BY <1>4, InKernel DEF Dispatch, At
  <2>2. \A t \in Pid \ {current_task} : Parking(t)' = Parking(t)
    BY <2>1 DEF Parking, taskVars
  <2> QED BY <1>1, <2>1, <2>2, StayPlaces
<1>5. CASE Yield
  BY <1>5, YieldPlaces
<1>6. CASE Fork
  BY <1>6, ForkPlaces
<1>7. CASE Exit
  BY <1>7, ExitPlaces
<1>8. CASE KillInit \/ AllocPanic
  <2>1. UNCHANGED <<queueVars, taskVars, kpc>>
    BY <1>8 DEF KillInit, AllocPanic, panic
  <2>2. \A t \in Pid \ {current_task} : Parking(t)' = Parking(t)
    BY <2>1 DEF Parking, taskVars
  <2> QED BY <2>1, <2>2, StayPlaces
<1>9. CASE ExecveFault
  <2>1. /\ kpc = "execve" /\ kpc' = "task_entry" /\ UNCHANGED <<queueVars, live>>
        /\ kernel_frame' = [kernel_frame EXCEPT ![current_task] = "user_memcpy"]
    BY <1>9 DEF ExecveFault, At
  <2>2. \A t \in Pid \ {current_task} : Parking(t)' = Parking(t)
    BY <2>1 DEF Parking, IInv, TypeOK
  <2> QED BY <1>1, <2>1, <2>2, StayPlaces
<1>10. CASE At({"simple", "stack", "execve", "dump"}) /\ SyscallReturn
  <2>1. /\ kpc \in {"simple", "stack", "execve", "dump"} /\ kpc' = "task_entry"
        /\ UNCHANGED <<queueVars, taskVars>>
    BY <1>10 DEF At, SyscallReturn, Goto
  <2>2. \A t \in Pid \ {current_task} : Parking(t)' = Parking(t)
    BY <2>1 DEF Parking, taskVars
  <2> QED BY <1>1, <2>1, <2>2, StayPlaces
<1> QED BY <1>2, <1>3, <1>4, <1>5, <1>6, <1>7, <1>8, <1>9, <1>10 DEF OtherStep

-----------------------------------------------------------------------------
(* User mode and the timer                                                 *)

LEMMA ProgramPlaces ==
  ASSUME IInv, QInv, Outer, ProgramStep
  PROVE  uart_pc' = uart_pc
<1>1. Inside("trap_return") = "outside" /\ Inside(NULL) = "outside"
  BY NotInside DEF KPoint, Traps, InPoints, OutPoints
<1>2. hart = "user" => /\ Inside(kpc) = "outside" /\ current_task \in Pid
                       /\ kernel_frame[current_task] = "trap_return"
  BY <1>1 DEF Outer, IInv, ResumePoints, Current
<1>3. CASE UserStep \/ TimerTick
  <2>1. UNCHANGED <<queueVars, taskVars, kpc>>
    BY <1>3 DEF UserStep, TimerTick, hartVars
  <2>2. \A t \in Pid \ {current_task} : Parking(t)' = Parking(t)
    BY <2>1 DEF Parking, taskVars
  <2> QED BY <2>1, <2>2, StayPlaces
<1>4. ASSUME NEW cause \in Workload, UserTrap(cause) PROVE uart_pc' = uart_pc
  <2>1. /\ hart = "user" /\ kpc' = kernel_frame[current_task]
        /\ UNCHANGED <<queueVars, live, kernel_frame>>
    BY <1>4 DEF UserTrap
  <2>2. \A t \in Pid \ {current_task} : Parking(t)' = Parking(t)
    BY <2>1 DEF Parking
  <2> QED BY <1>1, <1>2, <2>1, <2>2, StayPlaces
<1>5. CASE PreemptUser
  <2>1. /\ hart = "user" /\ mode' = [mode EXCEPT ![current_task] = "USER"]
        /\ UNCHANGED <<next_task_id, live, gen, kernel_frame>>
        /\ schedule_next(regs)
    BY <1>5 DEF PreemptUser
  <2>2. mode \in [Pid -> {"USER", "SUPERVISOR"}] /\ live \subseteq Pid
    BY DEF IInv, TypeOK
  <2>3. /\ mode'[current_task] = "USER"
        /\ \A t \in live \ {current_task} : mode'[t] = mode[t]
    BY <1>2, <2>1, <2>2
  <2> QED BY <1>1, <1>2, <2>1, <2>3, NextPlaces
<1>6. CASE TimerInKernel
  <2>1. hart \in {"idle", "kernel"} /\ sie
    BY <1>6 DEF TimerInKernel
  <2>2. hart = "idle" /\ current_task = NULL
    BY <2>1, IdleInterrupt
  <2>3. /\ UNCHANGED <<next_task_id, live, gen, mode, kernel_frame>>
        /\ schedule(list, regs)
    BY <1>6, <2>2 DEF TimerInKernel
  <2> QED BY <2>2, <2>3, IdlePlaces
<1> QED BY <1>3, <1>4, <1>5, <1>6 DEF ProgramStep

-----------------------------------------------------------------------------
(* Steps of the composition are steps of the driver                        *)

LEMMA SeiKept ==
  ASSUME OtherStep \/ ProgramStep
  PROVE  ("SEI" \in pending)' = ("SEI" \in pending) /\ UNCHANGED uartVars
<1>1. CASE OtherStep
  BY <1>1 DEF OtherStep
<1>2. CASE ProgramStep
  <2>1. "SEI" \in pending' <=> "SEI" \in pending
    BY <1>2 DEF ProgramStep, UserStep, UserTrap, PreemptUser, TimerInKernel,
                TimerTick
  <2> QED BY <1>2, <2>1 DEF ProgramStep
<1> QED BY <1>1, <1>2

LEMMA Outside ==
  ASSUME uart_pc' = uart_pc, ("SEI" \in pending)' = ("SEI" \in pending),
         UNCHANGED uartVars
  PROVE  UNCHANGED U!vars
BY DEF uartVars, U!vars, U!outVars, U!inVars

LEMMA DriverStep ==
  ASSUME IInv, QInv, Outer, [KNext]_kvars, [~Execve]_vars
  PROVE  [U!Next]_(U!vars)
<1>1. hart = "kernel" => current_task \in Pid
  BY DEF IInv, Current
<1>2. CASE PutcStep \/ PutcLoopStep \/ GetcStep
  BY <1>1, <1>2 DEF PutcStep, PutcLoopStep, GetcStep, At, U!Next
<1>3. CASE ConsoleInterrupt \/ DeviceStep
  BY <1>3 DEF ConsoleInterrupt, DeviceStep, U!Next
<1>4. CASE ProgramStep
  BY <1>4, ProgramPlaces, SeiKept, Outside
<1>5. CASE OtherStep /\ ~Execve
  BY <1>5, OtherPlaces, SeiKept, Outside
<1>6. CASE UNCHANGED <<vars, uartVars>>
  <2>1. UNCHANGED <<list, kpc, live, kernel_frame, current_task, pending>>
    BY <1>6 DEF vars, queueVars, taskVars, hartVars
  <2>2. uart_pc' = uart_pc
    BY <2>1 DEF uart_pc, Queued, Point
  <2> QED BY <1>6, <2>1, <2>2, Outside
<1>7. CASE OtherStep /\ UNCHANGED vars
  BY <1>6, <1>7 DEF OtherStep
<1>8. CASE Halted /\ UNCHANGED uartVars
  BY <1>6, <1>8 DEF Halted
<1> QED BY <1>2, <1>3, <1>4, <1>5, <1>6, <1>7, <1>8 DEF KNext, KernelCode, kvars

\* The scheduler's invariants hold in the composition.
LEMMA SchedInvariants ==
  /\ KSpec => []IInv
  /\ KSpec => []Outer
  /\ KSpec /\ [][~Execve]_vars => []QInv
BY SchedulerRefined, Invariant, OuterInvariant, QueueInvariant, PTL

\* wait and wakeup are the only way out of the middle of the driver, and
\* uartintr runs only where Uart.tla lets it: what the kernel does, until an
\* execve succeeds, is what Uart.tla says of a driver with threads of its own
\* (do_schedule, wait, wakeup, uartputc, getchar, handle_interrupt).
THEOREM DriverRefined == KSpec /\ [][~Execve]_vars => UartSpec
<1>1. KInit => U!Init
  BY DEF KInit
<1>2. IInv /\ QInv /\ Outer /\ [KNext]_kvars /\ [~Execve]_vars
        => [U!Next]_(U!vars)
  BY DriverStep
<1> QED BY <1>1, <1>2, SchedInvariants, PTL DEF KSpec, UartSpec, U!Spec

-----------------------------------------------------------------------------
(* The two instances of Uart are one                                       *)

LEMMA Sizes == UP!UartAssumption
BY KernelAssumption DEF UP!UartAssumption

LEMMA OneStart ==
  ASSUME NEW raised PROVE UP!uartstart(raised) <=> U!uartstart(raised)
BY Zenon DEF UP!uartstart, U!uartstart, UP!TxIdle, U!TxIdle, UP!Last, U!Last,
             UP!Front, U!Front

LEMMA OneEnqueue ==
  ASSUME NEW c PROVE UP!Enqueue(c) <=> U!Enqueue(c)
BY OneStart, Zenon DEF UP!Enqueue, U!Enqueue, UP!uart_out_buffer_full,
                       U!uart_out_buffer_full

LEMMA OneThread ==
  ASSUME NEW t
  PROVE  /\ UP!uartputc(t) <=> U!uartputc(t)
         /\ UP!uartputc_loop(t) <=> U!uartputc_loop(t)
         /\ UP!getchar(t) <=> U!getchar(t)
<1>1. UP!uartputc(t) <=> U!uartputc(t)
  BY OneEnqueue, Zenon
     DEF UP!uartputc, U!uartputc, UP!Direct, U!Direct, UP!TxIdle, U!TxIdle,
         UP!uart_out_buffer_full, U!uart_out_buffer_full, UP!outVars, U!outVars,
         UP!inVars, U!inVars
<1>2. UP!uartputc_loop(t) <=> U!uartputc_loop(t)
  BY OneEnqueue, Zenon
     DEF UP!uartputc_loop, U!uartputc_loop, UP!uart_out_buffer_full,
         U!uart_out_buffer_full, UP!outVars, U!outVars, UP!inVars, U!inVars
<1>3. UP!getchar(t) <=> U!getchar(t)
  BY Zenon DEF UP!getchar, U!getchar, UP!outVars, U!outVars
<1> QED BY <1>1, <1>2, <1>3

LEMMA OneInterrupt == UP!uartintr <=> U!uartintr
<1>1. UP!Receive <=> U!Receive
  BY Zenon DEF UP!Receive, U!Receive, UP!in_room, U!in_room, UP!Slot, U!Slot
<1>2. UP!Wake <=> U!Wake
  BY Zenon DEF UP!Wake, U!Wake, UP!WakeIf, U!WakeIf, UP!uart_out_buffer_full,
               U!uart_out_buffer_full
<1> QED BY OneStart, <1>1, <1>2, Zenon DEF UP!uartintr, U!uartintr

LEMMA OneDevice ==
  /\ UP!TxDone <=> U!TxDone
  /\ UP!RxReady <=> U!RxReady
  /\ UP!Spurious <=> U!Spurious
BY Zenon DEF UP!TxDone, U!TxDone, UP!RxReady, U!RxReady, UP!Spurious,
             U!Spurious, UP!TxIdle, U!TxIdle, UP!outVars, U!outVars, UP!inVars,
             U!inVars

LEMMA OneDriver == UartSpec => UP!Spec
<1>1. U!Init => UP!Init
  BY DEF UP!Init, U!Init, UP!Slot, U!Slot
<1>2. UNCHANGED U!vars => UNCHANGED UP!vars
  BY Zenon DEF UP!vars, U!vars, UP!outVars, U!outVars, UP!inVars, U!inVars
<1>3. [U!Next]_(U!vars) => [UP!Next]_(UP!vars)
  <2>1. CASE U!Next
    <3>1. ASSUME NEW t \in Pid,
                 U!uartputc(t) \/ U!uartputc_loop(t) \/ U!getchar(t)
          PROVE  UP!Next
      BY <3>1, OneThread DEF UP!Next
    <3>2. CASE U!uartintr \/ U!TxDone \/ U!RxReady \/ U!Spurious
      BY <3>2, OneInterrupt, OneDevice DEF UP!Next
    <3> QED BY <2>1, <3>1, <3>2 DEF U!Next
  <2>2. CASE UNCHANGED U!vars
    BY <1>2, <2>2
  <2> QED BY <2>1, <2>2
<1> QED BY <1>1, <1>3, PTL DEF UartSpec, UP!Spec, U!Spec

-----------------------------------------------------------------------------

\* The hart idles only while every program waits for the console, and a program
\* that waits for room is never forgotten: the ring is full, so the device is
\* busy or its interrupt is pending, and idle() lets it in (idle, uartstart,
\* wait), until an execve succeeds.
THEOREM IdleWaitsForConsole == KSpec /\ [][~Execve]_vars => []IdleIsAwaited
<1>1. KSpec /\ [][~Execve]_vars => [](UP!NoLostWakeup /\ UP!WillInterrupt)
  <2>1. UP!Spec => []UP!NoLostWakeup
    BY Sizes, UP!NoWakeupLost, PTL
  <2>2. UP!Spec => []UP!WillInterrupt
    BY Sizes, UP!InterruptComes, PTL
  <2> QED BY <2>1, <2>2, DriverRefined, OneDriver, PTL
<1>2. IInv /\ QInv /\ Outer /\ UP!NoLostWakeup /\ UP!WillInterrupt
        => IdleIsAwaited
  <2> SUFFICES ASSUME IInv, QInv, Outer, UP!NoLostWakeup, UP!WillInterrupt,
                      hart = "idle"
               PROVE  /\ \A t \in live : Sleeping(t)
                      /\ list["wait_out"] # << >>
                           => thr # << >> \/ "SEI" \in pending
                      /\ sie
    BY DEF IdleIsAwaited
  <2>1. sie /\ list["tasks"] = << >> /\ current_task = NULL
        /\ live \subseteq Pid /\ ListName = {"tasks", "wait_in", "wait_out"}
    BY DEF IInv, WorkConserving, Current, TypeOK, ListName, WaitGroup, Outer
  <2>2. ASSUME NEW t \in live PROVE Sleeping(t)
    <3>1. t \in live \ {current_task}
      BY <2>1, ConstantsAssumption
    <3>2. Listed(list, t)
      BY <3>1 DEF QInv, Queues
    <3> QED BY <2>1, <3>2 DEF Listed, Sleeping, Queued
  <2>3. ASSUME list["wait_out"] # << >>
        PROVE  thr # << >> \/ "SEI" \in pending
    <3> DEFINE n == list["wait_out"][1]
    <3>1. list["wait_out"] \in Seq(Node) /\ 1 \in 1..Len(list["wait_out"])
      <4>1. list["wait_out"] \in Seq(Node)
        BY <2>1 DEF QInv, Queues
      <4> QED BY <2>3, <4>1, EmptySeq
    <3>2. n \in Node /\ n.value \in Pid
      <4>1. n \in Node
        BY <3>1, ElementOfSeq
      <4> QED BY <4>1 DEF Node
    <3>3. Queued("wait_out", n.value)
      BY <3>1 DEF Queued
    <3>4. ~Queued("wait_in", n.value)
      <4>1. Distinct(list)
        BY DEF QInv, Queues
      <4> QED BY <2>1, <3>1, <4>1 DEF Distinct, Queued
    <3>5. uart_pc[n.value] = "wait_out"
      <4> HIDE DEF n
      <4> QED BY <3>2, <3>3, <3>4 DEF uart_pc
    <3>6. UP!uart_out_buffer_full
      BY <3>2, <3>5 DEF UP!NoLostWakeup, UP!Waiting
    <3>7. uart_out_tx_w # uart_out_tx_r
      BY <3>6, KernelAssumption DEF UP!uart_out_buffer_full
    <3> QED BY <3>7 DEF UP!WillInterrupt, UP!TxIdle
  <2> QED BY <2>1, <2>2, <2>3
<1> QED BY <1>1, <1>2, SchedInvariants, PTL

=============================================================================
