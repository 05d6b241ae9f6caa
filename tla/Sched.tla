------------------------------- MODULE Sched -------------------------------
(***************************************************************************)
(* The scheduler and the trap path of the kernel: kernel/sched.c,          *)
(* kernel/irq.c, kernel/trap.S, the timer of kernel/start.S and the        *)
(* scheduling half of every system call of kernel/syscall.c.               *)
(*                                                                         *)
(* One hart runs, in turn, user programs, the kernel threads that serve    *)
(* them (each on its own stack, switched by ksetjmp/klongjmp) and idle().  *)
(* Interrupts are masked while a kernel thread runs (InterruptsOff), so a  *)
(* stretch of kernel code between two places where it can switch threads   *)
(* is one step.                                                            *)
(*                                                                         *)
(* A register context is an opaque value of Ctx.  What the console does to *)
(* its callers - whether getchar and uartputc wait or go on, and whom an   *)
(* interrupt wakes - is left open here; Kernel.tla closes it.              *)
(***************************************************************************)
EXTENDS Naturals, Sequences, FiniteSets

CONSTANTS
  MaxPid,     \* bound on next_task_id: fork is not called beyond it
  MaxGen,     \* bound on the successful execve calls of one task
  Ctx,        \* register contexts of user programs
  InitCtx,    \* the context load_elf gives to a fresh program
  KernelCtx,  \* what the trap frame holds after a trap from the kernel
  NULL,
  Workload    \* the exceptions the user programs of this instance raise

\* Exceptions a user program can raise: system calls by name ("simple" is
\* getpid and every call that only returns), a fault in the stack region that
\* grows the stack, and any other fault.
Traps == {"getchar", "putchar", "dump", "simple", "yield", "fork", "exit",
          "execve", "stack", "fault"}

Pid == 1..MaxPid

ASSUME ConstantsAssumption ==
  /\ MaxPid \in Nat \ {0}
  /\ MaxGen \in Nat
  /\ InitCtx \in Ctx
  /\ KernelCtx \notin Ctx
  /\ NULL \notin Pid
  /\ NULL \notin [value : Pid, gen : 0..MaxGen]
  /\ Workload \subseteq Traps

\* The list_node a task is queued with.  Every task_init_sched allocates one;
\* gen numbers the nodes that one task has had.
Node == [value : Pid, gen : 0..MaxGen]

\* struct list tasks of sched.c, wait_in and wait_out of uart.c.
WaitGroup == {"wait_in", "wait_out"}
ListName  == {"tasks"} \cup WaitGroup

\* The point inside getchar or uartputc where a kernel thread goes on after
\* wait().
ResumeOf == [getchar |-> "getchar_loop", getchar_loop |-> "getchar_loop",
             putchar |-> "putchar_loop", putchar_loop |-> "putchar_loop",
             dump    |-> "dump_loop",    dump_loop    |-> "dump_loop",
             fault   |-> "fault_loop",   fault_loop   |-> "fault_loop"]
InPoints  == {"getchar", "getchar_loop"}
OutPoints == {"putchar", "putchar_loop", "dump", "dump_loop",
              "fault", "fault_loop"}

\* Where a kernel thread can be: at the head of task_entry's loop, just back
\* from user mode, in the handler of a trap, or in user_memcpy.
KPoint == {"task_entry", "trap_return", "user_memcpy"} \cup Traps
            \cup InPoints \cup OutPoints

VARIABLES
  list,               \* ListName -> sequence of nodes, first to last
  current_task_node,
  current_task,
  next_task_id,
  live,               \* pids whose struct task is allocated
  gen,                \* task->sched is the node with this number
  mode,               \* task->mode
  kernel_frame,       \* task->kernel_frame, as the point it resumes
  user_frame,         \* task->user_frame
  hart,               \* what the hart executes
  kpc,                \* where the running kernel thread is, else NULL
  scause,             \* the exception it was entered for, until it is read
  regs,               \* the registers, while in user mode
  trapframe,          \* trapframe.task
  satp,               \* the pid whose page table is active
  sie,                \* sstatus.SIE
  pending,            \* sip: "SSI" (timer) and "SEI" (PLIC)
  uctx                \* history: the context each program must see next

queueVars == <<list, current_task_node, current_task>>
taskVars  == <<next_task_id, live, gen, mode, kernel_frame, user_frame>>
hartVars  == <<hart, kpc, scause, regs, trapframe, satp, sie>>
vars      == <<queueVars, taskVars, hartVars, pending, uctx>>

NodeOf(t) == [value |-> t, gen |-> gen[t]]

\* A node or its task has been given back with kfree.
IsDangling(n, alive, number) == n.value \notin alive \/ n.gen # number[n.value]
Dangling(n) == IsDangling(n, live, gen)

-----------------------------------------------------------------------------
(* Switching                                                               *)

\* return_to_user and _kernel_to_user: the trap frame becomes the registers;
\* sret enables interrupts.
return_to_user ==
  /\ hart' = "user"
  /\ regs' = trapframe'
  /\ kpc' = NULL
  /\ sie' = TRUE
  /\ UNCHANGED scause

\* Mutant: the trap handler runs, and switches, with interrupts enabled.
klongjmp_unmasked(t) ==
  /\ hart' = "kernel"
  /\ kpc' = kernel_frame'[t]
  /\ regs' = KernelCtx
  /\ UNCHANGED <<scause, sie>>

\* Mutant: the thread starts afresh instead of going on where it waited.
klongjmp_entry(t) ==
  /\ hart' = "kernel"
  /\ kpc' = "task_entry"
  /\ regs' = KernelCtx
  /\ sie' = (sie /\ hart \notin {"user", "idle"})
  /\ UNCHANGED scause

\* klongjmp(&current_task->kernel_frame) leaves SIE as it finds it; a trap
\* from user mode or from idle() has cleared it on the way here.
klongjmp(t) ==
  /\ hart' = "kernel"
  /\ kpc' = kernel_frame'[t]
  /\ regs' = KernelCtx
  /\ sie' = (sie /\ hart \notin {"user", "idle"})
  /\ UNCHANGED scause

\* do_schedule on an empty queue: idle(), with interrupts enabled.  satp stays.
idle ==
  /\ list'["tasks"] = << >>
  /\ current_task_node' = NULL /\ current_task' = NULL
  /\ hart' = "idle"
  /\ regs' = KernelCtx
  /\ kpc' = NULL
  /\ sie' = TRUE
  /\ UNCHANGED <<scause, satp>>

\* do_schedule activates the page table of the task, if it is not active yet.
write_satp_never(t) == UNCHANGED satp  \* mutant
write_satp(t) == satp' = t

\* do_schedule takes node n off the queue and runs its task, in the mode it
\* was left in.  frame is the trap frame as the caller leaves it.
run_task(n, frame) ==
  LET t == n.value IN
  /\ current_task_node' = n /\ current_task' = t
  /\ write_satp(t)
  /\ \/ /\ mode'[t] = "SUPERVISOR"
        /\ klongjmp(t)
        /\ trapframe' = frame
     \/ /\ mode'[t] = "USER"
        /\ trapframe' = user_frame'[t]
        /\ return_to_user

\* A freed node or task is used: its memory may have been overwritten by the
\* allocator or a new owner, and nothing more is known of the machine.
corrupt ==
  /\ hart' = "corrupt"
  /\ UNCHANGED <<current_task_node, current_task, kpc, scause, regs,
                 trapframe, satp, sie>>

\* schedule(): do_schedule with l the lists as the caller leaves them.  The
\* memory of a freed node may still be intact; that of a freed task is reused.
schedule(l, frame) ==
  \/ /\ l["tasks"] = << >>
     /\ list' = l /\ trapframe' = frame
     /\ idle
  \/ /\ l["tasks"] # << >>
     /\ list' = [l EXCEPT !["tasks"] = Tail(l["tasks"])]
     /\ LET n == Head(l["tasks"]) IN
        \/ n.value \in live' /\ run_task(n, frame)
        \/ IsDangling(n, live', gen') /\ corrupt

\* Mutant: list_push at the head.
push_front(l, name, n) == [l EXCEPT ![name] = <<n>> \o l[name]]

push(l, name, n) == [l EXCEPT ![name] = Append(l[name], n)]

\* list_remove(node): nothing if the node is on no list.
list_remove(l, n) ==
  [name \in ListName |->
     LET s == l[name]
         Places == {i \in 1..Len(s) : s[i] = n}
         At_n == CHOOSE i \in Places : TRUE
     IN IF Places = {} THEN s
        ELSE SubSeq(s, 1, At_n - 1) \o SubSeq(s, At_n + 1, Len(s))]

\* Mutant: the current node is not queued.
schedule_next_lost(frame) == schedule(list, frame)

\* schedule_next(): the current node goes to the end of the run queue.
schedule_next(frame) ==
  \/ schedule(push(list, "tasks", current_task_node), frame)
  \/ Dangling(current_task_node) /\ UNCHANGED list /\ corrupt

panic ==
  /\ hart' = "panic"
  /\ UNCHANGED <<queueVars, taskVars, kpc, scause, regs, trapframe, satp, sie,
                 pending, uctx>>

-----------------------------------------------------------------------------
(* Boot                                                                    *)

\* main.c just before its schedule(): sched_init and task_create(NULL) have
\* run, task_init_elf has filled init's user frame.
Init ==
  /\ list = [name \in ListName |->
               IF name = "tasks" THEN <<[value |-> 1, gen |-> 0]>> ELSE << >>]
  /\ current_task_node = NULL /\ current_task = NULL
  /\ next_task_id = 2
  /\ live = {1}
  /\ gen = [t \in Pid |-> 0]
  /\ mode = [t \in Pid |-> "SUPERVISOR"]
  /\ kernel_frame = [t \in Pid |-> "task_entry"]
  /\ user_frame = [t \in Pid |-> InitCtx]
  /\ hart = "boot"
  /\ kpc = NULL
  /\ scause = NULL
  /\ regs = KernelCtx
  /\ trapframe = KernelCtx
  /\ satp = NULL                  \* early_page_table
  /\ sie = FALSE
  /\ pending = {}
  /\ uctx = [t \in Pid |-> InitCtx]

Boot ==
  /\ hart = "boot"
  /\ UNCHANGED <<taskVars, pending, uctx>>
  /\ schedule(list, trapframe)

-----------------------------------------------------------------------------
(* User mode                                                               *)

\* A user instruction changes the registers.
UserStep ==
  /\ hart = "user"
  /\ \E c \in Ctx :
       /\ regs' = c
       /\ uctx' = [uctx EXCEPT ![current_task] = c]
  /\ UNCHANGED <<queueVars, taskVars, hart, kpc, scause, trapframe, satp, sie,
                 pending>>

\* trap_handler copies the trap frame, which trap_vector has just filled.
save_old_frame ==  \* mutant: it was copied before
  user_frame' = [user_frame EXCEPT ![current_task] = trapframe]
save_user_frame ==
  user_frame' = [user_frame EXCEPT ![current_task] = trapframe']

\* trap_vector and trap_handler for an exception in user mode: the registers
\* are saved, and the kernel thread goes on where yield_to_user left it.
UserTrap(cause) ==
  /\ hart = "user"
  /\ cause = "fork" => next_task_id <= MaxPid
  /\ trapframe' = regs
  /\ save_user_frame
  /\ hart' = "kernel"
  /\ kpc' = kernel_frame[current_task]
  /\ scause' = cause
  /\ regs' = KernelCtx
  /\ sie' = FALSE
  /\ UNCHANGED <<queueVars, next_task_id, live, gen, mode, kernel_frame, satp,
                 pending, uctx>>

-----------------------------------------------------------------------------
(* The kernel thread of the current task                                   *)

At(points) == hart = "kernel" /\ kpc \in points

Goto(point) ==
  /\ kpc' = point
  /\ UNCHANGED <<hart, scause, regs, trapframe, satp, sie>>

\* The console device may raise its interrupt while the kernel talks to it.
MayInterrupt(p) == pending' \in {p, p \cup {"SEI"}}

\* yield_to_user, the head of task_entry's loop: the trap frame is loaded, and
\* the thread will go on here at the next exception (ksetjmp).
load_nothing == trapframe' = trapframe     \* mutant
load_user_frame == trapframe' = user_frame[current_task]
mark_trap_return ==
  kernel_frame' = [kernel_frame EXCEPT ![current_task] = "trap_return"]

YieldToUser ==
  /\ At({"task_entry"})
  /\ load_user_frame
  /\ mark_trap_return
  /\ return_to_user
  /\ UNCHANGED <<queueVars, next_task_id, live, gen, mode, user_frame, satp,
                 pending, uctx>>

\* task_entry and syscall() choose the handler from scause and a7.
Dispatch ==
  /\ At({"trap_return"})
  /\ kpc' = scause
  /\ scause' = NULL
  /\ UNCHANGED <<queueVars, taskVars, hart, regs, trapframe, satp, sie, pending,
                 uctx>>

\* The handler is done, or has failed, and task_entry loops.
SyscallReturn ==
  /\ At({"simple", "stack", "execve", "getchar", "getchar_loop",
         "putchar", "putchar_loop", "dump"})
  /\ Goto("task_entry")
  /\ MayInterrupt(pending)
  /\ UNCHANGED <<queueVars, taskVars, uctx>>

\* A handler that prints several characters goes on to the next one, or to
\* what follows the last one.
NextChar ==
  /\ At({"dump_loop", "fault_loop"})
  /\ Goto(IF kpc = "dump_loop" THEN "dump" ELSE "fault")
  /\ MayInterrupt(pending)
  /\ UNCHANGED <<queueVars, taskVars, uctx>>

\* wait() and SYS_yield set task->mode and save where to go on (ksetjmp).
save_frame_only(point) ==  \* mutant: the mode is not set
  /\ kernel_frame' = [kernel_frame EXCEPT ![current_task] = point]
  /\ UNCHANGED <<next_task_id, live, gen, mode, user_frame, pending, uctx>>
save_supervisor(point) ==
  /\ mode' = [mode EXCEPT ![current_task] = "SUPERVISOR"]
  /\ kernel_frame' = [kernel_frame EXCEPT ![current_task] = point]
  /\ UNCHANGED <<next_task_id, live, gen, user_frame, pending, uctx>>

\* wait(group), from getchar and from uartputc.
Wait(group) ==
  /\ At(IF group = "wait_in" THEN InPoints ELSE OutPoints)
  /\ save_supervisor(ResumeOf[kpc])
  /\ \/ schedule(push(list, group, current_task_node), trapframe)
     \/ Dangling(current_task_node) /\ UNCHANGED list /\ corrupt

\* SYS_yield: when the thread is resumed it returns 0.
Yield ==
  /\ At({"yield"})
  /\ save_supervisor("task_entry")
  /\ schedule_next(trapframe)

\* task_init_sched: node n is queued, its task will start in task_entry.
task_init_sched(n, l) ==
  /\ mode' = [mode EXCEPT ![n.value] = "SUPERVISOR"]
  /\ kernel_frame' = [kernel_frame EXCEPT ![n.value] = "task_entry"]
  /\ list' = push(l, "tasks", n)

\* SYS_fork: task_clone.  The child is queued before its address space and its
\* user frame are copied.
Fork ==
  /\ At({"fork"})
  /\ LET child == next_task_id IN
     /\ next_task_id' = next_task_id + 1
     /\ live' = live \cup {child}
     /\ task_init_sched(NodeOf(child), list)
     /\ user_frame' = [user_frame EXCEPT ![child] = user_frame[current_task]]
     /\ uctx' = [uctx EXCEPT ![child] = uctx[current_task]]
  /\ Goto("task_entry")
  /\ UNCHANGED <<gen, current_task_node, current_task, pending>>

\* Mutant: SYS_exit ends in schedule_next().
Exit_next ==
  /\ At({"exit", "fault"})
  /\ current_task # 1
  /\ live' = live \ {current_task}
  /\ UNCHANGED <<next_task_id, gen, mode, kernel_frame, user_frame, pending,
                 uctx>>
  /\ schedule_next(trapframe)

\* SYS_exit, and the end of task_entry after a fault has been reported:
\* task_destroy of a task other than init.
Exit ==
  /\ At({"exit", "fault"})
  /\ current_task # 1
  /\ live' = live \ {current_task}
  /\ UNCHANGED <<next_task_id, gen, mode, kernel_frame, user_frame, pending,
                 uctx>>
  /\ schedule(list_remove(list, NodeOf(current_task)), trapframe)

\* task_destroy: "attempting to kill init".
KillInit ==
  /\ At({"exit", "fault"})
  /\ current_task = 1
  /\ panic

\* SYS_execve cannot copy its arguments because of a page fault: the fault goes
\* through kernel_trap, which stores the kernel's registers in the trap frame
\* and in the task's kernel frame before it resumes page_fault_handler.
ExecveFault ==
  /\ At({"execve"})
  /\ kernel_frame' = [kernel_frame EXCEPT ![current_task] = "user_memcpy"]
  /\ trapframe' = KernelCtx
  /\ kpc' = "task_entry"
  /\ UNCHANGED <<queueVars, next_task_id, live, gen, mode, user_frame, hart,
                 scause, regs, satp, sie, pending, uctx>>

\* The end of load_elf: the registers of a fresh program.
load_elf == user_frame' = [user_frame EXCEPT ![current_task] = InitCtx]

\* SYS_execve: task_reinit frees the node current_task_node points to, gives
\* the task a new one and queues it; klongjmp goes to the new kernel frame.
Execve ==
  /\ At({"execve"})
  /\ gen[current_task] < MaxGen
  /\ gen' = [gen EXCEPT ![current_task] = @ + 1]
  /\ task_init_sched([value |-> current_task, gen |-> gen'[current_task]],
                     list_remove(list, NodeOf(current_task)))
  /\ load_elf
  /\ uctx' = [uctx EXCEPT ![current_task] = InitCtx]
  /\ Goto(kernel_frame'[current_task])
  /\ UNCHANGED <<next_task_id, live, current_task_node, current_task, pending>>

\* alloc_pages panics when no page is left; SYS_execve with a bad envp tests
\* argv again, and reads envp[0] through the error value: a kernel fault.
AllocPanic ==
  /\ At({"fork", "execve", "stack"})
  /\ panic

-----------------------------------------------------------------------------
(* Interrupts                                                              *)

\* timervec (M-mode) re-arms the timer and sets sip.SSIP.
TimerTick ==
  /\ hart \notin {"boot", "panic", "corrupt"}
  /\ "SSI" \notin pending
  /\ pending' = pending \cup {"SSI"}
  /\ UNCHANGED <<queueVars, taskVars, hartVars, uctx>>

\* The console device raises its interrupt through the PLIC.
DeviceInterrupt ==
  /\ hart \notin {"boot", "panic", "corrupt"}
  /\ "SEI" \notin pending
  /\ pending' = pending \cup {"SEI"}
  /\ UNCHANGED <<queueVars, taskVars, hartVars, uctx>>

\* handle_interrupt, timer, from user mode: preemption.
PreemptUser ==
  /\ hart = "user" /\ "SSI" \in pending
  /\ pending' = pending \ {"SSI"}
  /\ user_frame' = [user_frame EXCEPT ![current_task] = regs]
  /\ mode' = [mode EXCEPT ![current_task] = "USER"]
  /\ UNCHANGED <<next_task_id, live, gen, kernel_frame, uctx>>
  /\ schedule_next(regs)

\* kernel_trap and handle_interrupt, timer, from the kernel.  Without a
\* current task (idle) this is schedule(); a kernel thread would be preempted.
TimerInKernel ==
  /\ hart \in {"idle", "kernel"} /\ sie /\ "SSI" \in pending
  /\ pending' = pending \ {"SSI"}
  /\ UNCHANGED <<next_task_id, live, gen, user_frame, uctx>>
  /\ IF current_task = NULL
     THEN /\ UNCHANGED <<mode, kernel_frame>>
          /\ schedule(list, regs)
     ELSE /\ mode' = [mode EXCEPT ![current_task] = "SUPERVISOR"]
          /\ kernel_frame' = [kernel_frame EXCEPT ![current_task] = kpc]
          /\ schedule_next(regs)

\* Mutant: wakeup does not take the nodes off the group.
Woken_keep(groups) ==
  LET Of(g) == IF g \in groups THEN list[g] ELSE << >> IN
  [name \in ListName |->
     IF name = "tasks" THEN (list["tasks"] \o Of("wait_in")) \o Of("wait_out")
     ELSE list[name]]

\* wakeup(&wait_in) and wakeup(&wait_out), in uartintr's order.
Woken(groups) ==
  LET Of(g) == IF g \in groups THEN list[g] ELSE << >> IN
  [name \in ListName |->
     IF name = "tasks" THEN (list["tasks"] \o Of("wait_in")) \o Of("wait_out")
     ELSE IF name \in groups THEN << >> ELSE list[name]]

\* handle_interrupt, PLIC, from user mode: uartintr, then back to the user.
ExternalInUser(groups) ==
  /\ hart = "user" /\ "SEI" \in pending
  /\ MayInterrupt(pending \ {"SEI"})
  /\ list' = Woken(groups)
  /\ trapframe' = regs
  /\ return_to_user
  /\ UNCHANGED <<taskVars, current_task_node, current_task, satp, uctx>>

\* Mutant: kernel_trap returns to idle() without scheduling.
ExternalInKernel_idle(groups) ==
  /\ hart \in {"idle", "kernel"} /\ sie /\ "SEI" \in pending
  /\ MayInterrupt(pending \ {"SEI"})
  /\ list' = Woken(groups)
  /\ trapframe' = regs
  /\ UNCHANGED <<taskVars, uctx, current_task_node, current_task, hart, kpc,
                 scause, regs, satp, sie>>

\* handle_interrupt, PLIC, from the kernel: uartintr; from idle() the kernel
\* then schedules, a kernel thread would go on.
ExternalInKernel(groups) ==
  /\ hart \in {"idle", "kernel"} /\ sie /\ "SEI" \in pending
  /\ MayInterrupt(pending \ {"SEI"})
  /\ UNCHANGED <<next_task_id, live, gen, mode, user_frame, uctx>>
  /\ IF current_task = NULL
     THEN UNCHANGED kernel_frame /\ schedule(Woken(groups), regs)
     ELSE /\ kernel_frame' = [kernel_frame EXCEPT ![current_task] = kpc]
          /\ list' = Woken(groups)
          /\ trapframe' = regs
          /\ sie' = FALSE
          /\ UNCHANGED <<current_task_node, current_task, hart, kpc, scause,
                         regs, satp>>

\* _panic ends in an endless loop; a corrupted machine is not followed.
Halted ==
  /\ hart \in {"panic", "corrupt"}
  /\ UNCHANGED vars

-----------------------------------------------------------------------------

KernelStep ==
  \/ Boot \/ YieldToUser \/ Dispatch \/ SyscallReturn \/ NextChar
  \/ \E g \in WaitGroup : Wait(g)
  \/ Yield \/ Fork \/ Exit \/ KillInit
  \/ ExecveFault \/ Execve \/ AllocPanic

Interrupt ==
  \/ PreemptUser \/ TimerInKernel
  \/ \E groups \in SUBSET WaitGroup :
       ExternalInUser(groups) \/ ExternalInKernel(groups)

Next ==
  \/ UserStep
  \/ \E cause \in Workload : UserTrap(cause)
  \/ KernelStep
  \/ Interrupt
  \/ TimerTick \/ DeviceInterrupt
  \/ Halted

Spec == Init /\ [][Next]_vars

=============================================================================
