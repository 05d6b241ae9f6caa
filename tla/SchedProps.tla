----------------------------- MODULE SchedProps -----------------------------
(***************************************************************************)
(* What the scheduler of Sched.tla promises.                               *)
(***************************************************************************)
EXTENDS Sched

Halts == hart \in {"panic", "corrupt"}

\* The types of the variables of Sched; the arrays and fields of sched.h.
TypeOK ==
  /\ list \in [ListName -> Seq(Node)]
  /\ current_task_node \in Node \cup {NULL}
  /\ current_task \in Pid \cup {NULL}
  /\ next_task_id \in 1..(MaxPid + 1)
  /\ live \subseteq Pid
  /\ gen \in [Pid -> 0..MaxGen]
  /\ mode \in [Pid -> {"USER", "SUPERVISOR"}]
  /\ kernel_frame \in [Pid -> KPoint]
  /\ user_frame \in [Pid -> Ctx]
  /\ hart \in {"boot", "user", "kernel", "idle", "panic", "corrupt"}
  /\ kpc \in KPoint \cup {NULL}
  /\ scause \in Traps \cup {NULL}
  /\ regs \in Ctx \cup {KernelCtx}
  /\ trapframe \in Ctx \cup {KernelCtx}
  /\ satp \in Pid \cup {NULL}
  /\ sie \in BOOLEAN
  /\ pending \subseteq {"SSI", "SEI"}
  /\ uctx \in [Pid -> Ctx]

-----------------------------------------------------------------------------


\* No task is queued twice, on one list or on two, and the running task is on
\* no list (list_push in wait, wakeup, schedule_next and task_init_sched).
OnePlace ==
  /\ \A a, b \in ListName : \A i \in 1..Len(list[a]), j \in 1..Len(list[b]) :
       list[a][i].value = list[b][j].value => a = b /\ i = j
  /\ \A a \in ListName : \A i \in 1..Len(list[a]) :
       list[a][i].value # current_task

\* No list and no current_task_node refers to a task or a node that has been
\* freed (task_destroy, task_reinit).
NoDangling ==
  /\ \A a \in ListName : \A i \in 1..Len(list[a]) : ~Dangling(list[a][i])
  /\ current_task_node # NULL => ~Dangling(current_task_node)

\* No live task is forgotten: it runs or it is on a list, so that a wakeup or
\* the scheduler can find it.
NoneLost ==
  ~Halts => \A t \in live :
    \/ t = current_task
    \/ \E a \in ListName : \E i \in 1..Len(list[a]) : list[a][i].value = t

\* A program always runs with the registers it left user mode with, whatever
\* the kernel and the other programs did in between (trapframe, user_frame).
ContextIntegrity == hart = "user" => regs = uctx[current_task]

\* A task that will be resumed in user mode has its kernel thread in
\* yield_to_user, where the next exception must find it; one that will be
\* resumed in the kernel has not (mode, kernel_frame).
ResumePoints ==
  /\ hart = "user" => kernel_frame[current_task] = "trap_return"
  /\ \A t \in live \ {current_task} :
       (mode[t] = "USER") <=> (kernel_frame[t] = "trap_return")

\* Kernel threads run with interrupts masked: no trap handler ever finds one,
\* so wait, uartputc and list_push need no lock.
InterruptsOff == hart = "kernel" => ~sie

\* The hart translates with the page table of the task it runs, and that task
\* has not been destroyed (do_schedule writes satp; task_destroy frees the
\* active table).
OwnAddressSpace ==
  hart \in {"user", "kernel"} => satp = current_task /\ current_task \in live

\* The hart idles only when no task is ready (do_schedule, idle, wakeup).
WorkConserving == hart = "idle" => list["tasks"] = << >>

-----------------------------------------------------------------------------
(* Liveness                                                                *)

\* The hart executes kernel code; the timer goes on ticking; an interrupt that
\* is pending again and again while it is enabled is taken, since the hart
\* tests for one after every sret.
Fairness ==
  /\ WF_vars(KernelStep)
  /\ WF_vars(TimerTick)
  /\ SF_vars(PreemptUser)

FairSpec == Spec /\ Fairness

Ready(t) == \E i \in 1..Len(list["tasks"]) : list["tasks"][i].value = t

\* Every ready task is eventually run, however the others behave (round robin
\* of schedule_next, preemption by the timer).
ReadyRuns == \A t \in Pid : Ready(t) ~> (current_task = t \/ Halts)

=============================================================================
