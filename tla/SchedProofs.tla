---------------------------- MODULE SchedProofs ----------------------------
(***************************************************************************)
(* Proofs about the scheduler and the trap path of Sched.tla, for any      *)
(* number of tasks and contexts: first of its frames and registers, for    *)
(* programs that raise any of the exceptions, execve included, then of its *)
(* queues.                                                                 *)
(***************************************************************************)
EXTENDS SchedProps, SequenceTheorems, TLAPS

\* The points a kernel frame can hold.
Frame == {"task_entry", "trap_return", "user_memcpy", "getchar_loop",
          "putchar_loop", "dump_loop", "fault_loop"}

\* The bound on fork holds from the exception until its handler.
Bounded(cause) == cause = "fork" => next_task_id <= MaxPid

\* A kernel thread is at one of its points, and behind yield_to_user it was
\* entered for an exception.
Handling ==
  hart = "kernel" =>
    /\ kpc \in KPoint
    /\ Bounded(kpc)
    /\ kpc = "trap_return" => scause \in Traps /\ Bounded(scause)

\* There is a current task when and only when the hart runs one.
Current ==
  /\ hart \in {"user", "kernel"} => /\ current_task \in Pid
                                   /\ current_task_node \in Node
  /\ hart \in {"boot", "idle"} => current_task = NULL

\* What a program must see next is in its trap frame, unless it runs.
Saved ==
  \A t \in live :
    (t # current_task \/ hart # "user") => user_frame[t] = uctx[t]

\* The inductive invariant.
IInv ==
  /\ TypeOK
  /\ \A t \in Pid : kernel_frame[t] \in Frame
  /\ hart = "user" => regs \in Ctx
  /\ hart = "boot" => ~sie
  /\ Handling /\ Current /\ Saved
  /\ ContextIntegrity /\ ResumePoints /\ InterruptsOff
  /\ OwnAddressSpace /\ WorkConserving

-----------------------------------------------------------------------------
(* Switching                                                               *)

\* The types of the variables a switch leaves alone.
TaskTypes ==
  /\ next_task_id \in 1..(MaxPid + 1)
  /\ live \subseteq Pid
  /\ gen \in [Pid -> 0..MaxGen]
  /\ mode \in [Pid -> {"USER", "SUPERVISOR"}]
  /\ kernel_frame \in [Pid -> KPoint]
  /\ \A t \in Pid : kernel_frame[t] \in Frame
  /\ user_frame \in [Pid -> Ctx]
  /\ pending \subseteq {"SSI", "SEI"}
  /\ uctx \in [Pid -> Ctx]

\* Every task can be switched to.
Parked ==
  \A t \in live :
    /\ (mode[t] = "USER") <=> (kernel_frame[t] = "trap_return")
    /\ user_frame[t] = uctx[t]

\* Nothing but the caller's step decides what a switch to the task of node n
\* gives: the hart runs that task, in its own address space, either in the
\* kernel with interrupts masked or in user mode with its own registers.
LEMMA RunTask ==
  ASSUME IInv, TaskTypes', Parked',
         NEW n \in Node, n.value \in live',
         NEW frame \in Ctx \cup {KernelCtx},
         list' \in [ListName -> Seq(Node)],
         hart \in {"boot", "idle", "user", "kernel"},
         run_task(n, frame)
  PROVE  IInv'
<1> DEFINE t == n.value
<1>1. t \in Pid
  BY DEF Node
<1>2. /\ current_task_node' = n /\ current_task' = t /\ satp' = t
      /\ scause' = scause
  BY DEF run_task, write_satp, klongjmp, return_to_user
<1>3. t # NULL
  BY <1>1, ConstantsAssumption
<1>4. CASE mode'[t] = "SUPERVISOR"
  <2>1. /\ hart' = "kernel" /\ kpc' = kernel_frame'[t] /\ regs' = KernelCtx
        /\ sie' = (sie /\ hart \notin {"user", "idle"}) /\ trapframe' = frame
    BY <1>4 DEF run_task, klongjmp
  <2>2. ~sie'
    BY <2>1 DEF IInv, InterruptsOff
  <2>3. kernel_frame'[t] \in Frame /\ kernel_frame'[t] # "trap_return"
        /\ kernel_frame'[t] \in KPoint
    BY <1>1, <1>4 DEF TaskTypes, Parked
  <2>4. TypeOK'
    BY <1>1, <1>2, <2>1, <2>2, <2>3 DEF TypeOK, TaskTypes, IInv
  <2>5. Handling' /\ Current' /\ Saved'
    BY <1>1, <1>2, <2>1, <2>3
       DEF Handling, Bounded, Frame, Current, Saved, Parked
  <2>6. ContextIntegrity' /\ ResumePoints' /\ InterruptsOff'
        /\ OwnAddressSpace' /\ WorkConserving'
    BY <1>2, <2>1, <2>2
       DEF ContextIntegrity, ResumePoints, InterruptsOff, OwnAddressSpace,
           WorkConserving, Parked
  <2> QED BY <2>1, <2>4, <2>5, <2>6 DEF IInv, TaskTypes
<1>5. CASE mode'[t] = "USER"
  <2>1. /\ hart' = "user" /\ trapframe' = user_frame'[t]
        /\ regs' = trapframe' /\ kpc' = NULL /\ sie' = TRUE
    BY <1>5 DEF run_task, return_to_user
  <2>2. user_frame'[t] \in Ctx /\ user_frame'[t] = uctx'[t]
        /\ kernel_frame'[t] = "trap_return"
    BY <1>1, <1>5 DEF TaskTypes, Parked
  <2>3. TypeOK'
    BY <1>1, <1>2, <2>1, <2>2 DEF TypeOK, TaskTypes, IInv
  <2>4. Handling' /\ Current' /\ Saved'
    BY <1>1, <1>2, <2>1 DEF Handling, Current, Saved, Parked
  <2>5. ContextIntegrity' /\ ResumePoints' /\ InterruptsOff'
        /\ OwnAddressSpace' /\ WorkConserving'
    BY <1>2, <2>1, <2>2
       DEF ContextIntegrity, ResumePoints, InterruptsOff, OwnAddressSpace,
           WorkConserving, Parked
  <2> QED BY <2>1, <2>2, <2>3, <2>4, <2>5 DEF IInv, TaskTypes
<1> QED BY <1>1, <1>4, <1>5 DEF TaskTypes

\* An empty run queue leaves the hart idle, with no current task.
LEMMA Idle ==
  ASSUME IInv, TaskTypes', Parked',
         NEW frame \in Ctx \cup {KernelCtx},
         list' \in [ListName -> Seq(Node)],
         trapframe' = frame, idle
  PROVE  IInv'
<1>1. /\ list'["tasks"] = << >> /\ current_task_node' = NULL
      /\ current_task' = NULL /\ hart' = "idle" /\ regs' = KernelCtx
      /\ kpc' = NULL /\ sie' = TRUE /\ scause' = scause /\ satp' = satp
  BY DEF idle
<1>2. TypeOK'
  BY <1>1 DEF TypeOK, TaskTypes, IInv
<1> QED
  BY <1>1, <1>2
     DEF IInv, TaskTypes, Parked, Handling, Current, Saved, ContextIntegrity,
         ResumePoints, InterruptsOff, OwnAddressSpace, WorkConserving

\* The invariant says nothing more of a machine that has used freed memory.
LEMMA Corrupt ==
  ASSUME IInv, TaskTypes', Parked',
         list' \in [ListName -> Seq(Node)], corrupt
  PROVE  IInv'
<1>1. /\ hart' = "corrupt" /\ current_task_node' = current_task_node
      /\ current_task' = current_task /\ kpc' = kpc /\ scause' = scause
      /\ regs' = regs /\ trapframe' = trapframe /\ satp' = satp /\ sie' = sie
  BY DEF corrupt
<1>2. TypeOK'
  BY <1>1 DEF TypeOK, TaskTypes, IInv
<1> QED
  BY <1>1, <1>2
     DEF IInv, TaskTypes, Parked, Handling, Current, Saved, ContextIntegrity,
         ResumePoints, InterruptsOff, OwnAddressSpace, WorkConserving

\* schedule(), from wherever it is called.
LEMMA Schedule ==
  ASSUME IInv, TaskTypes', Parked',
         NEW l \in [ListName -> Seq(Node)],
         NEW frame \in Ctx \cup {KernelCtx},
         hart \in {"boot", "idle", "user", "kernel"},
         schedule(l, frame)
  PROVE  IInv'
<1>1. "tasks" \in ListName
  BY DEF ListName
<1>2. CASE l["tasks"] = << >>
  <2>1. list' = l /\ trapframe' = frame /\ idle
    BY <1>2 DEF schedule
  <2> QED BY <2>1, Idle
<1>3. CASE l["tasks"] # << >>
  <2> DEFINE n == Head(l["tasks"])
  <2>1. l["tasks"] \in Seq(Node)
    BY <1>1
  <2>2. n \in Node /\ Tail(l["tasks"]) \in Seq(Node)
    BY <1>3, <2>1
  <2>3. list' \in [ListName -> Seq(Node)]
    BY <1>3, <2>2 DEF schedule
  <2>4. CASE n.value \in live' /\ run_task(n, frame)
    BY <2>2, <2>3, <2>4, RunTask
  <2>5. CASE corrupt
    BY <2>3, <2>5, Corrupt
  <2> QED BY <1>3, <2>4, <2>5 DEF schedule
<1> QED BY <1>2, <1>3

\* Queueing a node and taking one off give lists of nodes.
LEMMA ListTypes ==
  ASSUME NEW l \in [ListName -> Seq(Node)], NEW n \in Node,
         NEW name \in ListName
  PROVE  /\ push(l, name, n) \in [ListName -> Seq(Node)]
         /\ list_remove(l, n) \in [ListName -> Seq(Node)]
<1>1. push(l, name, n) \in [ListName -> Seq(Node)]
  <2>1. Append(l[name], n) \in Seq(Node)
    OBVIOUS
  <2> QED BY <2>1 DEF push
<1>2. list_remove(l, n) \in [ListName -> Seq(Node)]
  <2> SUFFICES ASSUME NEW a \in ListName
               PROVE  list_remove(l, n)[a] \in Seq(Node)
    BY DEF list_remove
  <2> DEFINE s == l[a]
             Places == {i \in 1..Len(s) : s[i] = n}
             At_n == CHOOSE i \in Places : TRUE
  <2>1. s \in Seq(Node)
    OBVIOUS
  <2>2. CASE Places = {}
    BY <2>1, <2>2 DEF list_remove
  <2>3. CASE Places # {}
    <3>1. At_n \in Places
      BY <2>3
    <3>2. At_n \in 1..Len(s)
      BY <3>1
    <3> HIDE DEF At_n
    <3>3. SubSeq(s, 1, At_n - 1) \in Seq(Node)
          /\ SubSeq(s, At_n + 1, Len(s)) \in Seq(Node)
      BY <2>1, <3>2
    <3>4. SubSeq(s, 1, At_n - 1) \o SubSeq(s, At_n + 1, Len(s)) \in Seq(Node)
      BY <3>3
    <3> QED BY <2>3, <3>4 DEF list_remove, At_n
  <2> QED BY <2>2, <2>3
<1> QED BY <1>1, <1>2

\* wakeup moves nodes from one list to another.
LEMMA WokenTypes ==
  ASSUME list \in [ListName -> Seq(Node)], NEW groups
  PROVE  Woken(groups) \in [ListName -> Seq(Node)]
<1> DEFINE Of(g) == IF g \in groups THEN list[g] ELSE << >>
<1>1. list["tasks"] \in Seq(Node) /\ Of("wait_in") \in Seq(Node)
      /\ Of("wait_out") \in Seq(Node)
  BY DEF ListName, WaitGroup
<1>2. (list["tasks"] \o Of("wait_in")) \o Of("wait_out") \in Seq(Node)
  BY <1>1
<1>3. << >> \in Seq(Node)
  OBVIOUS
<1> QED BY <1>2, <1>3 DEF Woken

\* schedule_next(), with the current task ready to be switched to.
LEMMA ScheduleNext ==
  ASSUME IInv, TaskTypes', Parked',
         NEW frame \in Ctx \cup {KernelCtx},
         hart \in {"user", "kernel"},
         schedule_next(frame)
  PROVE  IInv'
<1>1. list \in [ListName -> Seq(Node)] /\ current_task_node \in Node
      /\ "tasks" \in ListName
  BY DEF IInv, TypeOK, Current, ListName
<1>2. push(list, "tasks", current_task_node) \in [ListName -> Seq(Node)]
  BY <1>1, ListTypes
<1>3. CASE schedule(push(list, "tasks", current_task_node), frame)
  BY <1>2, <1>3, Schedule
<1>4. CASE UNCHANGED list /\ corrupt
  BY <1>1, <1>4, Corrupt
<1> QED BY <1>3, <1>4 DEF schedule_next

-----------------------------------------------------------------------------
(* The steps of kernel threads                                             *)

\* What the invariant says while the kernel runs a thread.
LEMMA InKernel ==
  ASSUME IInv, hart = "kernel"
  PROVE  /\ current_task \in Pid /\ current_task_node \in Node
         /\ kpc \in KPoint /\ Bounded(kpc)
         /\ kpc = "trap_return" => scause \in Traps /\ Bounded(scause)
         /\ ~sie /\ satp = current_task /\ current_task \in live
         /\ TaskTypes /\ list \in [ListName -> Seq(Node)]
         /\ trapframe \in Ctx \cup {KernelCtx}
         /\ \A t \in live : user_frame[t] = uctx[t]
         /\ \A t \in live \ {current_task} :
              (mode[t] = "USER") <=> (kernel_frame[t] = "trap_return")
BY DEF IInv, TypeOK, TaskTypes, Handling, Current, Saved, ResumePoints,
       InterruptsOff, OwnAddressSpace

\* A step of a kernel thread that changes neither the tasks nor the lists.
LEMMA GotoStep ==
  ASSUME IInv, hart = "kernel", NEW point \in KPoint,
         Goto(point), Bounded(point), point # "trap_return",
         UNCHANGED <<queueVars, taskVars, uctx>>,
         pending' \subseteq {"SSI", "SEI"}
  PROVE  IInv'
<1>1. /\ kpc' = point /\ hart' = hart /\ scause' = scause /\ regs' = regs
      /\ trapframe' = trapframe /\ satp' = satp /\ sie' = sie
      /\ list' = list /\ current_task_node' = current_task_node
      /\ current_task' = current_task /\ next_task_id' = next_task_id
      /\ live' = live /\ gen' = gen /\ mode' = mode
      /\ kernel_frame' = kernel_frame /\ user_frame' = user_frame
      /\ uctx' = uctx
  BY DEF Goto, queueVars, taskVars
<1>2. TypeOK'
  BY <1>1 DEF IInv, TypeOK
<1>3. Handling' /\ Current' /\ Saved'
  BY <1>1 DEF IInv, Handling, Bounded, Current, Saved
<1>4. ContextIntegrity' /\ ResumePoints' /\ InterruptsOff'
      /\ OwnAddressSpace' /\ WorkConserving'
  BY <1>1 DEF IInv, ContextIntegrity, ResumePoints, InterruptsOff,
              OwnAddressSpace, WorkConserving
<1> QED BY <1>1, <1>2, <1>3, <1>4 DEF IInv

LEMMA BootStep ==
  ASSUME IInv, Boot
  PROVE  IInv'
<1>1. hart = "boot" /\ UNCHANGED <<taskVars, pending, uctx>>
      /\ schedule(list, trapframe)
  BY DEF Boot
<1>2. list \in [ListName -> Seq(Node)] /\ trapframe \in Ctx \cup {KernelCtx}
      /\ current_task = NULL
  BY <1>1 DEF IInv, TypeOK, Current
<1>3. TaskTypes' /\ Parked'
  <2>1. NULL \notin live
    BY ConstantsAssumption DEF IInv, TypeOK
  <2> QED BY <1>1, <1>2, <2>1
          DEF IInv, TypeOK, TaskTypes, Parked, Saved, ResumePoints, taskVars
<1> QED BY <1>1, <1>2, <1>3, Schedule

LEMMA YieldToUserStep ==
  ASSUME IInv, YieldToUser
  PROVE  IInv'
<1>1. /\ hart = "kernel" /\ hart' = "user"
      /\ trapframe' = user_frame[current_task] /\ regs' = trapframe'
      /\ kernel_frame' = [kernel_frame EXCEPT ![current_task] = "trap_return"]
      /\ kpc' = NULL /\ sie' = TRUE /\ scause' = scause
      /\ UNCHANGED <<list, current_task_node, current_task, next_task_id, live,
                     gen, mode, user_frame, satp, pending, uctx>>
  BY DEF YieldToUser, At, load_user_frame, mark_trap_return, return_to_user,
         queueVars
<1>2. user_frame[current_task] \in Ctx
      /\ user_frame[current_task] = uctx[current_task]
  BY <1>1, InKernel DEF TaskTypes
<1>3. TypeOK' /\ \A t \in Pid : kernel_frame'[t] \in Frame
  <2>1. "trap_return" \in Frame /\ "trap_return" \in KPoint
    BY DEF Frame, KPoint
  <2> QED BY <1>1, <1>2, <2>1 DEF IInv, TypeOK
<1>4. Handling' /\ Current' /\ Saved'
  BY <1>1, InKernel DEF Handling, Current, Saved
<1>5. ContextIntegrity' /\ ResumePoints' /\ InterruptsOff'
      /\ OwnAddressSpace' /\ WorkConserving'
  BY <1>1, <1>2, InKernel
     DEF TaskTypes, ContextIntegrity, ResumePoints, InterruptsOff,
         OwnAddressSpace, WorkConserving
<1> QED BY <1>1, <1>2, <1>3, <1>4, <1>5 DEF IInv

LEMMA DispatchStep ==
  ASSUME IInv, Dispatch
  PROVE  IInv'
<1>1. /\ hart = "kernel" /\ kpc = "trap_return" /\ kpc' = scause
      /\ scause' = NULL
      /\ UNCHANGED <<list, current_task_node, current_task, next_task_id, live,
                     gen, mode, kernel_frame, user_frame, hart, regs,
                     trapframe, satp, sie, pending, uctx>>
  BY DEF Dispatch, At, queueVars, taskVars
<1>2. scause \in Traps /\ Bounded(scause)
  BY <1>1, InKernel
<1>3. scause \in KPoint /\ scause # "trap_return"
  BY <1>2 DEF KPoint, Traps
<1>4. TypeOK'
  BY <1>1, <1>3 DEF IInv, TypeOK
<1>5. Handling' /\ Current' /\ Saved'
  BY <1>1, <1>2, <1>3 DEF IInv, Handling, Bounded, Current, Saved
<1>6. ContextIntegrity' /\ ResumePoints' /\ InterruptsOff'
      /\ OwnAddressSpace' /\ WorkConserving'
  BY <1>1 DEF IInv, ContextIntegrity, ResumePoints, InterruptsOff,
              OwnAddressSpace, WorkConserving
<1> QED BY <1>1, <1>4, <1>5, <1>6 DEF IInv

LEMMA ReturnStep ==
  ASSUME IInv, SyscallReturn \/ NextChar
  PROVE  IInv'
<1>1. hart = "kernel" /\ pending' \subseteq {"SSI", "SEI"}
      /\ UNCHANGED <<queueVars, taskVars, uctx>>
  BY DEF SyscallReturn, NextChar, At, MayInterrupt, IInv, TypeOK
<1>2. \E point \in {"task_entry", "dump", "fault"} : Goto(point)
  BY DEF SyscallReturn, NextChar
<1>3. \A point \in {"task_entry", "dump", "fault"} :
        point \in KPoint /\ Bounded(point) /\ point # "trap_return"
  BY DEF KPoint, Traps, Bounded
<1> QED BY <1>1, <1>2, <1>3, GotoStep

\* wait() and SYS_yield leave a task that can be switched to.
LEMMA SaveSupervisor ==
  ASSUME IInv, hart = "kernel", NEW point \in Frame,
         point # "trap_return", save_supervisor(point)
  PROVE  TaskTypes' /\ Parked'
<1>1. /\ mode' = [mode EXCEPT ![current_task] = "SUPERVISOR"]
      /\ kernel_frame' = [kernel_frame EXCEPT ![current_task] = point]
      /\ UNCHANGED <<next_task_id, live, gen, user_frame, pending, uctx>>
  BY DEF save_supervisor
<1>2. point \in KPoint
  BY DEF Frame, KPoint, Traps, InPoints, OutPoints
<1>3. TaskTypes'
  BY <1>1, <1>2, InKernel DEF TaskTypes
<1>4. Parked'
  <2> SUFFICES ASSUME NEW t \in live
               PROVE  /\ (mode'[t] = "USER") <=> (kernel_frame'[t] = "trap_return")
                      /\ user_frame'[t] = uctx'[t]
    BY <1>1 DEF Parked
  <2>1. t \in Pid
    BY InKernel DEF TaskTypes
  <2>2. CASE t = current_task
    BY <1>1, <2>1, <2>2, InKernel DEF TaskTypes
  <2>3. CASE t # current_task
    BY <1>1, <2>1, <2>3, InKernel DEF TaskTypes
  <2> QED BY <2>2, <2>3
<1> QED BY <1>3, <1>4

LEMMA WaitStep ==
  ASSUME IInv, NEW group \in WaitGroup, Wait(group)
  PROVE  IInv'
<1>1. hart = "kernel" /\ kpc \in InPoints \cup OutPoints
      /\ save_supervisor(ResumeOf[kpc])
  BY DEF Wait, At
<1>2. ResumeOf[kpc] \in Frame /\ ResumeOf[kpc] # "trap_return"
  BY <1>1 DEF InPoints, OutPoints, ResumeOf, Frame
<1>3. TaskTypes' /\ Parked'
  BY <1>1, <1>2, SaveSupervisor
<1>4. push(list, group, current_task_node) \in [ListName -> Seq(Node)]
  <2>1. group \in ListName
    BY DEF ListName
  <2> QED BY <1>1, <2>1, InKernel, ListTypes
<1>5. trapframe \in Ctx \cup {KernelCtx} /\ list \in [ListName -> Seq(Node)]
  BY <1>1, InKernel
<1>6. CASE schedule(push(list, group, current_task_node), trapframe)
  BY <1>1, <1>3, <1>4, <1>5, <1>6, Schedule
<1>7. CASE UNCHANGED list /\ corrupt
  BY <1>3, <1>5, <1>7, Corrupt
<1> QED BY <1>6, <1>7 DEF Wait

LEMMA YieldStep ==
  ASSUME IInv, Yield
  PROVE  IInv'
<1>1. hart = "kernel" /\ save_supervisor("task_entry")
      /\ schedule_next(trapframe)
  BY DEF Yield, At
<1>2. TaskTypes' /\ Parked'
  BY <1>1, SaveSupervisor DEF Frame
<1>3. trapframe \in Ctx \cup {KernelCtx}
  BY <1>1, InKernel
<1> QED BY <1>1, <1>2, <1>3, ScheduleNext

LEMMA ForkStep ==
  ASSUME IInv, Fork
  PROVE  IInv'
<1> DEFINE child == next_task_id
<1>1. /\ hart = "kernel" /\ kpc = "fork" /\ kpc' = "task_entry"
      /\ next_task_id' = child + 1 /\ live' = live \cup {child}
      /\ mode' = [mode EXCEPT ![child] = "SUPERVISOR"]
      /\ kernel_frame' = [kernel_frame EXCEPT ![child] = "task_entry"]
      /\ list' = push(list, "tasks", NodeOf(child))
      /\ user_frame' = [user_frame EXCEPT ![child] = user_frame[current_task]]
      /\ uctx' = [uctx EXCEPT ![child] = uctx[current_task]]
      /\ UNCHANGED <<gen, current_task_node, current_task, pending, hart,
                     scause, regs, trapframe, satp, sie>>
  BY DEF Fork, At, Goto, task_init_sched, NodeOf
<1>2. child <= MaxPid
  BY <1>1, InKernel DEF Bounded
<1>3. child \in Pid /\ child + 1 \in 1..(MaxPid + 1)
  BY <1>1, <1>2, InKernel, ConstantsAssumption DEF TaskTypes, Pid
<1>4. NodeOf(child) \in Node
  BY <1>1, <1>3, InKernel DEF TaskTypes, NodeOf, Node
<1>5. list' \in [ListName -> Seq(Node)]
  <2>1. "tasks" \in ListName
    BY DEF ListName
  <2> QED BY <1>1, <1>4, <2>1, InKernel, ListTypes
<1>6. TypeOK' /\ \A t \in Pid : kernel_frame'[t] \in Frame
  <2>1. "task_entry" \in Frame /\ "task_entry" \in KPoint
    BY DEF Frame, KPoint
  <2>2. current_task \in Pid
    BY <1>1, InKernel
  <2> QED BY <1>1, <1>3, <1>5, <2>1, <2>2 DEF IInv, TypeOK
<1>7. \A t \in live : t \in Pid
  BY <1>1, InKernel DEF TaskTypes
<1>8. \A t \in live' : user_frame'[t] = uctx'[t]
  BY <1>1, <1>3, <1>7, InKernel DEF TaskTypes
<1>9. \A t \in live' \ {current_task'} :
        (mode'[t] = "USER") <=> (kernel_frame'[t] = "trap_return")
  BY <1>1, <1>3, <1>7, InKernel DEF TaskTypes
<1>10. Handling' /\ Current' /\ Saved'
  BY <1>1, <1>8, InKernel DEF Handling, Bounded, KPoint, Current, Saved
<1>11. ContextIntegrity' /\ ResumePoints' /\ InterruptsOff'
       /\ OwnAddressSpace' /\ WorkConserving'
  BY <1>1, <1>9, InKernel
     DEF ContextIntegrity, ResumePoints, InterruptsOff, OwnAddressSpace,
         WorkConserving
<1> QED BY <1>1, <1>6, <1>10, <1>11 DEF IInv

LEMMA ExitStep ==
  ASSUME IInv, Exit
  PROVE  IInv'
<1> DEFINE l == list_remove(list, NodeOf(current_task))
<1>1. /\ hart = "kernel" /\ live' = live \ {current_task}
      /\ UNCHANGED <<next_task_id, gen, mode, kernel_frame, user_frame,
                     pending, uctx>>
      /\ schedule(l, trapframe)
  BY DEF Exit, At
<1>2. TaskTypes' /\ Parked'
  BY <1>1, InKernel DEF TaskTypes, Parked
<1>3. NodeOf(current_task) \in Node
  BY <1>1, InKernel DEF TaskTypes, NodeOf, Node
<1>4. l \in [ListName -> Seq(Node)] /\ trapframe \in Ctx \cup {KernelCtx}
  <2>1. "tasks" \in ListName
    BY DEF ListName
  <2>2. /\ list \in [ListName -> Seq(Node)]
        /\ trapframe \in Ctx \cup {KernelCtx}
    BY <1>1, InKernel
  <2> QED BY <1>3, <2>1, <2>2, ListTypes
<1> HIDE DEF l
<1> QED BY <1>1, <1>2, <1>4, Schedule

LEMMA ExecveFaultStep ==
  ASSUME IInv, ExecveFault
  PROVE  IInv'
<1>1. /\ hart = "kernel" /\ trapframe' = KernelCtx /\ kpc' = "task_entry"
      /\ kernel_frame' = [kernel_frame EXCEPT ![current_task] = "user_memcpy"]
      /\ UNCHANGED <<list, current_task_node, current_task, next_task_id, live,
                     gen, mode, user_frame, hart, scause, regs, satp, sie,
                     pending, uctx>>
  BY DEF ExecveFault, At, queueVars
<1>2. TypeOK' /\ \A t \in Pid : kernel_frame'[t] \in Frame
  <2>1. "user_memcpy" \in Frame /\ "user_memcpy" \in KPoint
        /\ "task_entry" \in KPoint
    BY DEF Frame, KPoint
  <2> QED BY <1>1, <2>1 DEF IInv, TypeOK
<1>3. Handling' /\ Current' /\ Saved'
  BY <1>1, InKernel DEF Handling, Bounded, KPoint, Current, Saved
<1>4. ContextIntegrity' /\ ResumePoints' /\ InterruptsOff'
      /\ OwnAddressSpace' /\ WorkConserving'
  BY <1>1, InKernel
     DEF TaskTypes, ContextIntegrity, ResumePoints, InterruptsOff,
         OwnAddressSpace, WorkConserving
<1> QED BY <1>1, <1>2, <1>3, <1>4 DEF IInv

LEMMA ExecveStep ==
  ASSUME IInv, Execve
  PROVE  IInv'
<1> DEFINE n == [value |-> current_task, gen |-> gen'[current_task]]
           l == list_remove(list, NodeOf(current_task))
<1>1. /\ hart = "kernel" /\ kpc = "execve" /\ gen[current_task] < MaxGen
      /\ gen' = [gen EXCEPT ![current_task] = @ + 1]
      /\ mode' = [mode EXCEPT ![current_task] = "SUPERVISOR"]
      /\ kernel_frame' = [kernel_frame EXCEPT ![current_task] = "task_entry"]
      /\ list' = push(l, "tasks", n)
      /\ user_frame' = [user_frame EXCEPT ![current_task] = InitCtx]
      /\ uctx' = [uctx EXCEPT ![current_task] = InitCtx]
      /\ kpc' = kernel_frame'[current_task]
      /\ UNCHANGED <<next_task_id, live, current_task_node, current_task,
                     pending, hart, scause, regs, trapframe, satp, sie>>
  BY DEF Execve, At, Goto, task_init_sched, load_elf
<1>2. current_task \in Pid /\ gen[current_task] < MaxGen
  BY <1>1, InKernel
<1>3. gen'[current_task] \in 0..MaxGen /\ gen' \in [Pid -> 0..MaxGen]
  BY <1>1, <1>2, InKernel, ConstantsAssumption DEF TaskTypes
<1>4. n \in Node /\ NodeOf(current_task) \in Node
  BY <1>1, <1>2, <1>3, InKernel DEF TaskTypes, NodeOf, Node
<1>5. list' \in [ListName -> Seq(Node)]
  <2>1. "tasks" \in ListName
    BY DEF ListName
  <2>2. list \in [ListName -> Seq(Node)]
    BY <1>1, InKernel
  <2>3. l \in [ListName -> Seq(Node)]
    BY <1>4, <2>1, <2>2, ListTypes
  <2> HIDE DEF l, n
  <2> QED BY <1>1, <1>4, <2>1, <2>3, ListTypes
<1>6. kpc' = "task_entry"
  BY <1>1, <1>2, InKernel DEF TaskTypes
<1>7. TypeOK' /\ \A t \in Pid : kernel_frame'[t] \in Frame
  <2>1. "task_entry" \in Frame /\ "task_entry" \in KPoint
    BY DEF Frame, KPoint
  <2> QED BY <1>1, <1>3, <1>5, <1>6, <2>1, ConstantsAssumption DEF IInv, TypeOK
<1>8. Handling' /\ Current' /\ Saved'
  BY <1>1, <1>2, <1>6, InKernel
     DEF TaskTypes, Handling, Bounded, KPoint, Current, Saved
<1>9. ContextIntegrity' /\ ResumePoints' /\ InterruptsOff'
      /\ OwnAddressSpace' /\ WorkConserving'
  BY <1>1, InKernel
     DEF TaskTypes, ContextIntegrity, ResumePoints, InterruptsOff,
         OwnAddressSpace, WorkConserving
<1> QED BY <1>1, <1>7, <1>8, <1>9 DEF IInv

LEMMA PanicStep ==
  ASSUME IInv, hart = "kernel", panic
  PROVE  IInv'
<1>1. /\ hart' = "panic"
      /\ UNCHANGED <<list, current_task_node, current_task, next_task_id, live,
                     gen, mode, kernel_frame, user_frame, kpc, scause, regs,
                     trapframe, satp, sie, pending, uctx>>
  BY DEF panic, queueVars, taskVars
<1>2. TypeOK'
  BY <1>1 DEF IInv, TypeOK
<1>3. \A t \in live : user_frame[t] = uctx[t]
  BY InKernel
<1> QED
  BY <1>1, <1>2, <1>3
     DEF IInv, Handling, Current, Saved, ContextIntegrity, ResumePoints,
         InterruptsOff, OwnAddressSpace, WorkConserving

-----------------------------------------------------------------------------
(* User mode and interrupts                                                *)

\* What the invariant says while a program runs.
LEMMA InUser ==
  ASSUME IInv, hart = "user"
  PROVE  /\ current_task \in Pid /\ current_task_node \in Node
         /\ regs \in Ctx /\ regs = uctx[current_task]
         /\ satp = current_task /\ current_task \in live
         /\ TaskTypes /\ list \in [ListName -> Seq(Node)]
         /\ kernel_frame[current_task] = "trap_return"
         /\ \A t \in live \ {current_task} :
              /\ user_frame[t] = uctx[t]
              /\ (mode[t] = "USER") <=> (kernel_frame[t] = "trap_return")
BY DEF IInv, TypeOK, TaskTypes, Current, Saved, ContextIntegrity, ResumePoints,
       OwnAddressSpace

LEMMA UserStepStep ==
  ASSUME IInv, UserStep
  PROVE  IInv'
<1>1. PICK c \in Ctx : regs' = c /\ uctx' = [uctx EXCEPT ![current_task] = c]
  BY DEF UserStep
<1>2. /\ hart = "user"
      /\ UNCHANGED <<list, current_task_node, current_task, next_task_id, live,
                     gen, mode, kernel_frame, user_frame, hart, kpc, scause,
                     trapframe, satp, sie, pending>>
  BY DEF UserStep, queueVars, taskVars
<1>3. TypeOK'
  BY <1>1, <1>2 DEF IInv, TypeOK
<1>4. Handling' /\ Current' /\ Saved'
  BY <1>1, <1>2, InUser DEF TaskTypes, Handling, Current, Saved
<1>5. ContextIntegrity' /\ ResumePoints' /\ InterruptsOff'
      /\ OwnAddressSpace' /\ WorkConserving'
  BY <1>1, <1>2, InUser
     DEF TaskTypes, ContextIntegrity, ResumePoints, InterruptsOff,
         OwnAddressSpace, WorkConserving
<1> QED BY <1>1, <1>2, <1>3, <1>4, <1>5 DEF IInv

LEMMA UserTrapStep ==
  ASSUME IInv, NEW cause \in Workload, UserTrap(cause)
  PROVE  IInv'
<1>1. /\ hart = "user" /\ hart' = "kernel" /\ trapframe' = regs
      /\ user_frame' = [user_frame EXCEPT ![current_task] = regs]
      /\ kpc' = kernel_frame[current_task] /\ scause' = cause
      /\ regs' = KernelCtx /\ sie' = FALSE
      /\ UNCHANGED <<list, current_task_node, current_task, next_task_id, live,
                     gen, mode, kernel_frame, satp, pending, uctx>>
  BY DEF UserTrap, save_user_frame, queueVars
<1>2. cause \in Traps
  BY ConstantsAssumption
<1>3. cause = "fork" => next_task_id <= MaxPid
  BY DEF UserTrap
<1>4. kpc' = "trap_return"
  BY <1>1, InUser
<1>5. TypeOK'
  <2>1. "trap_return" \in KPoint
    BY DEF KPoint
  <2>2. regs \in Ctx
    BY <1>1, InUser
  <2> QED BY <1>1, <1>2, <1>4, <2>1, <2>2 DEF IInv, TypeOK
<1>6. Handling' /\ Current' /\ Saved'
  <2>1. Handling'
    BY <1>1, <1>2, <1>3, <1>4 DEF Handling, Bounded, KPoint
  <2>2. Current'
    BY <1>1, InUser DEF Current
  <2>3. Saved'
    BY <1>1, InUser DEF TaskTypes, Saved
  <2> QED BY <2>1, <2>2, <2>3
<1>7. ContextIntegrity' /\ ResumePoints' /\ InterruptsOff'
      /\ OwnAddressSpace' /\ WorkConserving'
  BY <1>1, InUser
     DEF ContextIntegrity, ResumePoints, InterruptsOff, OwnAddressSpace,
         WorkConserving
<1> QED BY <1>1, <1>5, <1>6, <1>7 DEF IInv

LEMMA PreemptUserStep ==
  ASSUME IInv, PreemptUser
  PROVE  IInv'
<1>1. /\ hart = "user" /\ pending' = pending \ {"SSI"}
      /\ user_frame' = [user_frame EXCEPT ![current_task] = regs]
      /\ mode' = [mode EXCEPT ![current_task] = "USER"]
      /\ UNCHANGED <<next_task_id, live, gen, kernel_frame, uctx>>
      /\ schedule_next(regs)
  BY DEF PreemptUser
<1>2. TaskTypes'
  BY <1>1, InUser DEF TaskTypes
<1>3. Parked'
  <2> SUFFICES ASSUME NEW t \in live
               PROVE  /\ (mode'[t] = "USER") <=> (kernel_frame'[t] = "trap_return")
                      /\ user_frame'[t] = uctx'[t]
    BY <1>1 DEF Parked
  <2>1. t \in Pid
    BY <1>1, InUser DEF TaskTypes
  <2>2. CASE t = current_task
    BY <1>1, <2>1, <2>2, InUser DEF TaskTypes
  <2>3. CASE t # current_task
    BY <1>1, <2>1, <2>3, InUser DEF TaskTypes
  <2> QED BY <2>2, <2>3
<1>4. regs \in Ctx \cup {KernelCtx}
  BY <1>1, InUser
<1> QED BY <1>1, <1>2, <1>3, <1>4, ScheduleNext

\* Interrupts taken from the kernel come from idle(): schedule() follows.
LEMMA IdleInterrupt ==
  ASSUME IInv, hart \in {"idle", "kernel"}, sie
  PROVE  /\ hart = "idle" /\ current_task = NULL
         /\ regs \in Ctx \cup {KernelCtx} /\ list \in [ListName -> Seq(Node)]
         /\ TaskTypes /\ Parked
<1>1. hart = "idle"
  BY DEF IInv, InterruptsOff
<1>2. current_task = NULL
  BY <1>1 DEF IInv, Current
<1>3. NULL \notin live
  BY ConstantsAssumption DEF IInv, TypeOK
<1> QED BY <1>1, <1>2, <1>3
        DEF IInv, TypeOK, TaskTypes, Parked, Saved, ResumePoints

LEMMA TimerInKernelStep ==
  ASSUME IInv, TimerInKernel
  PROVE  IInv'
<1>1. hart \in {"idle", "kernel"} /\ sie /\ pending' = pending \ {"SSI"}
      /\ UNCHANGED <<next_task_id, live, gen, user_frame, uctx>>
  BY DEF TimerInKernel
<1>2. /\ hart = "idle" /\ current_task = NULL /\ TaskTypes /\ Parked
      /\ regs \in Ctx \cup {KernelCtx} /\ list \in [ListName -> Seq(Node)]
  BY <1>1, IdleInterrupt
<1>3. UNCHANGED <<mode, kernel_frame>> /\ schedule(list, regs)
  BY <1>2 DEF TimerInKernel
<1>4. TaskTypes' /\ Parked'
  BY <1>1, <1>2, <1>3 DEF TaskTypes, Parked
<1> QED BY <1>2, <1>3, <1>4, Schedule

LEMMA ExternalInKernelStep ==
  ASSUME IInv, NEW groups \in SUBSET WaitGroup, ExternalInKernel(groups)
  PROVE  IInv'
<1>1. /\ hart \in {"idle", "kernel"} /\ sie
      /\ pending' \in {pending \ {"SEI"}, (pending \ {"SEI"}) \cup {"SEI"}}
      /\ UNCHANGED <<next_task_id, live, gen, mode, user_frame, uctx>>
  BY DEF ExternalInKernel, MayInterrupt
<1>2. /\ hart = "idle" /\ current_task = NULL /\ TaskTypes /\ Parked
      /\ regs \in Ctx \cup {KernelCtx} /\ list \in [ListName -> Seq(Node)]
  BY <1>1, IdleInterrupt
<1>3. UNCHANGED kernel_frame /\ schedule(Woken(groups), regs)
  BY <1>2 DEF ExternalInKernel
<1>4. TaskTypes' /\ Parked'
  BY <1>1, <1>2, <1>3 DEF TaskTypes, Parked
<1>5. Woken(groups) \in [ListName -> Seq(Node)]
  BY <1>2, WokenTypes
<1> QED BY <1>2, <1>3, <1>4, <1>5, Schedule

LEMMA ExternalInUserStep ==
  ASSUME IInv, NEW groups \in SUBSET WaitGroup, ExternalInUser(groups)
  PROVE  IInv'
<1>1. /\ hart = "user" /\ hart' = "user" /\ list' = Woken(groups)
      /\ pending' \in {pending \ {"SEI"}, (pending \ {"SEI"}) \cup {"SEI"}}
      /\ trapframe' = regs /\ regs' = trapframe' /\ kpc' = NULL
      /\ sie' = TRUE /\ scause' = scause
      /\ UNCHANGED <<current_task_node, current_task, next_task_id, live, gen,
                     mode, kernel_frame, user_frame, satp, uctx>>
  BY DEF ExternalInUser, MayInterrupt, return_to_user, taskVars
<1>2. list' \in [ListName -> Seq(Node)] /\ regs \in Ctx
  BY <1>1, InUser, WokenTypes
<1>3. TypeOK'
  BY <1>1, <1>2 DEF IInv, TypeOK
<1>4. Handling' /\ Current' /\ Saved'
  BY <1>1, InUser DEF Handling, Current, Saved
<1>5. ContextIntegrity' /\ ResumePoints' /\ InterruptsOff'
      /\ OwnAddressSpace' /\ WorkConserving'
  BY <1>1, InUser
     DEF ContextIntegrity, ResumePoints, InterruptsOff, OwnAddressSpace,
         WorkConserving
<1> QED BY <1>1, <1>2, <1>3, <1>4, <1>5 DEF IInv

\* Steps that at most raise an interrupt.
LEMMA PendingStep ==
  ASSUME IInv, UNCHANGED <<queueVars, taskVars, hartVars, uctx>>,
         pending' \subseteq {"SSI", "SEI"}
  PROVE  IInv'
<1>1. UNCHANGED <<list, current_task_node, current_task, next_task_id, live,
                  gen, mode, kernel_frame, user_frame, hart, kpc, scause, regs,
                  trapframe, satp, sie, uctx>>
  BY DEF queueVars, taskVars, hartVars
<1>2. TypeOK'
  BY <1>1 DEF IInv, TypeOK
<1> QED
  BY <1>1, <1>2
     DEF IInv, Handling, Bounded, Current, Saved, ContextIntegrity,
         ResumePoints, InterruptsOff, OwnAddressSpace, WorkConserving

-----------------------------------------------------------------------------
(* The invariant                                                           *)

LEMMA InitIInv == Init => IInv
<1> SUFFICES ASSUME Init PROVE IInv
  OBVIOUS
<1>1. 1 \in Pid /\ 2 \in 1..(MaxPid + 1) /\ 0 \in 0..MaxGen
  BY ConstantsAssumption DEF Pid
<1>2. list \in [ListName -> Seq(Node)]
  <2>1. [value |-> 1, gen |-> 0] \in Node
    BY <1>1 DEF Node
  <2>2. <<[value |-> 1, gen |-> 0]>> \in Seq(Node) /\ << >> \in Seq(Node)
    BY <2>1
  <2> QED BY <2>2 DEF Init
<1>3. "task_entry" \in KPoint /\ "task_entry" \in Frame
  BY DEF KPoint, Frame
<1>4. TypeOK /\ \A t \in Pid : kernel_frame[t] \in Frame
  BY <1>1, <1>2, <1>3, ConstantsAssumption DEF Init, TypeOK
<1>5. \A t \in live : t \in Pid
  BY <1>1 DEF Init
<1> QED
  BY <1>4, <1>5
     DEF Init, IInv, Handling, Current, Saved, ContextIntegrity, ResumePoints,
         InterruptsOff, OwnAddressSpace, WorkConserving

LEMMA KernelStepIInv == IInv /\ KernelStep => IInv'
<1> SUFFICES ASSUME IInv, KernelStep PROVE IInv'
  OBVIOUS
<1>1. CASE Boot \/ YieldToUser \/ Dispatch
  BY <1>1, BootStep, YieldToUserStep, DispatchStep
<1>2. CASE SyscallReturn \/ NextChar
  BY <1>2, ReturnStep
<1>3. ASSUME NEW g \in WaitGroup, Wait(g) PROVE IInv'
  BY <1>3, WaitStep
<1>4. CASE Yield \/ Fork \/ Exit
  BY <1>4, YieldStep, ForkStep, ExitStep
<1>5. CASE KillInit \/ AllocPanic
  <2>1. hart = "kernel" /\ panic
    BY <1>5 DEF KillInit, AllocPanic, At
  <2> QED BY <2>1, PanicStep
<1>6. CASE ExecveFault \/ Execve
  BY <1>6, ExecveFaultStep, ExecveStep
<1> QED BY <1>1, <1>2, <1>3, <1>4, <1>5, <1>6 DEF KernelStep

LEMMA InterruptIInv == IInv /\ Interrupt => IInv'
<1> SUFFICES ASSUME IInv, Interrupt PROVE IInv'
  OBVIOUS
<1>1. CASE PreemptUser \/ TimerInKernel
  BY <1>1, PreemptUserStep, TimerInKernelStep
<1>2. ASSUME NEW groups \in SUBSET WaitGroup,
             ExternalInUser(groups) \/ ExternalInKernel(groups)
      PROVE  IInv'
  BY <1>2, ExternalInUserStep, ExternalInKernelStep
<1> QED BY <1>1, <1>2 DEF Interrupt

LEMMA StepIInv == IInv /\ [Next]_vars => IInv'
<1> SUFFICES ASSUME IInv, [Next]_vars PROVE IInv'
  OBVIOUS
<1>1. pending \subseteq {"SSI", "SEI"}
  BY DEF IInv, TypeOK
<1>2. CASE UserStep
  BY <1>2, UserStepStep
<1>3. ASSUME NEW cause \in Workload, UserTrap(cause) PROVE IInv'
  BY <1>3, UserTrapStep
<1>4. CASE KernelStep
  BY <1>4, KernelStepIInv
<1>5. CASE Interrupt
  BY <1>5, InterruptIInv
<1>6. CASE TimerTick \/ DeviceInterrupt
  BY <1>1, <1>6, PendingStep DEF TimerTick, DeviceInterrupt
<1>7. CASE Halted \/ UNCHANGED vars
  BY <1>1, <1>7, PendingStep DEF Halted, vars
<1> QED BY <1>2, <1>3, <1>4, <1>5, <1>6, <1>7 DEF Next

LEMMA Invariant == Spec => []IInv
BY InitIInv, StepIInv, PTL DEF Spec

-----------------------------------------------------------------------------

\* The variables keep their types, whatever programs do: kernel threads reach
\* only the points the code has (task_entry, syscall), and the trap frame a
\* program is resumed from holds a user context.
THEOREM TypeCorrect == Spec => []TypeOK
<1>1. IInv => TypeOK
  BY DEF IInv
<1> QED BY Invariant, <1>1, PTL

\* A program always runs with the registers it left user mode with: neither
\* the shared trap frame nor a switch mixes them up (trap_handler,
\* do_schedule, yield_to_user).
THEOREM RegistersKept == Spec => []ContextIntegrity
<1>1. IInv => ContextIntegrity
  BY DEF IInv
<1> QED BY Invariant, <1>1, PTL

\* mode and kernel_frame agree on where a task goes on (wait, SYS_yield,
\* handle_interrupt, task_init_sched, yield_to_user).
THEOREM ResumesWhereItStopped == Spec => []ResumePoints
<1>1. IInv => ResumePoints
  BY DEF IInv
<1> QED BY Invariant, <1>1, PTL

\* No interrupt is ever taken in a kernel thread, which is why the driver, the
\* lists and the allocator need no lock (klongjmp keeps SIE clear).
THEOREM NoInterruptInThreads == Spec => []InterruptsOff
<1>1. IInv => InterruptsOff
  BY DEF IInv
<1> QED BY Invariant, <1>1, PTL

\* Programs and kernel threads run in the address space of a task that has not
\* been destroyed (do_schedule, task_destroy).
THEOREM RunsInOwnSpace == Spec => []OwnAddressSpace
<1>1. IInv => OwnAddressSpace
  BY DEF IInv
<1> QED BY Invariant, <1>1, PTL

\* The hart idles only on an empty run queue (do_schedule, kernel_trap).
THEOREM IdlesOnlyWhenEmpty == Spec => []WorkConserving
<1>1. IInv => WorkConserving
  BY DEF IInv
<1> QED BY Invariant, <1>1, PTL

-----------------------------------------------------------------------------
(* The queues: as long as no execve succeeds, every live task runs or is   *)
(* on exactly one list, by a node that is allocated.  task_reinit, which a *)
(* successful execve calls, frees the running task's node and queues the   *)
(* running task: from there on none of this holds.                         *)

\* A task has one place: nodes in two places are nodes of two tasks.
Distinct(l) ==
  \A a, b \in ListName : \A i \in 1..Len(l[a]), j \in 1..Len(l[b]) :
    l[a][i].value = l[b][j].value => a = b /\ i = j

\* The nodes on lists l are those of tasks, with the number they began with.
NodesOf(l, tasks) ==
  \A a \in ListName : \A i \in 1..Len(l[a]) :
    l[a][i].value \in tasks /\ l[a][i].gen = 0

Listed(l, t) == \E a \in ListName : \E i \in 1..Len(l[a]) : l[a][i].value = t

\* Lists l hold each of tasks once, and nothing else.
Queues(l, tasks) ==
  /\ l \in [ListName -> Seq(Node)]
  /\ Distinct(l)
  /\ NodesOf(l, tasks)
  /\ \A t \in tasks : Listed(l, t)

\* current_task_node is the node of the running task.
OwnNode ==
  IF current_task = NULL THEN current_task_node = NULL
  ELSE /\ current_task \in live
       /\ current_task_node = [value |-> current_task, gen |-> 0]

\* The inductive invariant.  A new task's number is above those in use, or
\* fork could queue a task that is queued already.
QInv ==
  /\ gen = [t \in Pid |-> 0]
  /\ hart # "corrupt"
  /\ \A t \in live : t < next_task_id
  /\ OwnNode
  /\ Queues(list, live \ {current_task})

-----------------------------------------------------------------------------
(* The operations on lists                                                 *)

\* list_push of the node of a task that is on no list.
LEMMA PushQueues ==
  ASSUME NEW l, NEW tasks, Queues(l, tasks), NEW name \in ListName,
         NEW n \in Node, n.gen = 0, n.value \notin tasks
  PROVE  Queues(push(l, name, n), tasks \cup {n.value})
<1> DEFINE m == push(l, name, n)
           k == Len(l[name])
<1>1. l \in [ListName -> Seq(Node)] /\ m \in [ListName -> Seq(Node)]
  BY ListTypes DEF Queues
<1>2. /\ l[name] \in Seq(Node) /\ k \in Nat
      /\ Len(m[name]) = k + 1 /\ m[name][k + 1] = n
      /\ \A i \in 1..k : m[name][i] = l[name][i]
  BY <1>1 DEF push
<1>3. \A a \in ListName \ {name} : m[a] = l[a]
  BY <1>1 DEF push
<1>4. ASSUME NEW a \in ListName, NEW i \in 1..Len(m[a])
      PROVE  \/ i \in 1..Len(l[a]) /\ m[a][i] = l[a][i]
             \/ a = name /\ i = k + 1 /\ m[a][i] = n
  <2>1. CASE a = name
    <3>1. i \in 1..(k + 1)
      BY <1>2, <2>1
    <3> QED BY <1>2, <2>1, <3>1
  <2>2. CASE a # name
    BY <1>3, <2>2
  <2> QED BY <2>1, <2>2
<1> HIDE DEF m
<1>5. Distinct(m)
  <2> SUFFICES ASSUME NEW a \in ListName, NEW b \in ListName,
                      NEW i \in 1..Len(m[a]), NEW j \in 1..Len(m[b]),
                      m[a][i].value = m[b][j].value
               PROVE  a = b /\ i = j
    BY DEF Distinct
  <2>1. \/ i \in 1..Len(l[a]) /\ m[a][i] = l[a][i]
        \/ a = name /\ i = k + 1 /\ m[a][i] = n
    BY <1>4
  <2>2. \/ j \in 1..Len(l[b]) /\ m[b][j] = l[b][j]
        \/ b = name /\ j = k + 1 /\ m[b][j] = n
    BY <1>4
  <2>3. \A c \in ListName : \A o \in 1..Len(l[c]) : l[c][o].value # n.value
    BY DEF Queues, NodesOf
  <2>4. CASE i \in 1..Len(l[a]) /\ m[a][i] = l[a][i]
    <3>1. j \in 1..Len(l[b]) /\ m[b][j] = l[b][j]
      BY <2>2, <2>3, <2>4
    <3> QED BY <2>4, <3>1 DEF Queues, Distinct
  <2>5. CASE a = name /\ i = k + 1 /\ m[a][i] = n
    BY <2>2, <2>3, <2>5
  <2> QED BY <2>1, <2>4, <2>5
<1>6. NodesOf(m, tasks \cup {n.value})
  BY <1>4 DEF Queues, NodesOf
<1>7. ASSUME NEW t \in tasks \cup {n.value}
      PROVE  Listed(m, t)
  <2>1. CASE t = n.value
    <3>1. k + 1 \in 1..Len(m[name])
      BY <1>2
    <3> QED BY <1>2, <2>1, <3>1 DEF Listed
  <2>2. CASE t \in tasks
    <3>0. PICK a \in ListName : \E i \in 1..Len(l[a]) : l[a][i].value = t
      BY <2>2 DEF Queues, Listed
    <3>1. PICK i \in 1..Len(l[a]) : l[a][i].value = t
      BY <3>0
    <3>2. i \in 1..Len(m[a]) /\ m[a][i] = l[a][i]
      BY <1>2, <1>3, <3>1
    <3> QED BY <3>1, <3>2 DEF Listed
  <2> QED BY <2>1, <2>2
<1> QED BY <1>1, <1>5, <1>6, <1>7 DEF Queues, m

\* do_schedule takes the first node off the run queue.
LEMMA TakeQueues ==
  ASSUME NEW l, NEW tasks, Queues(l, tasks), l["tasks"] # << >>
  PROVE  /\ Head(l["tasks"]) \in Node
         /\ Head(l["tasks"]).value \in tasks /\ Head(l["tasks"]).gen = 0
         /\ Queues([l EXCEPT !["tasks"] = Tail(l["tasks"])],
                   tasks \ {Head(l["tasks"]).value})
<1> DEFINE s == l["tasks"]
           n == Head(s)
           m == [l EXCEPT !["tasks"] = Tail(s)]
<1>1. "tasks" \in ListName /\ l \in [ListName -> Seq(Node)]
  BY DEF ListName, Queues
<1>2. s \in Seq(Node) /\ Len(s) \in Nat /\ Len(s) > 0
  BY <1>1, EmptySeq
<1>3. /\ n \in Node /\ n = s[1] /\ Tail(s) \in Seq(Node)
      /\ Len(Tail(s)) = Len(s) - 1
      /\ \A i \in 1..(Len(s) - 1) : Tail(s)[i] = s[i + 1]
  BY <1>2, HeadTailProperties
<1>4. n.value \in tasks /\ n.gen = 0
  <2>1. 1 \in 1..Len(l["tasks"])
    BY <1>2
  <2> QED BY <1>1, <1>3, <2>1 DEF Queues, NodesOf
<1>5. /\ m \in [ListName -> Seq(Node)] /\ m["tasks"] = Tail(s)
      /\ \A a \in ListName \ {"tasks"} : m[a] = l[a]
  BY <1>1, <1>3
<1> DEFINE old(a, i) == IF a = "tasks" THEN i + 1 ELSE i
<1>6. ASSUME NEW a \in ListName, NEW i \in 1..Len(m[a])
      PROVE  /\ old(a, i) \in 1..Len(l[a]) /\ m[a][i] = l[a][old(a, i)]
             /\ a = "tasks" => old(a, i) # 1
  <2>1. CASE a = "tasks"
    <3>1. i \in 1..(Len(s) - 1)
      BY <1>3, <1>5, <2>1
    <3> QED BY <1>2, <1>3, <1>5, <2>1, <3>1
  <2>2. CASE a # "tasks"
    BY <1>5, <2>2
  <2> QED BY <2>1, <2>2
<1>7. Distinct(m)
  <2> SUFFICES ASSUME NEW a \in ListName, NEW b \in ListName,
                      NEW i \in 1..Len(m[a]), NEW j \in 1..Len(m[b]),
                      m[a][i].value = m[b][j].value
               PROVE  a = b /\ i = j
    BY DEF Distinct
  <2>1. /\ old(a, i) \in 1..Len(l[a]) /\ m[a][i] = l[a][old(a, i)]
        /\ old(b, j) \in 1..Len(l[b]) /\ m[b][j] = l[b][old(b, j)]
    BY <1>6
  <2> HIDE DEF m, old
  <2>2. a = b /\ old(a, i) = old(b, j)
    BY <2>1 DEF Queues, Distinct
  <2> QED BY <2>2 DEF old
<1>8. NodesOf(m, tasks \ {n.value})
  <2> SUFFICES ASSUME NEW a \in ListName, NEW i \in 1..Len(m[a])
               PROVE  /\ m[a][i].value \in tasks \ {n.value}
                      /\ m[a][i].gen = 0
    BY DEF NodesOf
  <2>1. /\ old(a, i) \in 1..Len(l[a]) /\ m[a][i] = l[a][old(a, i)]
        /\ a = "tasks" => old(a, i) # 1
    BY <1>6
  <2>2. 1 \in 1..Len(l["tasks"]) /\ n = l["tasks"][1]
    BY <1>2, <1>3
  <2> HIDE DEF m, old, n
  <2> QED BY <1>1, <2>1, <2>2 DEF Queues, NodesOf, Distinct
<1>9. ASSUME NEW t \in tasks \ {n.value}
      PROVE  Listed(m, t)
  <2>0. PICK a \in ListName : \E i \in 1..Len(l[a]) : l[a][i].value = t
    BY DEF Queues, Listed
  <2>1. PICK i \in 1..Len(l[a]) : l[a][i].value = t
    BY <2>0
  <2>2. CASE a = "tasks"
    <3>1. i # 1
      BY <1>3, <2>1, <2>2
    <3>2. i - 1 \in 1..(Len(s) - 1)
      BY <1>2, <2>1, <2>2, <3>1
    <3>3. i - 1 \in 1..Len(m["tasks"]) /\ m["tasks"][i - 1] = l[a][i]
      BY <1>3, <1>5, <2>1, <2>2, <3>2
    <3> HIDE DEF m
    <3> QED BY <1>1, <2>1, <2>2, <3>3 DEF Listed
  <2>3. CASE a # "tasks"
    <3>1. i \in 1..Len(m[a]) /\ m[a][i] = l[a][i]
      BY <1>5, <2>1, <2>3
    <3> HIDE DEF m
    <3> QED BY <2>1, <3>1 DEF Listed
  <2> QED BY <2>2, <2>3
<1> QED BY <1>3, <1>4, <1>5, <1>7, <1>8, <1>9 DEF Queues

\* list_remove of the node of a task that is on no list does nothing.
LEMMA RemoveNothing ==
  ASSUME NEW l, NEW tasks, Queues(l, tasks), NEW n \in Node,
         n.value \notin tasks
  PROVE  list_remove(l, n) = l
<1>1. l \in [ListName -> Seq(Node)]
  BY DEF Queues
<1>2. ASSUME NEW a \in ListName
      PROVE  {i \in 1..Len(l[a]) : l[a][i] = n} = {}
  BY DEF Queues, NodesOf
<1> QED BY <1>1, <1>2 DEF list_remove

\* wakeup of one wait group: its nodes go to the end of the run queue.
Wake(l, g) == [l EXCEPT !["tasks"] = l["tasks"] \o l[g], ![g] = << >>]

LEMMA WakeQueues ==
  ASSUME NEW l, NEW tasks, Queues(l, tasks), NEW g \in WaitGroup
  PROVE  Queues(Wake(l, g), tasks)
<1> DEFINE m == Wake(l, g)
           k == Len(l["tasks"])
           w == Len(l[g])
<1>1. /\ "tasks" \in ListName /\ g \in ListName /\ g # "tasks"
      /\ l \in [ListName -> Seq(Node)]
  BY DEF ListName, WaitGroup, Queues
<1>2. /\ l["tasks"] \in Seq(Node) /\ l[g] \in Seq(Node)
      /\ k \in Nat /\ w \in Nat
  BY <1>1
<1>3. /\ l["tasks"] \o l[g] \in Seq(Node)
      /\ Len(l["tasks"] \o l[g]) = k + w
      /\ \A i \in 1..(k + w) : (l["tasks"] \o l[g])[i] =
           IF i <= k THEN l["tasks"][i] ELSE l[g][i - k]
  BY <1>2, ConcatProperties
<1>4. /\ m \in [ListName -> Seq(Node)] /\ m["tasks"] = l["tasks"] \o l[g]
      /\ m[g] = << >>
      /\ \A a \in ListName \ {"tasks", g} : m[a] = l[a]
  <2> DEFINE joined == l["tasks"] \o l[g]
  <2>1. joined \in Seq(Node) /\ << >> \in Seq(Node)
    BY <1>3, EmptySeq
  <2>2. m = [l EXCEPT !["tasks"] = joined, ![g] = << >>]
    BY DEF Wake
  <2> HIDE DEF joined, m
  <2>3. m \in [ListName -> Seq(Node)]
    BY <1>1, <2>1, <2>2
  <2>4. m["tasks"] = joined /\ m[g] = << >>
    BY <1>1, <2>2
  <2>5. \A a \in ListName \ {"tasks", g} : m[a] = l[a]
    BY <1>1, <2>2
  <2> QED BY <2>3, <2>4, <2>5 DEF joined
<1> DEFINE from(a, i) == IF a = "tasks" /\ i > k THEN g ELSE a
           old(a, i) == IF a = "tasks" /\ i > k THEN i - k ELSE i
<1> HIDE DEF m, k, w
<1>5. ASSUME NEW a \in ListName, NEW i \in 1..Len(m[a])
      PROVE  /\ from(a, i) \in ListName
             /\ old(a, i) \in 1..Len(l[from(a, i)])
             /\ m[a][i] = l[from(a, i)][old(a, i)]
             /\ a # g
  <2>1. CASE a = "tasks"
    <3>1. i \in 1..(k + w)
      BY <1>3, <1>4, <2>1
    <3>2. CASE i > k
      <4>1. i - k \in 1..w
        BY <1>2, <3>1, <3>2
      <4>2. m[a][i] = l[g][i - k]
        <5> DEFINE joined == l["tasks"] \o l[g]
        <5>1. m[a] = joined
          BY <1>4, <2>1
        <5>2. joined[i] = IF i <= k THEN l["tasks"][i] ELSE l[g][i - k]
          BY <1>3, <3>1
        <5>3. ~(i <= k)
          BY <1>2, <3>1, <3>2
        <5> HIDE DEF joined
        <5> QED BY <5>1, <5>2, <5>3
      <4>3. from(a, i) = g /\ old(a, i) = i - k
        BY <2>1, <3>2
      <4> QED BY <1>1, <2>1, <4>1, <4>2, <4>3 DEF w
    <3>3. CASE ~(i > k)
      <4>1. i \in 1..k /\ i <= k
        BY <1>2, <3>1, <3>3
      <4>2. m[a][i] = l["tasks"][i]
        BY <1>3, <1>4, <2>1, <3>1, <4>1
      <4>3. from(a, i) = a /\ old(a, i) = i
        BY <3>3
      <4> QED BY <1>1, <2>1, <4>1, <4>2, <4>3 DEF k
    <3> QED BY <3>2, <3>3
  <2>2. CASE a = g
    BY <1>4, <2>2
  <2>3. CASE a \notin {"tasks", g}
    BY <1>4, <2>3
  <2> QED BY <2>1, <2>2, <2>3
<1>6. Distinct(m)
  <2> SUFFICES ASSUME NEW a \in ListName, NEW b \in ListName,
                      NEW i \in 1..Len(m[a]), NEW j \in 1..Len(m[b]),
                      m[a][i].value = m[b][j].value
               PROVE  a = b /\ i = j
    BY DEF Distinct
  <2>1. /\ from(a, i) \in ListName /\ old(a, i) \in 1..Len(l[from(a, i)])
        /\ m[a][i] = l[from(a, i)][old(a, i)] /\ a # g
    BY <1>5
  <2>2. /\ from(b, j) \in ListName /\ old(b, j) \in 1..Len(l[from(b, j)])
        /\ m[b][j] = l[from(b, j)][old(b, j)] /\ b # g
    BY <1>5
  <2> HIDE DEF from, old
  <2>3. from(a, i) = from(b, j) /\ old(a, i) = old(b, j)
    BY <2>1, <2>2 DEF Queues, Distinct
  <2>4. a = b
    BY <1>1, <2>1, <2>2, <2>3 DEF from
  <2> QED BY <1>1, <1>2, <2>3, <2>4 DEF from, old
<1>7. NodesOf(m, tasks)
  <2> SUFFICES ASSUME NEW a \in ListName, NEW i \in 1..Len(m[a])
               PROVE  m[a][i].value \in tasks /\ m[a][i].gen = 0
    BY DEF NodesOf
  <2>1. /\ from(a, i) \in ListName /\ old(a, i) \in 1..Len(l[from(a, i)])
        /\ m[a][i] = l[from(a, i)][old(a, i)]
    BY <1>5
  <2> HIDE DEF from, old
  <2> QED BY <2>1 DEF Queues, NodesOf
<1>8. ASSUME NEW t \in tasks
      PROVE  Listed(m, t)
  <2>0. PICK a \in ListName : \E i \in 1..Len(l[a]) : l[a][i].value = t
    BY DEF Queues, Listed
  <2>1. PICK i \in 1..Len(l[a]) : l[a][i].value = t
    BY <2>0
  <2>2. CASE a = "tasks"
    <3>0. i \in 1..k
      BY <2>1, <2>2 DEF k
    <3>1. i \in 1..(k + w) /\ i <= k
      BY <1>2, <3>0
    <3>2. i \in 1..Len(m["tasks"]) /\ m["tasks"][i] = l[a][i]
      BY <1>3, <1>4, <2>2, <3>1
    <3> QED BY <1>1, <2>1, <3>2 DEF Listed
  <2>3. CASE a = g
    <3> DEFINE h == k + i
    <3>1. h \in 1..(k + w) /\ ~(h <= k) /\ h - k = i
      <4>1. i \in 1..w
        BY <2>1, <2>3 DEF w
      <4> QED BY <1>2, <4>1
    <3> HIDE DEF h
    <3>2. h \in 1..Len(m["tasks"]) /\ m["tasks"][h] = l[a][i]
      BY <1>3, <1>4, <2>1, <2>3, <3>1
    <3> QED BY <1>1, <2>1, <3>2 DEF Listed
  <2>4. CASE a \notin {"tasks", g}
    <3>1. i \in 1..Len(m[a]) /\ m[a][i] = l[a][i]
      BY <1>4, <2>1, <2>4
    <3> QED BY <2>1, <3>1 DEF Listed
  <2> QED BY <2>2, <2>3, <2>4
<1> QED BY <1>4, <1>6, <1>7, <1>8 DEF Queues, m

\* uartintr wakes wait_in first, then wait_out.
LEMMA WokenQueues ==
  ASSUME NEW tasks, Queues(list, tasks), NEW groups \in SUBSET WaitGroup
  PROVE  Queues(Woken(groups), tasks)
<1> DEFINE l == IF "wait_in" \in groups THEN Wake(list, "wait_in") ELSE list
           m == IF "wait_out" \in groups THEN Wake(l, "wait_out") ELSE l
<1>1. "wait_in" \in WaitGroup /\ "wait_out" \in WaitGroup
  BY DEF WaitGroup
<1>2. Queues(l, tasks)
  BY <1>1, WakeQueues
<1>3. Queues(m, tasks)
  <2> HIDE DEF l
  <2> QED BY <1>1, <1>2, WakeQueues
<1>4. Woken(groups) = m
  <2>1. /\ list \in [ListName -> Seq(Node)]
        /\ ListName = {"tasks", "wait_in", "wait_out"}
    BY DEF Queues, ListName, WaitGroup
  <2>2. \A s \in Seq(Node) : s \o << >> = s
    BY ConcatEmptySeq
  <2>3. list["tasks"] \in Seq(Node) /\ list["wait_in"] \in Seq(Node)
    BY <2>1
  <2>4. list["tasks"] \o list["wait_in"] \in Seq(Node)
    BY <2>3, ConcatProperties
  <2>5. DOMAIN m = ListName /\ DOMAIN Woken(groups) = ListName
    BY <2>1 DEF Wake, Woken
  <2>6. ASSUME NEW a \in ListName PROVE Woken(groups)[a] = m[a]
    <3>1. CASE "wait_in" \in groups /\ "wait_out" \in groups
      BY <2>1, <2>2, <2>3, <2>4, <3>1 DEF Wake, Woken
    <3>2. CASE "wait_in" \in groups /\ "wait_out" \notin groups
      BY <2>1, <2>2, <2>3, <2>4, <3>2 DEF Wake, Woken
    <3>3. CASE "wait_in" \notin groups /\ "wait_out" \in groups
      BY <2>1, <2>2, <2>3, <2>4, <3>3 DEF Wake, Woken
    <3>4. CASE "wait_in" \notin groups /\ "wait_out" \notin groups
      BY <2>1, <2>2, <2>3, <2>4, <3>4 DEF Wake, Woken
    <3> QED BY <3>1, <3>2, <3>3, <3>4
  <2>7. m \in [ListName -> Seq(Node)]
    BY <1>3 DEF Queues
  <2>8. Woken(groups) = [a \in ListName |-> Woken(groups)[a]]
    BY DEF Woken
  <2> HIDE DEF m
  <2> QED BY <2>6, <2>7, <2>8
<1> QED BY <1>3, <1>4

-----------------------------------------------------------------------------
(* Switching                                                               *)

\* schedule(), called with the tasks that are live on the lists, each once.
LEMMA ScheduleQueues ==
  ASSUME IInv, NEW l, NEW frame, Queues(l, live'), live' \subseteq Pid,
         hart \in {"boot", "idle", "user", "kernel"},
         gen' = [t \in Pid |-> 0], \A t \in live' : t < next_task_id',
         schedule(l, frame)
  PROVE  QInv'
<1>1. NULL \notin live'
  BY ConstantsAssumption
<1>2. CASE l["tasks"] = << >>
  <2>1. /\ list' = l /\ hart' = "idle" /\ current_task' = NULL
        /\ current_task_node' = NULL
    BY <1>2 DEF schedule, idle
  <2>2. live' \ {current_task'} = live'
    BY <1>1, <2>1
  <2> QED BY <2>1, <2>2 DEF QInv, OwnNode
<1>3. CASE l["tasks"] # << >>
  <2> DEFINE n == Head(l["tasks"])
  <2>1. /\ n \in Node /\ n.value \in live' /\ n.gen = 0
        /\ Queues([l EXCEPT !["tasks"] = Tail(l["tasks"])], live' \ {n.value})
    BY <1>3, TakeQueues
  <2>2. ~IsDangling(n, live', gen')
    BY <2>1 DEF IsDangling
  <2>3. /\ list' = [l EXCEPT !["tasks"] = Tail(l["tasks"])]
        /\ run_task(n, frame)
    BY <1>3, <2>2 DEF schedule
  <2>4. current_task' = n.value /\ current_task_node' = n
        /\ hart' \in {"kernel", "user"}
    BY <2>3 DEF run_task, klongjmp, return_to_user
  <2>5. n = [value |-> n.value, gen |-> 0]
    BY <2>1 DEF Node
  <2>6. OwnNode'
    BY <1>1, <2>1, <2>4, <2>5 DEF OwnNode
  <2> HIDE DEF n
  <2> QED BY <2>1, <2>3, <2>4, <2>6 DEF QInv
<1> QED BY <1>2, <1>3

\* What the invariants say of the running task.
LEMMA RunningTask ==
  ASSUME IInv, QInv, hart \in {"user", "kernel"}
  PROVE  /\ current_task \in live /\ current_task \in Pid
         /\ current_task_node = [value |-> current_task, gen |-> 0]
         /\ current_task_node = NodeOf(current_task)
         /\ current_task_node \in Node /\ ~Dangling(current_task_node)
<1>1. current_task \in Pid /\ current_task # NULL /\ current_task_node \in Node
  BY ConstantsAssumption DEF IInv, Current
<1> QED BY <1>1 DEF QInv, OwnNode, NodeOf, Dangling, IsDangling

\* wait() and schedule_next() queue the running task and schedule.
LEMMA SwitchQueues ==
  ASSUME IInv, QInv, hart \in {"user", "kernel"},
         NEW name \in ListName, NEW frame,
         UNCHANGED <<next_task_id, live, gen>>,
         schedule(push(list, name, current_task_node), frame)
  PROVE  QInv'
<1>1. /\ current_task \in live /\ current_task_node \in Node
      /\ current_task_node.value = current_task /\ current_task_node.gen = 0
  BY RunningTask
<1>2. Queues(push(list, name, current_task_node),
             (live \ {current_task}) \cup {current_task})
  BY <1>1, PushQueues DEF QInv
<1>3. (live \ {current_task}) \cup {current_task} = live'
  BY <1>1
<1>4. live' \subseteq Pid
  BY DEF IInv, TypeOK
<1> QED BY <1>2, <1>3, <1>4, ScheduleQueues DEF QInv

\* A step that leaves the queues and the tasks as they are.
LEMMA SameQueues ==
  ASSUME QInv, UNCHANGED <<queueVars, next_task_id, live, gen>>,
         hart' # "corrupt"
  PROVE  QInv'
BY DEF QInv, OwnNode, Queues, Distinct, NodesOf, Listed, queueVars

-----------------------------------------------------------------------------
(* The steps                                                               *)

\* From boot and from idle() the run queue is scheduled as it is.
LEMMA FromIdle ==
  ASSUME IInv, QInv, hart \in {"boot", "idle"}, NEW frame,
         UNCHANGED <<next_task_id, live, gen>>, NEW l,
         Queues(list, live) => Queues(l, live),
         schedule(l, frame)
  PROVE  QInv'
<1>1. current_task = NULL /\ live \subseteq Pid
  BY DEF IInv, TypeOK, Current
<1>2. live \ {current_task} = live
  BY <1>1, ConstantsAssumption
<1>3. Queues(l, live)
  BY <1>2 DEF QInv
<1> QED BY <1>1, <1>3, ScheduleQueues DEF QInv

LEMMA ForkQueues ==
  ASSUME IInv, QInv, Fork
  PROVE  QInv'
<1> DEFINE child == next_task_id
<1>1. /\ hart = "kernel" /\ kpc = "fork" /\ hart' = hart
      /\ next_task_id' = child + 1 /\ live' = live \cup {child}
      /\ list' = push(list, "tasks", NodeOf(child))
      /\ UNCHANGED <<gen, current_task_node, current_task>>
  BY DEF Fork, At, Goto, task_init_sched, NodeOf
<1>2. child <= MaxPid
  BY <1>1, InKernel DEF Bounded
<1>3. child \in Pid /\ live \subseteq Pid /\ child \in Nat
  BY <1>1, <1>2, InKernel, ConstantsAssumption DEF TaskTypes, Pid
<1>4. /\ NodeOf(child) \in Node /\ NodeOf(child).value = child
      /\ NodeOf(child).gen = 0
  BY <1>3, ConstantsAssumption DEF QInv, NodeOf, Node
<1>5. child \notin live
  BY <1>3 DEF QInv
<1>6. Queues(list', (live \ {current_task}) \cup {child})
  <2>1. "tasks" \in ListName
    BY DEF ListName
  <2> QED BY <1>1, <1>4, <1>5, <2>1, PushQueues DEF QInv
<1>7. (live \ {current_task}) \cup {child} = live' \ {current_task'}
  BY <1>1, <1>5, RunningTask
<1>8. \A t \in live' : t < next_task_id'
  BY <1>1, <1>3 DEF QInv, Pid
<1> QED BY <1>1, <1>6, <1>7, <1>8, RunningTask, ConstantsAssumption
        DEF QInv, OwnNode

LEMMA ExitQueues ==
  ASSUME IInv, QInv, Exit
  PROVE  QInv'
<1>1. /\ hart = "kernel" /\ live' = live \ {current_task}
      /\ UNCHANGED <<next_task_id, gen>>
      /\ schedule(list_remove(list, NodeOf(current_task)), trapframe)
  BY DEF Exit, At
<1>2. list_remove(list, NodeOf(current_task)) = list
  <2>1. NodeOf(current_task) \in Node
        /\ NodeOf(current_task).value = current_task
    BY <1>1, RunningTask
  <2> QED BY <2>1, RemoveNothing DEF QInv
<1>3. live' \subseteq Pid
  BY <1>1 DEF IInv, TypeOK
<1> QED BY <1>1, <1>2, <1>3, ScheduleQueues DEF QInv

LEMMA KernelStepQueues ==
  ASSUME IInv, QInv, KernelStep, ~Execve
  PROVE  QInv'
<1>1. CASE Boot
  BY <1>1, FromIdle DEF Boot, taskVars
<1>2. CASE YieldToUser \/ Dispatch \/ SyscallReturn \/ NextChar
  BY <1>2, SameQueues
     DEF YieldToUser, Dispatch, SyscallReturn, NextChar, At, Goto, taskVars,
         return_to_user
<1>3. ASSUME NEW g \in WaitGroup, Wait(g) PROVE QInv'
  <2>1. hart = "kernel" /\ g \in ListName
        /\ UNCHANGED <<next_task_id, live, gen>>
    BY <1>3 DEF Wait, At, save_supervisor, ListName
  <2>2. schedule(push(list, g, current_task_node), trapframe)
    BY <1>3, <2>1, RunningTask DEF Wait
  <2> QED BY <2>1, <2>2, SwitchQueues
<1>4. CASE Yield
  <2>1. hart = "kernel" /\ UNCHANGED <<next_task_id, live, gen>>
    BY <1>4 DEF Yield, At, save_supervisor
  <2>2. schedule(push(list, "tasks", current_task_node), trapframe)
    BY <1>4, <2>1, RunningTask DEF Yield, schedule_next
  <2> QED BY <2>1, <2>2, SwitchQueues DEF ListName
<1>5. CASE Fork \/ Exit
  BY <1>5, ForkQueues, ExitQueues
<1>6. CASE KillInit \/ AllocPanic
  BY <1>6, SameQueues DEF KillInit, AllocPanic, panic, taskVars
<1>7. CASE ExecveFault
  BY <1>7, SameQueues DEF ExecveFault, At
<1> QED BY <1>1, <1>2, <1>3, <1>4, <1>5, <1>6, <1>7 DEF KernelStep

LEMMA InterruptQueues ==
  ASSUME IInv, QInv, Interrupt
  PROVE  QInv'
<1>1. CASE PreemptUser
  <2>1. hart = "user" /\ UNCHANGED <<next_task_id, live, gen>>
    BY <1>1 DEF PreemptUser
  <2>2. schedule(push(list, "tasks", current_task_node), regs)
    BY <1>1, <2>1, RunningTask DEF PreemptUser, schedule_next
  <2> QED BY <2>1, <2>2, SwitchQueues DEF ListName
<1>2. CASE TimerInKernel
  <2>1. hart \in {"idle", "kernel"} /\ sie
        /\ UNCHANGED <<next_task_id, live, gen>>
    BY <1>2 DEF TimerInKernel
  <2>2. hart = "idle" /\ current_task = NULL
    BY <2>1, IdleInterrupt
  <2>3. schedule(list, regs)
    BY <1>2, <2>2 DEF TimerInKernel
  <2> QED BY <2>1, <2>2, <2>3, FromIdle
<1>3. ASSUME NEW groups \in SUBSET WaitGroup, ExternalInUser(groups)
      PROVE  QInv'
  <2>1. /\ hart' = "user" /\ list' = Woken(groups)
        /\ UNCHANGED <<current_task_node, current_task, next_task_id, live,
                       gen>>
    BY <1>3 DEF ExternalInUser, return_to_user, taskVars
  <2>2. Queues(list', live' \ {current_task'})
    BY <2>1, WokenQueues DEF QInv
  <2> QED BY <2>1, <2>2 DEF QInv, OwnNode
<1>4. ASSUME NEW groups \in SUBSET WaitGroup, ExternalInKernel(groups)
      PROVE  QInv'
  <2>1. hart \in {"idle", "kernel"} /\ sie
        /\ UNCHANGED <<next_task_id, live, gen>>
    BY <1>4 DEF ExternalInKernel
  <2>2. hart = "idle" /\ current_task = NULL
    BY <2>1, IdleInterrupt
  <2>3. schedule(Woken(groups), regs)
    BY <1>4, <2>2 DEF ExternalInKernel
  <2>4. Queues(list, live) => Queues(Woken(groups), live)
    BY WokenQueues
  <2> QED BY <2>1, <2>2, <2>3, <2>4, FromIdle
<1> QED BY <1>1, <1>2, <1>3, <1>4 DEF Interrupt

-----------------------------------------------------------------------------
(* The invariant                                                           *)

LEMMA InitQueues == Init => QInv
<1> SUFFICES ASSUME Init PROVE QInv
  OBVIOUS
<1> DEFINE n == [value |-> 1, gen |-> 0]
<1>1. /\ list = [name \in ListName |-> IF name = "tasks" THEN <<n>> ELSE << >>]
      /\ live = {1} /\ current_task = NULL /\ next_task_id = 2
      /\ "tasks" \in ListName
  BY DEF Init, ListName
<1>2. 1 \in Pid /\ n \in Node /\ live \ {current_task} = {1}
  BY <1>1, ConstantsAssumption DEF Pid, Node
<1>3. list \in [ListName -> Seq(Node)]
  BY <1>1, <1>2
<1>4. /\ list["tasks"][1] = n
      /\ \A a \in ListName, i \in Nat : i \in 1..Len(list[a]) =>
           a = "tasks" /\ i = 1
  BY <1>1
<1>5. Len(list["tasks"]) = 1 /\ \A a \in ListName : Len(list[a]) \in Nat
  BY <1>1
<1>6. Distinct(list) /\ NodesOf(list, {1})
  BY <1>4, <1>5 DEF Distinct, NodesOf
<1>7. Listed(list, 1)
  BY <1>1, <1>4, <1>5 DEF Listed
<1>8. Queues(list, live \ {current_task})
  <2>1. \A t \in {1} : Listed(list, t)
    BY <1>7
  <2> QED BY <1>2, <1>3, <1>6, <2>1 DEF Queues
<1>9. /\ \A t \in live : t < next_task_id
      /\ gen = [t \in Pid |-> 0] /\ hart # "corrupt" /\ OwnNode
  BY <1>1 DEF Init, OwnNode
<1> QED BY <1>8, <1>9 DEF QInv

LEMMA StepQueues == IInv /\ QInv /\ [Next /\ ~Execve]_vars => QInv'
<1> SUFFICES ASSUME IInv, QInv, [Next /\ ~Execve]_vars PROVE QInv'
  OBVIOUS
<1>1. CASE UserStep
  BY <1>1, SameQueues DEF UserStep, taskVars
<1>2. ASSUME NEW cause \in Workload, UserTrap(cause) PROVE QInv'
  BY <1>2, SameQueues DEF UserTrap
<1>3. CASE KernelStep /\ ~Execve
  BY <1>3, KernelStepQueues
<1>4. CASE Interrupt
  BY <1>4, InterruptQueues
<1>5. CASE TimerTick \/ DeviceInterrupt
  BY <1>5, SameQueues DEF TimerTick, DeviceInterrupt, taskVars, hartVars, QInv
<1>6. CASE Halted \/ UNCHANGED vars
  BY <1>6, SameQueues DEF Halted, vars, taskVars, hartVars, QInv
<1> QED BY <1>1, <1>2, <1>3, <1>4, <1>5, <1>6 DEF Next

LEMMA QueueInvariant == Spec /\ [][~Execve]_vars => []QInv
<1>1. [Next]_vars /\ [~Execve]_vars => [Next /\ ~Execve]_vars
  OBVIOUS
<1> QED BY InitQueues, StepQueues, Invariant, <1>1, PTL DEF Spec

-----------------------------------------------------------------------------

\* No task is queued twice and the running task is on no list, until an execve
\* succeeds: every list_push of wait, wakeup, schedule_next and
\* task_init_sched is of a node that is on no list.
THEOREM QueuedOnce == Spec /\ [][~Execve]_vars => []OnePlace
<1>1. QInv => OnePlace
  BY DEF QInv, Queues, Distinct, NodesOf, OnePlace
<1> QED BY QueueInvariant, <1>1, PTL

\* No list and no current_task_node refers to freed memory, until an execve
\* succeeds: task_destroy frees a node that is on no list, and then leaves it
\* for good.
THEOREM NothingFreedQueued == Spec /\ [][~Execve]_vars => []NoDangling
<1>1. IInv /\ QInv => NoDangling
  <2> SUFFICES ASSUME IInv, QInv PROVE NoDangling
    OBVIOUS
  <2>1. ASSUME NEW a \in ListName, NEW i \in 1..Len(list[a])
        PROVE  ~Dangling(list[a][i])
    <3>1. /\ list[a] \in Seq(Node) /\ list[a][i].value \in live
          /\ list[a][i].gen = 0
      BY DEF QInv, Queues, NodesOf
    <3>2. list[a][i] \in Node
      BY <3>1, ElementOfSeq
    <3> QED BY <3>1, <3>2 DEF QInv, Dangling, IsDangling, Node
  <2>2. current_task_node # NULL => ~Dangling(current_task_node)
    BY DEF IInv, TypeOK, QInv, OwnNode, Dangling, IsDangling
  <2> QED BY <2>1, <2>2 DEF NoDangling
<1> QED BY Invariant, QueueInvariant, <1>1, PTL

\* No live task is forgotten, until an execve succeeds: it runs, or wakeup or
\* do_schedule can find it on a list.
THEOREM EveryTaskFound == Spec /\ [][~Execve]_vars => []NoneLost
<1>1. QInv => NoneLost
  BY DEF QInv, Queues, Listed, NoneLost
<1> QED BY QueueInvariant, <1>1, PTL

=============================================================================
