# Fakekernel: specifications, model checking and proofs

Fakekernel is a small RISC-V (Sv39) kernel in C and assembly: one hart, user
programs with `fork`/`execve`/`exit`, kernel threads that block on the console,
a timer that preempts programs, a buddy page allocator, page tables and a
16550 UART driver. This directory holds TLA+ modules translated from its source,
TLC configurations that check them on small instances, and TLAPS proofs of what
holds for every instance. Paths below are relative to `src/`.

* [1 The system](#1-the-system)
* [2 The modules](#2-the-modules)
* [3 The runs](#3-the-runs)
* [4 Fairness](#4-fairness)
* [5 What is proved](#5-what-is-proved)
* [6 Findings](#6-findings)
* [7 What is not modelled](#7-what-is-not-modelled)
* [8 Plan](#8-plan)

Check a run with `tlc -config MCSched.cfg MCSched.tla`, proofs with
`tlapm SchedProofs.tla`.

## 1 The system

### Components

| Component | Source | State | Operations | What makes it correct |
|---|---|---|---|---|
| scheduler | `kernel/sched.c`, `sched.h` | run queue `tasks`, `current_task`, `current_task_node`, `next_task_id`; per task `mode`, `kernel_frame`, `user_frame`, its list node | `task_create`, `task_clone`, `task_reinit`, `task_destroy`, `schedule`, `schedule_next`, `wait`, `wakeup`, `yield_to_user` | a task is in one place only, is never forgotten, resumes where it stopped with its registers and its page table; nothing freed is used; everyone ready gets the hart |
| traps, interrupts, timer | `kernel/irq.c`, `trap.S`, `start.S` | the one global `trapframe`, `sstatus.SIE`, `sip`, `kernel_sp` | `trap_vector`, `trap_handler`, `kernel_trap`, `handle_interrupt`, `timervec`, `ksetjmp`, `klongjmp`, `_kernel_to_user` | no interrupt is taken inside a kernel thread; the shared trap frame never mixes programs up |
| system calls | `kernel/syscall.c` | none of its own | dispatch on `a7`; `putchar`, `getchar`, `yield`, `exit`, `getpid`, `execve`, `fork`, `dump` | each returns to its caller, or ends it |
| console driver | `kernel/uart.c` | two rings with unbounded cursors, `wait_in`, `wait_out`; in the device THR, receive FIFO, interrupt line | `uartputc`, `uartstart`, `uartintr`, `getchar` | no character lost or doubled, order kept, no lost wakeup, output always goes on |
| page allocator | `kernel/mm.c` 1-185 | `buddy_pages`, links inside free pages, `kmalloc` headers | `page_allocator_init`, `alloc_pages`, `free_pages`, `kmalloc`, `kfree` | blocks disjoint, none lost, buddies merged, lists finite |
| page tables | `kernel/mm.c` 188-392 | three-level Sv39 tables, `satp`, the TLB | `create_page_table`, `set_page*`, `unset_page*`, `unset_user_pages`, `destroy_page_table`, the switch in `do_schedule` | the walk finds what was mapped and nothing else; no table is shared or lost; the kernel is always mapped; translations lead to a task's own memory, those that `execve` leaves stale to memory it had |
| user copies | `kernel/mm.c` 394-488, `irq.c` 8-16 | `page_fault_handler`, `may_page_fault`, `sstatus.SUM` | `user_memcpy`, `user_strlcpy`, `user_copy_args` | a bad pointer ends in an error, never in a panic, and leaves SUM clear |
| memory areas | `kernel/vm.c` | the sorted list of a task's areas | add, find, clone, destroy, grow the stack, dump | sorted, disjoint; every page owned once |
| program loader | `kernel/elf.c` | the new address space and the block of arguments on its stack | `load_elf`, `task_init_elf` | the program finds its arguments |
| lists | `kernel/list.h` | `first`, `last`, `next`, `prev`, `list` | push, shift, remove, insert, destroy | a finite sequence, linked both ways |
| strings, printf | `kernel/string.c`, `printf.c` | none | `strlcpy`, `memcpy`, ..., `printf` | results as their comments say |
| boot, panic | `kernel/main.c`, `start.S`, `panic.c` | `kernel_initialized` | initialisation; final message and endless loop | |
| user programs | `user/` | their registers and memory | system calls, faults | the environment of the kernel |

### How they interact

A program traps (`trap_vector`); `trap_handler` copies the global trap frame into
the task's `user_frame` and jumps with `klongjmp` to where the task's kernel
thread stopped, which is `yield_to_user`. `task_entry` then dispatches to
`syscall()`, to the stack grower, or reports a fault and destroys the task. A
handler that must wait (`getchar`, `uartputc`) pushes its node on a wait group
and calls `schedule()`, which never returns: the thread goes on through
`klongjmp` when somebody has moved its node back to `tasks`. Interrupts arrive in
user mode, where a timer tick preempts, or in `idle()`; `uartintr` drains the
receive FIFO into a ring, refills THR from the other, and calls `wakeup` on both
groups. The trap frame, `current_task_node` and the wait groups are shared by
all of this and protected only by `sstatus.SIE` being clear in kernel threads.
Everything above takes its memory from the page allocator: list nodes, `struct
task`, stacks and page tables.

### What is hard

* **Interleaving.** Programs, kernel threads, interrupts and the device: a
  thread that finds a ring full and waits while the transmitter finishes; LSR
  read before a wait and used after it; threads woken together for one slot.
* **Shared frames.** One trap frame for traps from user mode, from `idle()` and
  from the kernel; one `kernel_frame` per task written by `wait`, `yield`,
  `yield_to_user`, `kernel_trap` and `task_init_sched`.
* **Life time.** `task_destroy` frees the stack and the page table it runs on;
  `task_reinit` frees the node `current_task_node` points to.
* **Memory in use as data structure.** Free lists live in the free pages, and
  the header of `kmalloc` lives in the word that held the link.
* **Liveness.** Nothing but a device interrupt can end `idle()`; `uartstart`
  gives up and trusts the next interrupt; ready tasks depend on the timer.
* **Boundaries.** Rings of fixed size with cursors that only grow; halving loops
  that compute orders; the first and last order of the allocator.

`PROJECT.json` lists the places under `hazards`, each with the properties that
cover it.

## 2 The modules

| Module | Models | Composes / refines |
|---|---|---|
| `Sched`, `SchedProps` | scheduler, traps, timer, the scheduling half of every system call | |
| `Uart`, `UartProps` | console driver and device | |
| `Kernel`, `KernelProps` | both together | EXTENDS `Sched`, INSTANCE `Uart` |
| `PageAlloc` | what the page allocator promises | |
| `Buddy`, `BuddyProps` | the allocator, free areas as sets | implements `PageAlloc` |
| `BuddyLinks` | the allocator in memory, `kmalloc`, `kfree` | implements `Buddy` |
| `AddrSpace` | what an address space promises | |
| `PageTable`, `PageTableProps` | the Sv39 tables, `satp` and the TLB | implements `AddrSpace` |
| `Lists` | `list.h` with its pointers, as operators on a memory | |
| `UserMemory` | what `fork`, `execve`, `exit` and stack growth promise to programs | |
| `TaskMemory`, `TaskMemoryProps` | areas, frames and tables of every task | EXTENDS `Lists`, implements `UserMemory` |
| `UserArgs`, `UserArgsProps` | the arguments of `execve`, copies from user space and their page faults | |
| `SchedProofs` | proofs about `Sched`: frames and registers; queues | |
| `UartProofs` | proofs about `Uart` | |
| `KernelProofs` | proofs that `Kernel` implements `Sched` and `Uart` | EXTENDS `KernelProps`, `SchedProofs`, INSTANCE `UartProofs` |
| `BuddyProofs` | proofs about `Buddy` and its refinement of `PageAlloc` | |
| `BuddyLinkProofs` | proofs about `BuddyLinks` and its refinement of `Buddy` | INSTANCE `BuddyProofs` |
| `PageTableProofs` | proofs about `PageTable` and its refinement of `AddrSpace` | |
| `UserArgsProofs` | proofs about `UserArgs` | |
| `TaskMemoryProofs` | proofs about `TaskMemory` and its refinement of `UserMemory` | |
| `MC...` | definitions for the configurations | |

Operators with a suffix beside an operator that has none (`Woken_keep` beside
`Woken`) are wrong versions of it. They are used in no specification; each shows
that some property would notice that mistake (`PROJECT.json`, `mutants`).

### Sched

One hart. `hart` says what it executes; `kpc` where the running kernel thread
is; the state of a thread that is not running is `kernel_frame[t]`, the point at
which `ksetjmp` was called. A stretch of kernel code between two places where it
can switch threads is one step. That is exact as long as no interrupt is taken
in a kernel thread, which is itself checked and proved (`InterruptsOff`); the
steps an interrupted thread would take are in the model (`TimerInKernel`,
`ExternalInKernel`, their second branches), and reachable only in the mutants.

* A register context is an opaque value. `uctx` is a history variable: what each
  program must see when it next runs.
* A list is a sequence of nodes. A node is `[value, gen]`: `gen` tells the nodes
  apart that `task_init_sched` has allocated for one task, so that freed ones can
  be recognised. A step that uses freed memory may go on as if the memory were
  intact, or end in `corrupt`, after which nothing is claimed; a freed *task* is
  always `corrupt`.
* `schedule(l, frame)` is `do_schedule` as its callers see it: the lists and the
  trap frame as the caller leaves them go in, the next task or `idle()` comes
  out. It takes effect in the step of its caller because it never returns.
* `klongjmp` restores registers, not `sstatus`; that is why it matters where the
  hart comes from. `return_to_user` and `idle` set SIE.
* `Fork` queues the child before its frame is copied, as `task_clone` does; both
  are in one step because nothing can run in between. The clone of a failed
  allocation is a panic (`AllocPanic`), as in `alloc_pages`.
* `Execve` follows `task_reinit`: the node is freed, a new one is queued and the
  thread goes on by `klongjmp` without being dequeued (finding 1).
  `ExecveFault` is the failing copy of the arguments through `kernel_trap`.
* Faults, `dump` and `putchar` all print through `uartputc`, hence the points
  `fault_loop`, `dump_loop`, `putchar_loop`.

### Uart

The driver as its callers and the device see it. Cursors grow, rings are indexed
modulo their size. `uartstart` sends between one and all of the characters in
the ring when the device is idle: the loop reads LSR after each character and the
transmitter may have finished by then. `thr` and `line` are the transmitter;
`TxDone` and `RxReady` are the device, at any time. `Spurious`: the driver never
acknowledges the transmit interrupt by reading ISR, so the level may still be
high when the PLIC samples again. `uartputc` reads LSR once on entry; a thread
that has waited only looks at the ring (`uartputc_loop`). Characters are numbered
by call, so "lost", "doubled" and "out of order" are visible.

### Kernel

The two together, with no state added. `uart_pc` is derived: a thread is in the
driver when its kernel frame or `kpc` says so, and waits when its node is on
`wait_in` or `wait_out`. Every kernel step that talks to the console is the
conjunction of a step of `Sched` (which leaves open whether a call waits) and a
step of `Uart` (which decides). The property `UartSpec` says that the result
is a behaviour of `Uart`; it would fail if a thread were resumed at the wrong
place, woken twice, or if `uartintr` could run inside the driver.

### PageAlloc, Buddy, BuddyLinks

Page numbers count from `KERN_PHYBASE`. The loops of `alloc_pages` and
`free_pages` take one step per split or merge. `Buddy` keeps sets, so it says
nothing of the order in a list: the code always takes the first area, the model
any. `PageAlloc` is told the order of each request before it is granted, because
`Buddy` splits in between: it grants any aligned run of free pages of that order,
and fails exactly when there is none. `BuddyLinks` keeps `buddy_pages` and the first word of every page; `FreeList`
follows the links. Ownership changes that word: the owner may write anything,
`kmalloc` writes the order.
`page_allocator_init` is modelled as written: after the first loop has linked
all areas of the top order, the second resets that list (finding 2).

### AddrSpace, PageTable

`AddrSpace` is a function from pages to translations per task. `PageTable` keeps
the entries of every table page; an entry is invalid, a leaf, or a table, as the
flags of `sv39_pte` tell. Page numbers are the tuples of their fields, because
`expand_superpage` writes one field. `set_page` is two times `Descend` (the
body of `ensure_page_2m` and its repetition one level down) and the write of the
last entry. The recursion of `do_destroy_page_table` has depth three and is
written out (`destroyed`); its panic is `TooDeep`.

The pages for the memory of tasks, `Frame`, are one pool, apart from those for
tables: `frames[s]` are those in the areas of a task, `MapPage` takes any free
one, and what `execve` and `exit` give back is free for all again.

`Walk` is the hardware, and `Fill` lets it cache the result at any time, also that
a page has no translation, so that what matters is where `sfence.vma` is executed:
only in `do_schedule`, when `satp` changes, and in `mm_init`. `execd` records that
`execve` has cleared the space since, and `given` the frames it gave back then.
`StaleOnlyAfterExecve` says that nothing else leaves a valid translation in the
TLB that is out of date. `OwnTranslations` says that a task's table leads only to
frames that it has and no other task; and that while it runs the TLB leads there
too, or to a frame in `given`. Such a frame may be another task's by then: `execve`
returns on the same `satp`, a `fork` that follows takes the frames for the child,
and the TLB may still have them for the parent (section 6). After
`task_destroy` the hart goes on, and may idle, with `satp` on a freed table:
`KernelMapped` says that this is harmless, because nothing allocates before the
next switch and a free page keeps all words but the first. The TLB holds one
entry at a time: every property speaks of single entries, and a larger one holds
what several small ones could.

### Lists, UserMemory, TaskMemory

`Lists` has the pointers of `list.h` as operators: a memory and a list go in and
come out. `TaskMemory` uses them for `task->vm_areas`. Nodes, areas and frames
come from one pool of pages, as `kmalloc` gives each a page. `call` holds the
kernel function that runs and its locals: which segment `load_elf` is at, which
node `list_foreach`, which area gets pages. A step is one pass of a loop, and no
program takes a step while `call` is not `User`, because interrupts are off. The
allocation that fails is the one that panics, so a panic leaves the memory as far
as it has got; an area and its node are allocated in one step, which therefore
asks for two pages. `load_elf` allocates the page of the stack before the area
that it goes into; the model treats the stack as a last segment, whose area comes
first. `area->pages` is a sequence and its nodes take no pages here; `struct
task`, kernel stacks and tables are left to `Sched` and `PageTable`. What a page
held before is visible: a frame that `kfree` has taken keeps its words but for the
link (`kfreed`), which is what `list_destroy` depends on when it reads a node it
has freed.

| Actions | Code |
|---|---|
| `LoadArea`, `LoadPage`, `LoadNext`, `LoadDone` | `load_elf`, `elf.c:13-125`: every segment, then the stack; `vm_add_area` |
| `CloneArea`, `ClonePage`, `CloneNext`, `CloneDone` | `vm_clone` |
| `DecrefArea`, `DecrefDone` | `vm_decref_all`, `vm_area_destroy`, then `list_destroy` and the table |
| `GrowPage`, `GrowDone` | the loop of `task_entry`, `sched.c:63-80` |
| `Fork`, `Execve`, `Exit`, `UserFault` | `task_clone`, `SYS_execve`, `task_destroy`, the fault branch of `task_entry` with `vm_find_stack`: they set `call` |

Fault addresses have an offset in their page, because `vm_area_in` counts the
end of an area as inside. `UserMemory` is the promise: each program has a memory
of its own; `fork` copies it, `execve` replaces it, touching the stack region
fills it down to that page with zeros, and nobody else changes it. `args` is a
history variable, the two buffers that each `execve` leaves behind: `PagesOwned`
says that these and no others are lost.

Two assumptions are the environment's. Segments are in ascending order, as ELF
prescribes and `load_elf` does not test: otherwise `vm_add_area`, which goes on
after it has inserted the area, makes the list cyclic. And segments end before
the page in front of the stack region: otherwise an access just behind them
would not grow the stack.

### UserArgs

`user_copy_args` loop by loop, so that a page fault can hit it anywhere. A memory
is a function from units to numbers, with pointers of `W` units and characters of
one, so that the offsets of `user_copy_args` and `task_init_elf` are real and
overlaps would show. `sum` stands for `may_page_fault` and `sstatus.SUM`, which
`enter_sum` and `exit_sum` set together. `page_fault_handler` remembers whose
frame it holds; `PageFault` is `kernel_trap`. An array of the program is its
strings and the places that cannot be read; `ok` is the result of `access_ok`.

What the code does on each path is kept: too many strings return at `mm.c:468`
without `kfree` and `exit_sum`; an error for `envp` is not noticed, because
`syscall.c:67` tests `argv`, and ends as a page fault in `task_init_elf` - a
panic, or, when `envp` had too many strings and the handler is still armed, a
return into a function that has returned (`corrupt`); buffers filled to the last
unit by pointers make `strlcpy` panic; arguments that fit their two buffers but
not one page panic. `ResultRight` says that these are the only ways to fail:
what can be read and fits is always accepted.

## 3 The runs

| Run | Bounds | Shows |
|---|---|---|
| `sched` | 3 tasks, 2 contexts, every exception but a successful `execve` | all invariants of `SchedProps`, 1.3 million states |
| `sched_exec` | 3 tasks, each with one `execve` | every ready task runs, also beside the nodes `execve` leaves |
| `sched_exec_twice` | 1 task | violated: finding 1 |
| `buddy` | 3 orders, 12 pages | disjoint, conserved, merged; implements `PageAlloc`: a request fails only when nothing of its order is left |
| `buddy_links` | the same, requests on both sides of the page boundary | implements `Buddy`; lists end; buffers fit |
| `buddy_ram` | the same | violated: finding 2 |
| `uart` | 3 threads, rings of 2, 5 characters out, 3 in | all of `UartProps`: nothing lost, no lost wakeup, output drains, readers are served |
| `uart_order` | 1 thread | violated: finding 3 |
| `page_table` | 2 spaces, 3 entries per table, 8 pages for tables, 2 frames, 2 user pages in one space and 1 in the other | implements `AddrSpace`, and the invariants of `PageTableProps` |
| `task_memory` | 2 tasks, 2 segments, a stack region of 3 pages, 22 pages, 1 `execve` | implements `UserMemory`; areas, tables and pages agree; nothing leaks but the argument buffers |
| `args` | pages of 16 units, pointers of 2; 14 arrays for `argv` and for `envp`; 4 buffers | what fits is accepted and arrives; what failing calls leave behind |
| `kernel` | 2 tasks that compete, rings of 1, 3 characters out, 1 in | the composition is a behaviour of `Uart`; idling is always awaited; `putchar` returns, input is delivered |

Why these bounds are enough to be interesting:

* Tables of 3 entries, the upper two the kernel's. The first space has two pages in
  different tables of the last level, the second one page at the same address as
  one of them. 8 table pages let both spaces be mapped at once beside the two
  tables `mm_init` makes, and still run out of memory. Two frames let both
  tasks have memory at once, make every frame that is given back go to either,
  and run out.
  `expand_superpage` is called for entries that are invalid only: no code maps a
  page inside a larger one, so that the run does not break up a leaf.
* `MaxPid` 3: one task runs, one is on the run queue, one waits; a task exits
  while others wait; rotation differs from swapping. `task_clone` is not called
  beyond the bound (the code has no bound; pids are not reused).
* `MaxGen`, how often an `execve` of one task succeeds: 1 in `sched_exec` and
  `sched_exec_twice`, as a stale node needs one; 0 in `sched`, where every `execve`
  fails, in the copy of its arguments or for lack of memory, or returns an error.
* `Ctx` of 2: enough to tell one program's registers from another's.
* Rings of 2 (1 in `Kernel`): the ring fills, wraps and empties with 5 (3)
  characters. The cursors are `size_t` and wrap at 2^64; that bound is out of
  reach of any run and no property depends on it.
* 12 pages with orders 0, 1, 2 and `SKIP_ORDER` 1: what the boot code hands over
  are two areas of different orders, so both splitting and merging across two
  orders, and merging that must stop at the top, occur. `SKIP_ORDER` leaves
  order 0 empty at first, as the code does.

* 22 pages: a program takes 9, so that both can exist with stacks grown by up to
  two pages and two argument buffers left behind, and memory still runs out.
  One data segment that is written, one of code that only the broken permissions
  of a forked program let it write, a stack that starts at one page and grows by
  one or two at a fault.
* 16 units: a buffer of 12 takes five pointers, which leaves no room for
  strings, or six, which are too many; one string of 7 fills it, one of 8 is cut;
  some pairs of arrays fill the page of the stack exactly and some need one unit
  more. 4 buffers: two successful calls, or one call with too many strings, then
  calls that fail and one that succeeds.

Deadlock is checked in every run. A panic or a corrupted machine repeats itself
(`Halted`), since `_panic` ends in an endless loop.

`NoDangling` and `OnePlace` are checked only where no `execve` succeeds: after one
that does they are false (finding 1).

## 4 Fairness

`FairSpec` of `SchedProps`, `KFairSpec` of `KernelProps`:

* weak fairness of the kernel's own steps: a hart executes the next instruction;
* weak fairness of `TimerTick`: `timervec` re-arms the CLINT before it returns;
* strong fairness of `PreemptUser` and, in `Kernel`, of `ConsoleInterrupt`: an
  interrupt can be disabled for a while (in a kernel thread) and enabled again
  (by `sret`), and the hart tests for pending interrupts after every `sret`.
  Weak fairness would allow a program that traps all the time never to be
  preempted, which the hardware does not do;
* weak fairness of `TxDone`: the UART sends at its bit rate. Nothing obliges
  anyone to type, and nothing obliges a program to give up the hart.

`FairSpec` of `UartProps` replaces the scheduler by weak fairness of each thread
that has been woken; `Kernel` shows, without that assumption, that they go on.
`OutputDrains` is a statement about programs that stop writing: with `MaxOut` they
do. While they do not, characters in the ring may wait, since a direct write takes
an idle transmitter first (finding 3).

## 5 What is proved

TLAPS, for all values of the constants that satisfy the `ASSUME` of the module.
Every invariant was checked by TLC before it was proved.

| Theorem | Says | Needs |
|---|---|---|
| `SchedProofs!TypeCorrect`, `RegistersKept`, `ResumesWhereItStopped`, `NoInterruptInThreads`, `RunsInOwnSpace`, `IdlesOnlyWhenEmpty` | `TypeOK`, `ContextIntegrity`, `ResumePoints`, `InterruptsOff`, `OwnAddressSpace`, `WorkConserving` | |
| `SchedProofs!QueuedOnce`, `NothingFreedQueued`, `EveryTaskFound` | `OnePlace`, `NoDangling`, `NoneLost` | no `execve` succeeds |
| `UartProofs!EveryCharacterKept`, `InputKeepsOrder`, `NoWakeupLost`, `InterruptComes` | `NothingLost`, `InputInOrder`, `NoLostWakeup`, `WillInterrupt` | |
| `KernelProofs!SchedulerRefined` | `KSpec => Spec`: all of the above about the scheduler holds with the console | |
| `KernelProofs!DriverRefined`, `IdleWaitsForConsole` | `UartSpec`, `IdleIsAwaited` | no `execve` succeeds |
| `BuddyProofs!TypeCorrect`, `NoSharing` | `TypeOK`, `Disjoint` | |
| `BuddyProofs!PagesConserved`, `BuddiesMerged` | `Conserved`, `Coalesced` | |
| `BuddyProofs!AllocatorImplements` | `Implements`: `Buddy` implements `PageAlloc` | |
| `BuddyLinkProofs!BuffersStayInside`, `ListsAreFinite` | `BuffersFit`, `ListsEnd` | |
| `BuddyLinkProofs!ListsImplementBuddy` | `ImplementsBuddy`: `BuddyLinks` implements `Buddy` | |
| `PageTableProofs!TablesHaveOneOwner`, `KernelStaysMapped`, `OnlyOwnTranslations`, `OnlyExecveLeavesStale` | `TablesOwned`, `KernelMapped`, `OwnTranslations`, `StaleOnlyAfterExecve` | |
| `PageTableProofs!PageTablesImplement` | `ImplementsAddrSpace`: `PageTable` implements `AddrSpace` | |
| `UserArgsProofs!FailureLeavesNothing`, `FittingArgumentsAccepted`, `ArgumentsArrive` | `NothingLeftBehind`, `ResultRight`, `ProgramSeesArguments` | |
| `TaskMemoryProofs!SpecAreasSound`, `SpecPagesOwned`, `StackGrows` | `AreasSound`, `PagesOwned`, `StackCanGrow` | |
| `TaskMemoryProofs!MemoryRefinement` | `ImplementsUserMemory`: `TaskMemory` implements `UserMemory` | `Readable` |

"No `execve` succeeds" is the hypothesis `[][~Execve]_vars`. It is needed: after
one that does, the properties are false (finding 1). `ExecveFault`, an `execve`
that fails, is not excluded, nor is any other system call, fault or interrupt;
the first six theorems of `SchedProofs` have no such hypothesis.

`Readable` says that every segment of the file can be read, as those of the run
(and of any program a compiler makes) can. It is needed: `vm_clone` copies a page
with `copy_from_user`, which fails where the parent cannot read, and its result is
dropped (`vm.c:155`), so the child would find in that page what its frame
held before.

### Assumptions on constants

* `ConstantsAssumption` (`Sched`), `KernelAssumption`: the constants are distinct
  enough, rings and the FIFO have room for one character, bounds are numbers.
* `UartAssumption`: the same for the driver alone.
* `BuddyAssumption`: sizes double with the order, and RAM holds two areas of the
  top order. That sizes grow with the order is assumed too; it follows from
  doubling by induction. `PHYSIZE` need not be a multiple of anything.
* `LinksAssumption`: the same, and that no request of `kmalloc` takes a number of
  pages that is not a power of two. The halving loop rounds down, so that a
  request of three pages would get two. The kernel asks for structures and for
  `ARG_MAX` bytes (`kernel/mm.c:450`), one page each with their header; the
  assumption allows any request that the loop does not cut short.
* `PageTableAssumption`: at least three entries per table (512 in Sv39); the
  kernel half begins above entry 0 and the devices' page lies behind RAM's, as
  `memlayout.h` has them; `None` and the boot table `Early` are none of the other
  values. Which pages each space maps, and which frames there are, is arbitrary.
* `ArgsAssumption`: pointers and pages have a size, a page is a multiple of two
  pointers, `USERSTACK` is above the last page, the first program's name fits in
  a page. Lists have any number of strings of any length, any of which may be
  unreadable; a character is not 0.
* `MemoryAssumption`: any number of tasks, a finite number of pages of any size, a
  stack region with at least one page; the segments of the file are in ascending
  order and end before the page in front of the stack region (the two assumptions
  of section 2); what pages hold is told apart, and `None` is no entry of a table.
* `NoneAssumption`: `None` is not the memory of a program either.

### The arguments

**`SchedProofs`.** None of the properties is inductive alone. The invariant `IInv`
adds what ties them together: a kernel frame holds only points that `ksetjmp` is
called at; there is a current task exactly when the hart runs one; behind
`yield_to_user` there is an exception to handle; and the registers every program
must see next are in its trap frame unless it runs (`Saved`). The argument has
one idea: whoever calls `schedule` leaves *every* live task ready to be switched
to (`Parked`: its mode agrees with its kernel frame, its user frame is what the
program must see). Lemma `Schedule` then gives the invariant in the next state
whatever the queue holds, dangling nodes included, and each caller (`wait`,
`yield`, `exit`, preemption, the interrupts) only has to establish `Parked`. That
interrupts reach the kernel only in `idle()` is lemma `IdleInterrupt`.

**`SchedProofs`, the queues.** The invariant `QInv` says that the three lists together
hold each live task but the current one exactly once (`Queues`), that
`current_task_node` is the current task's node, and that pids in use are below
`next_task_id`: without the last, `fork` could queue a task twice. There is one
lemma per list operation (`list_push`, `list_shift`, moving a whole wait group),
stated about sets of tasks, so that a caller composes them: `wait` takes the task
out of "running" and puts it on a list, `do_schedule` does the converse.

**`UartProofs`.** Output and input have an invariant each, as neither side uses
the other. For output, `OutInv` counts characters: those on the line, in `thr` and
in the ring, taken as one sequence (`Driver`), are distinct, and with those that
threads still hold in `uartputc` they are exactly the ones written so far. Beside
it stand two facts about wakeups: who waits for room waits on a full ring, and
while the ring is not empty the transmitter is busy or its interrupt pending. For
input, `InInv` says that what was read, what is in the ring and what is in the
FIFO, taken together, rises. The rings are unbounded cursors modulo the size;
lemmas about `Ring` (adding at the end, taking from the front) are all that knows
of it.

**`KernelProofs`.** `SchedulerRefined` is a fact about each step: the composition
only restricts what `Sched` leaves open. `DriverRefined` needs to know where the
threads are: `uart_pc` is computed from `kpc`, `kernel_frame` and the lists, and
each step of the scheduler must move it as the driver would. That holds because a
thread is on one list only and nothing else refers to it, which is `QInv`; and
since the lists of waiters are sets for `Uart`, which thread is woken does not
matter but that all of them are. `IdleIsAwaited` then combines both: on an empty
run queue every live task waits in a group, and a wait group has a reason to be
non-empty, by `OutInv` and `InInv` carried over through the refinement.

**`BuddyProofs`.** The invariant `IInv` adds to `Disjoint` that
blocks end within RAM. A split replaces a block by two that lie inside it, a merge
two neighbours by the block they make up, and no other block can lie between;
whether the buddy is in front of or behind the area does not matter to this.
`Conserved` follows along the same steps. That buddies are merged needs in
addition that every block starts at a multiple of its size (`Aligned`) - then the
buddy the code computes is the other half - and the description of the loop of
`alloc_pages` (`Merged`): between the order asked for and the order reached, all
lists are empty but the one split last. The step of the refinement that says when
the allocator may give up uses `Merged` as well: it fails only if no list from the
order on has an area, and then no aligned run of free pages of that size is left.

**`BuddyLinkProofs`.** `Path` says that a sequence without repetitions is the list
that begins with an area, and `WalkPath` that following the links then yields it.
There is one lemma for each thing the code does to a list, on the set the list
holds (`Holds`): `HoldsTail` unlinks the first area, `HoldsCons` puts one in front,
`HoldsUnlink` is `*prev = *free`, `HoldsElsewhere` lets the memory of other areas
change. The invariant `LInv` cannot be inductive alone: that a page an owner
writes to is in no list is what `Disjoint` says of the sets the lists hold. So
`LInv` and the invariant of `Buddy` are proved together, the latter through the
refinement: each step keeps the lists and is a step of `Buddy`, which keeps its
invariant. `ListsEnd` then counts: the areas of a list are different pages, and
page 0 is never given to the allocator (`Conserved`). `BuffersFit` is arithmetic:
the loop of `kmalloc` counts the doublings (`HalvingsOfSize`).

**`PageTableProofs`.** The tables in use form one tree per space, and the invariant
says so with a ghost function `g` from tables to places: the space, the level, the
entry of the root it lies below, the entry that refers to it. The entry an in-use
table hangs on refers to it, and what an entry refers to hangs there (`Tree`);
hence a table has one owner. `Contents` says what leaves hold: the memory of the
space in the lower half, the kernel's in the upper, except where the kernel broke
up a large page. Each operation of the source is a lemma on trees: `Descend` adds
a table, `expand_superpage` one with 512 leaves (in the proofs of a leaf too,
though no caller breaks one up), a leaf is written,
`do_destroy_page_table` removes all that is below the root. A frame lemma
(`WalkFrame`) says which walks a change of the tables cannot reach; with it each
lemma gives the walks for the refinement. `HartOK` and `TlbOK` relate `satp` and
the TLB to the tree: after `task_destroy` the root in `satp` is in no tree, and
all that is claimed of it is its upper half. `FramesOK` says that no frame is in
the lists of two tasks (`Apart`) and that a user leaf of a task leads to a frame in
its list (`Framed`); `TookApart` and `DecrefApart` are the two ways a list changes.
`OwnTranslations` follows: a cached translation is that of the table, or `execve`
has come between and its frame is in `given`.

**`UserArgsProofs`.** `NothingLeftBehind` needs only to know that in a copy `sum`
is set, the handler is this copy's and its buffer is counted (`Holding`). The
other two follow the data. `Laid` says that the first `m` strings of a list are in
memory, each behind the last, with their pointers in their slots, and `Room` that
slots and strings do not overlap and end within the memory. One lemma
(`LayOneFacts`) does one round, a pointer and a `strlcpy`, for both loops that lay
out lists: that of `user_copy_args` and that of `task_init_elf`, which differ in
where the slots are and by how much a pointer is off. `BufferStrings` says that
`task_init_elf` finds in a buffer what `user_copy_args` has put there, and
`InitElfFacts` that the block of arguments has room: the lists are counted as they
are laid out. The invariant `Data` carries this through the loop of a call, and
through the errors: whenever the copy gives up, or `strlcpy` panics, the list did
not fit.

**`TaskMemoryProofs`.** The invariant `IInv` says that there are three ghosts: `N`,
the nodes of each task's list in order; `d`, how many of its areas
`vm_decref_all` has given back already; and `g`, the place at which each page in
use is found (the `k`-th node of a task, its area, or the `j`-th frame of that).
`Struct` is what holds in every state, in the middle of a loop too: the pointers of
the nodes are those of `N`, each node, area and frame is in use and at the place
that `g` has for it, no page in use has another place, areas are in order, and
the pages an area has got so far are exactly those in the table. As `g` gives a
page one place, nothing is shared (`Apart`), so a step that changes one page
leaves every other area as it was (`Same`); the lemmas about the structure are a
page more (`AddPageStep`), an area more (`AddAreaStep`), an area less
(`DecrefStep`), the list gone (`DecrefDoneStep`) and nothing moved (`KeptStep`).
Only then does the code matter: `CallOK` says where the running function is and
what it has done - `Loaded`, the areas are those of the first segments; `Copied`,
those of the child are like the first of the parent - and `Tasks` that all other
tasks have a `Complete` memory, whose last area is a stack that ends with
`USERSTACK`, and that those that do not exist have none. Each action has a lemma.
`WalkPath` shows that following `next` yields `N`, from freed nodes too
(`WalkNodes`), `InsertedLast` that the loop of `vm_add_area` finds no area behind
a new segment. The three properties then follow from `IInv` in one state each:
`FindStack` computes what `vm_find_stack` finds in the stack region. None of the
three is inductive: each speaks only of tasks between system calls, and what
`vm_decref_all` frees is right only because it was the task's own.

The refinement of `UserMemory` is about what pages hold, of which `IInv` says
nothing. `Memories` is what each program sees: nothing while its memory is being
given back for good, already the file's while `load_elf` runs, else what its
tables lead to. `fork` takes effect when the child is live, at the end of the
copy, and a stack has grown for the program as soon as the fault comes, down to
the page touched; the loop that maps the pages is a stutter.
`CInv` says what a half-made memory holds: in `load_elf` each page there is holds
the page of the file (`HoldsImage`), in `vm_clone` each page of the child what the
parent's does (`HoldsCopy`); and every page there is can be read (`CanRead`). TLC
has checked it on the instance of `task_memory`. A write to one page changes
what one program sees because no frame is behind two entries (`OneEntry`), which
is `Struct` again. Each action has a lemma (`LoadPageImplements` and so on): most
of them keep `Memories`, by lemmas that say of each step of the code which entries
and contents stay (`Kept`, `PageKept`, `AreaKept`). The stack grows in the model of
the promise only where nothing was mapped: `FoundUnmapped`, from what `vm_find_stack`
compares.

`sizes`, `PutArgs` and the loop of `strlen` are recursive functions or `CHOOSE`s
over lists of any length. Their recursion is proved from the least counterexample
(`LeastNat`, from the well-foundedness of `<`): lemma `Induct` for sets, lemma
`Iterate` for the existence of the function a loop computes.

### What stays with TLC

* Liveness, fairness and `ENABLED`: `OutputDrains`, that ready tasks run, that
  `putchar` returns and input is delivered. No backend reasons about them.
* Where `execve` succeeds: that a ready task runs (`sched_exec`).

## 6 Findings

1. **`execve` queues the running task** (`sched_exec_twice`). `task_reinit`
   (`kernel/sched.c:159`) frees `task->sched`, to which `current_task_node` still
   points, and `task_init_sched` pushes a new node for the same task, which goes
   on running. From then on the task is running and queued, and the next `wait`,
   `yield` or tick pushes the freed node. `kernel/syscall.c:78` speaks of one new
   kernel thread.
2. **Most RAM is never handed out** (`buddy_ram`). The second loop of
   `page_allocator_init` (`kernel/mm.c:79`) starts at the top order again and
   cuts off the list of areas the first loop has linked. `kernel/memlayout.h:51`
   says the RAM up to `PHYSTOP` is for the kernel and user pages.
3. **A character can overtake others** (`uart_order`). `uartputc`
   (`kernel/uart.c:99`) writes THR itself when the device is idle, without
   looking at the ring. The transmitter can become idle while the ring is not
   empty and the interrupt has not been taken: after a trap has masked
   interrupts and before LSR is read, or between the characters of one message
   that the kernel prints. `user/hello.c:4-8` expects its characters in order.

The models also show the following, for which no run expects a violation; the
properties state what remains true.

* `mm.c:468`: a list with too many strings leaves a buffer, SUM and the page
  fault handler behind (`NothingLeftBehind`).
* `syscall.c:67`: an unreadable `envp` stops the kernel (`ResultRight`), and so do
  lists that fill a buffer with pointers (`string.c:11`) or fit their buffers but
  not one page (`elf.c:147`).
* `syscall.c:79`: every successful `execve` loses both argument buffers
  (`PagesOwned`, `NothingLeftBehind`).
* `sched.c:163-164`: `execve` gives the frames of the old program back and clears
  its table without an `sfence.vma`, and goes on with the same `satp`. Until the
  next switch to another task the hart may use the old translations, also when a
  `fork` or the loader has taken the frames for something else (`OwnTranslations`,
  `StaleOnlyAfterExecve`).
* `sched.c:77`: nor does growth of the stack execute one. A hart that has cached
  that the page had no translation faults again; `vm_find_stack` then finds the
  address in the area and the task is destroyed. `StaleOnlyAfterExecve` speaks of
  valid translations only.
* `elf.c:161`: `envp_off` counts one slot too many, so that `envp` begins in the
  slot of the NULL behind `argv`. With a variable in the environment `argv[argc]`
  is `envp[0]`, and a program that looks for NULL reads on into `envp`.
  `ProgramSeesArguments` reads `argv` by `argc`.
* `vm.c:165`: pages of forked programs and grown stacks have every permission;
  `AreasSound` says "at least" those of their area.
* `string.c:19`: `strlcpy` returns what it copied, where `string.h:7` has the
  length of the string. The two agree for strings that fit, and the callers take
  `n` or more for cut.

## 7 What is not modelled

* The contents of registers in `Sched`: it says which context, stack and page
  table are used. What is in memory is the matter of `TaskMemory` and `UserArgs`.
* Output before `kernel_initialized` is set and after a panic, which spins on
  LSR; `printf` formatting, hexdumps. ELF files: `execve` always loads the one
  file at 0x800f0000; offsets of segments within a page and files that `load_elf`
  rejects are left out. `TaskMemory` keeps one value per page, so it does not show
  that a segment of file size 0 gets one byte of the file (`elf.c:89-90`).
* Several harts: `start.S` parks all but one.
* Misuse by kernel code of an interface it uses correctly (double `kfree`).
* A kernel fault outside `user_memcpy` is only "panic".
* What nothing calls: `unset_page`, `unset_page_2m`, `unset_page_1g` (which would
  unmap the wrong gigabyte, `mm.c:343`), large user pages, `user_strlcpy`,
  `copy_to_user`, `vm_find`; `kmalloc` of, say, three pages (`mm.c:171`).
* `list_shift` and `list_remove` with their pointers. `list_shift` leaves a stale
  `prev` in the new first node; only a node removed while it is queued would
  follow it, which finding 1 makes possible.
* Addresses a program passes that lie in the kernel's half: an address of the
  model can be read by the program or not at all.

## 8 Plan

Done: the core (`Sched`, `Uart`, `Kernel`), the allocator on three levels, page
tables and address spaces, the memory of the tasks and the arguments of `execve`;
the proofs of all safety properties of `Sched`, `Uart`, `Kernel`, `Buddy`,
`BuddyLinks`, `PageTable`, `UserArgs` and `TaskMemory`, and six refinements.

To model, should the code come to use it: the pointers of `list_shift` and
`list_remove`; the digits of `print_uint` (which prints one character behind the
last digit first, `printf.c:55`).
