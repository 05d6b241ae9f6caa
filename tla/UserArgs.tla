------------------------------ MODULE UserArgs ------------------------------
(***************************************************************************)
(* The arguments of execve: user_copy_args and the protocol of page faults *)
(* of kernel/mm.c, SYS_execve of kernel/syscall.c, task_init_elf of        *)
(* kernel/elf.c, strlcpy and strlen of kernel/string.c.                    *)
(*                                                                         *)
(* A memory is a function from units to numbers.  A character takes one    *)
(* unit; a pointer takes W, of which the first says where it points.       *)
(***************************************************************************)
EXTENDS Integers, Sequences

CONSTANTS
  W,           \* the size of a pointer
  PAGE_SIZE,
  USERSTACK,   \* end of the user stack, above all characters
  Name,        \* the name of the first program
  Calls,       \* arguments programs pass to execve
  MaxBuffers   \* bound on the buffers allocated

ARG_MAX == PAGE_SIZE - 2 * W

\* What lies behind a pointer to an array of strings: the strings up to NULL,
\* and which of them cannot be read; 0 is the array itself.
String == Seq(1..(USERSTACK - 1))
Array ==
  {a \in [ok : BOOLEAN, strings : Seq(String), unreadable : SUBSET Nat] :
     a.unreadable \subseteq 0..Len(a.strings)}

ASSUME ArgsAssumption ==
  /\ W \in Nat \ {0} /\ PAGE_SIZE \in Nat /\ PAGE_SIZE % (2 * W) = 0
  /\ USERSTACK \in Nat /\ USERSTACK > PAGE_SIZE
  /\ Name \in String /\ (4 * W) + Len(Name) < PAGE_SIZE
  /\ MaxBuffers \in Nat
  /\ \A c \in Calls : c.argv \in Array /\ c.envp \in Array

VARIABLES
  pc,                  \* where the kernel is, or "user"
  call,                \* the arguments of the last call
  which,               \* which array is being copied
  i, off,              \* the locals of user_copy_args
  argv, envp,          \* the buffers; envp is NULL when copying it failed
  buffers,             \* blocks kmalloc has handed out
  before,              \* history: buffers and sum before the call
  sum,                 \* may_page_fault and sstatus.SUM
  page_fault_handler,  \* the copy that has stored it
  result,              \* what execve returned, "main" before the first call
  stack, registers     \* of the program

vars == <<pc, call, which, i, off, argv, envp, buffers, before, sum,
          page_fault_handler, result, stack, registers>>

-----------------------------------------------------------------------------
(* Memory and strings                                                      *)

Stale == USERSTACK + 1  \* what kmalloc's block held before
NULL  == << >>

Pointer(memory, at, p) ==
  [k \in DOMAIN memory |-> IF k = at THEN p ELSE IF k \in at..(at + W - 1) THEN 0 ELSE memory[k]]

\* The string that begins at a place, and its length.
StringAt(memory, at) ==
  LET end == CHOOSE k \in DOMAIN memory :
               /\ k >= at /\ memory[k] = 0
               /\ \A j \in at..(k - 1) : memory[j] # 0
  IN  [k \in 1..(end - at) |-> memory[at + k - 1]]

strlen(memory, at) == Len(StringAt(memory, at))

\* strlcpy copies at most n units and returns n when it had to cut.
strlcpy(memory, at, src, n) ==
  LET length == IF Len(src) < n THEN Len(src) ELSE n - 1
  IN  [memory |-> [k \in DOMAIN memory |->
                     IF k \in at..(at + length - 1) THEN src[k - at + 1]
                     ELSE IF k = at + length THEN 0 ELSE memory[k]],
       retval |-> IF Len(src) < n THEN Len(src) ELSE n]

-----------------------------------------------------------------------------
(* task_init_elf                                                           *)

\* The strings of an array in kernel memory.
Strings(memory) ==
  LET argc == CHOOSE n \in 0..(ARG_MAX \div W) :
                /\ memory[n * W] = 0 /\ \A k \in 0..(n - 1) : memory[k * W] # 0
  IN  [k \in 1..argc |-> StringAt(memory, memory[(k - 1) * W])]

\* What the first n strings take, each with its 0.
sizes(strings) ==
  LET upto[n \in 0..Len(strings)] ==
        IF n = 0 THEN 0 ELSE upto[n - 1] + Len(strings[n]) + 1
  IN  upto

size(strings) == sizes(strings)[Len(strings)]

user_stack_addr(o) == USERSTACK - o

\* The loop over the strings of an array whose pointers begin at the offset
\* "at".  The page of the stack ends at USERSTACK.
PutArg(t, at, k, string) ==
  LET pointed == Pointer(t.stack, PAGE_SIZE - at + (k - 1) * W, user_stack_addr(t.off))
      copied  == strlcpy(pointed, PAGE_SIZE - t.off, string, t.off)
  IN  [stack |-> copied.memory, off |-> t.off - (copied.retval + 1)]

PutArgs(s, at, strings) ==
  LET put[n \in 0..Len(strings)] ==
        IF n = 0 THEN s ELSE PutArg(put[n - 1], at, n, strings[n])
  IN  put[Len(strings)]

\* Mutant: the slots of the arguments are counted in place of the environment's.
envp_off_argc(argc, envc) == (argc + 2) * W
envp_off(argc, envc) == (envc + 2) * W

task_init_elf(args, env) ==
  LET arg_size == size(args) + size(env) + (Len(args) + Len(env) + 2) * W
      argv_off == (Len(args) + Len(env) + 2) * W
      env_off  == envp_off(Len(args), Len(env))
      cleared  == [k \in 0..(PAGE_SIZE - 1) |-> 0]
      a == PutArgs([stack |-> cleared, off |-> arg_size], argv_off, args)
      e == PutArgs(a, env_off, env)
      aligned == ((arg_size + 2 * W - 1) \div (2 * W)) * (2 * W)
  IN  IF arg_size > PAGE_SIZE THEN [ok |-> FALSE]
      ELSE [ok |-> e.off = argv_off, stack |-> e.stack,
            registers |-> [a0 |-> Len(args), a1 |-> user_stack_addr(argv_off),
                           a2 |-> user_stack_addr(env_off), sp |-> user_stack_addr(aligned)]]

-----------------------------------------------------------------------------

\* main: task_init_elf with {"init", 0} and {0}.
Init ==
  LET first == task_init_elf(<<Name>>, << >>) IN
  /\ pc = "user" /\ which = "argv" /\ i = 0 /\ off = 0
  /\ call = [argv |-> [ok |-> TRUE, strings |-> <<Name>>, unreadable |-> {}],
             envp |-> [ok |-> TRUE, strings |-> << >>, unreadable |-> {}]]
  /\ argv = NULL /\ envp = NULL /\ buffers = 0
  /\ before = [buffers |-> 0, sum |-> FALSE]
  /\ sum = FALSE /\ page_fault_handler = "none" /\ result = "main"
  /\ stack = first.stack /\ registers = first.registers

program == <<stack, registers>>

halt(how) ==
  /\ pc' = how
  /\ UNCHANGED <<call, which, i, off, argv, envp, buffers, before, sum,
                 page_fault_handler, result, program>>

panic == halt("panic")

\* SYS_execve.
Execve(c) ==
  /\ pc = "user" /\ buffers + 2 <= MaxBuffers
  /\ call' = c /\ which' = "argv" /\ before' = [buffers |-> buffers, sum |-> sum]
  /\ argv' = NULL /\ envp' = NULL /\ i' = 0 /\ off' = 0
  /\ pc' = "user_copy_args"
  /\ UNCHANGED <<buffers, sum, page_fault_handler, result, program>>

\* vm_clone of a fork: user_memcpy, whether it faults or not, ends in exit_sum.
CopyFromUser ==
  /\ pc = "user"
  /\ page_fault_handler' = "user_memcpy" /\ sum' = FALSE
  /\ UNCHANGED <<pc, call, which, i, off, argv, envp, buffers, before, result,
                 program>>

args == call[which]
argc == Len(args.strings)
buf  == IF which = "argv" THEN argv ELSE envp

Store(memory) ==
  IF which = "argv" THEN argv' = memory /\ UNCHANGED envp
                    ELSE envp' = memory /\ UNCHANGED argv

\* user_copy_args returns an error.  For envp, SYS_execve tests argv again and
\* goes on.
Failed(err) ==
  /\ IF which = "argv" THEN pc' = "user" /\ result' = err
                       ELSE pc' = "task_init_elf" /\ UNCHANGED result
  /\ Store(NULL)
  /\ UNCHANGED <<call, which, i, off, before, program>>

\* access_ok, kmalloc, ksetjmp, enter_sum.
Enter ==
  /\ pc = "user_copy_args"
  /\ IF ~args.ok
     THEN Failed("EFAULT") /\ UNCHANGED <<buffers, sum, page_fault_handler>>
     ELSE /\ buffers' = buffers + 1
          /\ page_fault_handler' = which /\ sum' = TRUE
          /\ pc' = "count"
          /\ Store([k \in 0..(ARG_MAX - 1) |-> Stale])
          /\ UNCHANGED <<call, which, i, off, before, result, program>>

\* cleanup: kfree, exit_sum.
cleanup_keep(err) ==  \* mutant: without kfree
  Failed(err) /\ sum' = FALSE /\ UNCHANGED <<buffers, page_fault_handler>>
cleanup(err) ==
  Failed(err) /\ buffers' = buffers - 1 /\ sum' = FALSE /\ UNCHANGED page_fault_handler

\* kernel_trap: a page fault while one may happen resumes the copy that has
\* stored the handler.  Of a copy that has returned nothing is left to resume.
PageFault ==
  IF ~sum THEN panic
  ELSE IF pc \in {"count", "copy"} /\ page_fault_handler = which THEN cleanup("EFAULT")
  ELSE halt("corrupt")

\* The loop that looks for NULL.  Too many strings: no cleanup.
Count ==
  /\ pc = "count"
  /\ IF 0 \in args.unreadable THEN PageFault
     ELSE IF (argc + 1) * W > ARG_MAX
     THEN Failed("E2BIG") /\ UNCHANGED <<buffers, sum, page_fault_handler>>
     ELSE /\ i' = 0 /\ off' = (argc + 1) * W /\ pc' = "copy"
          /\ UNCHANGED <<call, which, argv, envp, buffers, before, sum,
                         page_fault_handler, result, program>>

\* Mutant: a string that fills the buffer is taken for one that was cut.
Truncated_full(length, n) == length + 1 >= n
Truncated(length, n) == length >= n

CopyString ==
  /\ pc = "copy" /\ i < argc
  /\ LET n       == ARG_MAX - off
         pointed == Pointer(buf, i * W, off)
         copied  == strlcpy(pointed, off, args.strings[i + 1], n)
     IN  IF n = 0 THEN panic
         ELSE IF i + 1 \in args.unreadable THEN PageFault
         ELSE IF Truncated(copied.retval, n) THEN cleanup("E2BIG")
         ELSE /\ Store(copied.memory)
              /\ off' = off + copied.retval + 1 /\ i' = i + 1
              /\ UNCHANGED <<pc, call, which, buffers, before, sum,
                             page_fault_handler, result, program>>

\* retval[argc] = NULL, exit_sum.
CopyDone ==
  /\ pc = "copy" /\ i = argc
  /\ Store(Pointer(buf, argc * W, 0))
  /\ sum' = FALSE
  /\ IF which = "argv" THEN which' = "envp" /\ pc' = "user_copy_args"
                       ELSE pc' = "task_init_elf" /\ UNCHANGED which
  /\ UNCHANGED <<call, i, off, buffers, before, page_fault_handler, result, program>>

\* task_reinit, task_init_elf and the new kernel frame.  An error for envp is
\* used as a pointer: a page fault, or another exception, which is a panic, as
\* the address is not aligned.  The buffers are not freed.
InitElf ==
  /\ pc = "task_init_elf"
  /\ IF envp = NULL THEN PageFault \/ panic
     ELSE LET new == task_init_elf(Strings(argv), Strings(envp)) IN
          IF ~new.ok THEN panic
          ELSE /\ stack' = new.stack /\ registers' = new.registers
               /\ pc' = "user" /\ result' = "ok"
               /\ UNCHANGED <<call, which, i, off, argv, envp, buffers, before,
                              sum, page_fault_handler>>

Halted == pc \in {"panic", "corrupt"} /\ UNCHANGED vars

Next ==
  \/ \E c \in Calls : Execve(c)
  \/ CopyFromUser
  \/ Enter \/ Count \/ CopyString \/ CopyDone \/ InitElf
  \/ Halted

Spec == Init /\ [][Next]_vars

=============================================================================
