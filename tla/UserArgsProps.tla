--------------------------- MODULE UserArgsProps ---------------------------
(***************************************************************************)
(* What execve promises about its arguments.                               *)
(***************************************************************************)
EXTENDS UserArgs

Readable(a) == a.ok /\ a.unreadable = {}

\* What an array takes in a buffer: pointers, NULL and strings.
Size(a) == (Len(a.strings) + 1) * W + size(a.strings)

Fits(c) ==
  /\ Readable(c.argv) /\ Readable(c.envp)
  /\ Size(c.argv) <= ARG_MAX /\ Size(c.envp) <= ARG_MAX
  /\ Size(c.argv) + Size(c.envp) <= PAGE_SIZE

\* A program has started with its arguments.
Accepted == result \in {"main", "ok"}

TooMany(a) == (Len(a.strings) + 1) * W > ARG_MAX

\* Arguments that can be read and fit, to the last byte, are accepted and
\* never panic the kernel; others are never accepted, and an error says what
\* was wrong with argv. (mm.c:467-478, elf.c:147, string.c:11)
ResultRight ==
  /\ pc = "user" => (Accepted <=> Fits(call))
  /\ pc = "user" /\ result = "EFAULT" => ~Readable(call.argv)
  /\ pc = "user" /\ result = "E2BIG" => Size(call.argv) > ARG_MAX
  /\ pc \in {"panic", "corrupt"} => ~Fits(call)

At(address) == stack[PAGE_SIZE - (USERSTACK - address)]

Seen(array, n) ==
  [k \in 1..n |-> StringAt(stack, PAGE_SIZE - (USERSTACK - At(array + (k - 1) * W)))]

\* After execve the program finds argc, every argument and every variable of
\* its environment, which ends in NULL, as they were passed, in the part of its
\* stack at and above sp, which is aligned. (task_init_elf elf.c:140-178)
ProgramSeesArguments ==
  pc = "user" /\ Accepted =>
    /\ registers.a0 = Len(call.argv.strings)
    /\ Seen(registers.a1, registers.a0) = call.argv.strings
    /\ Seen(registers.a2, Len(call.envp.strings)) = call.envp.strings
    /\ At(registers.a2 + Len(call.envp.strings) * W) = 0
    /\ registers.sp <= registers.a1 /\ registers.sp >= USERSTACK - PAGE_SIZE
    /\ (USERSTACK - registers.sp) % (2 * W) = 0

\* A call that fails leaves nothing behind: no buffer, and no SUM and armed
\* page fault handler that were not there before.  The exceptions are a list
\* with too many strings, which leaves all of these, and success, which leaves
\* both buffers. (mm.c:468, mm.c:485, syscall.c:69-83)
NothingLeftBehind ==
  pc = "user" =>
    /\ sum => before.sum \/ (result = "E2BIG" /\ TooMany(call.argv))
    /\ buffers = before.buffers + CASE result = "ok" -> 2
                                    [] result = "E2BIG" /\ TooMany(call.argv) -> 1
                                    [] OTHER -> 0

=============================================================================
