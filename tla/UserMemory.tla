----------------------------- MODULE UserMemory -----------------------------
(***************************************************************************)
(* What fork, execve, exit and the growth of the stack promise to user     *)
(* programs: each has a memory of its own.  TaskMemory.tla implements it.  *)
(***************************************************************************)
EXTENDS Integers

CONSTANTS
  Task, UPage, StackPage, Written, Zero,
  Image,     \* page -> its contents in a fresh program, or Unmapped
  Unmapped, None

VARIABLE memory  \* task -> None or (page -> contents or Unmapped)

Init == memory = [t \in Task |-> IF t = 1 THEN Image ELSE None]

Write(t, v) ==
  /\ memory[t][v] # Unmapped
  /\ \E x \in Written : memory' = [memory EXCEPT ![t][v] = x]

\* The stack grows down to the page that was touched.
Touch(t, v) ==
  /\ v \in StackPage
  /\ memory[t][v] = Unmapped
  /\ memory' = [memory EXCEPT ![t] =
                  [w \in UPage |-> IF w >= v /\ @[w] = Unmapped /\ w \in StackPage
                                     THEN Zero ELSE @[w]]]

Fork(t) ==
  \E c \in Task : memory[c] = None /\ memory' = [memory EXCEPT ![c] = memory[t]]

Execve(t) == memory' = [memory EXCEPT ![t] = Image]

Exit(t) == t # 1 /\ memory' = [memory EXCEPT ![t] = None]

Next == \E t \in Task :
  /\ memory[t] # None
  /\ \/ \E v \in UPage : Write(t, v) \/ Touch(t, v)
     \/ Fork(t) \/ Execve(t) \/ Exit(t)

Spec == Init /\ [][Next]_memory

=============================================================================
