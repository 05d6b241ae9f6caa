-------------------------- MODULE TaskMemoryProps --------------------------
(***************************************************************************)
(* What the memory of the tasks must guarantee.                            *)
(***************************************************************************)
EXTENDS TaskMemory

\* The address space that load_elf makes.
FileImage ==
  [v \in UPage |->
     IF v = USERSTACK - 1 THEN Zero
     ELSE IF \E i \in 1..Len(Program) :
               v \in Program[i].va..(Program[i].va + Program[i].n_pages - 1)
          THEN v ELSE None]

\* execve has begun or the file is not loaded yet: what the program will see.
Loads(t) == call.pc \in {"exec", "load", "load_page"} /\ t = call.task
Exits(t) == call.pc = "exit" /\ t = call.task

\* The fault has come, and the stack will reach down to the address.
Grown(t, v) == call.pc = "grow" /\ t = call.task /\ v >= call.page

Contents(t, v) ==
  IF table[t][v] # None THEN heap[table[t][v].frame].data
  ELSE IF Grown(t, v) THEN Zero ELSE None

\* What each program sees, or None where there is none.
Memories ==
  [t \in Task |->
     IF t \notin live \/ Exits(t) THEN None
     ELSE IF Loads(t) THEN FileImage
     ELSE [v \in UPage |-> Contents(t, v)]]

\* None is not the memory of a program.
ASSUME NoneAssumption == None \notin [UPage -> Data \cup {None}]

\* Every program sees a memory of its own: a forked one starts with the
\* contents of its parent and shares nothing with it from then on, execve
\* gives the contents of the file, a grown stack reads as zero, and no step of
\* one task changes what another sees. (vm.c:129, elf.c:13, sched.c:57)
M == INSTANCE UserMemory WITH
  StackPage <- USERSTACKMIN..(USERSTACK - 1),
  Unmapped <- None,
  Image <- FileImage,
  memory <- Memories

ImplementsUserMemory == M!Spec

-----------------------------------------------------------------------------

\* The tasks whose memory is all there.
Whole == {t \in live : ~Loads(t) /\ ~Exits(t)}

Covered(a) == heap[a].va..(heap[a].va + heap[a].n_pages - 1)

\* The list of a task's areas is a list: it ends, and its pointers agree.  It
\* is in ascending order without overlaps, and the stack is its last area, as
\* vm_find_stack and task_init_elf take for granted.  The areas say what is in
\* the page table, page for page, and with at least their permissions.
\* (vm_add_area vm.c:60, vm_clone vm.c:129, task_entry sched.c:64-80)
AreasSound ==
  \A t \in Whole :
    LET w == Walk(heap, areas[t])
        a == [i \in 1..Len(w) |-> heap[w[i]].value]
    IN  /\ Linked(heap, areas[t])
        /\ \A i \in 1..(Len(w) - 1) : heap[a[i]].va + heap[a[i]].n_pages <= heap[a[i + 1]].va
        /\ "STACK" \in heap[a[Len(w)]].flags
        /\ \A v \in UPage : table[t][v] # None <=> \E i \in 1..Len(w) : v \in Covered(a[i])
        /\ \A i \in 1..Len(w) :
             /\ ToSet(heap[a[i]].pages) = {table[t][v].frame : v \in Covered(a[i])}
             /\ \A v \in Covered(a[i]) :
                  heap[a[i]].flags \cap Permission \subseteq table[t][v].flags

\* The pages of a task, each with the place where it is found: of its i-th area
\* first the node, then the area, then the frames.
Owned(t) ==
  LET w == Walk(heap, areas[t])
  IN  UNION {LET a == heap[w[i]].value
             IN  {<<w[i], <<t, i, 1>>>>, <<a, <<t, i, 2>>>>}
                   \cup {<<heap[a].pages[j], <<t, i, j + 2>>>> : j \in 1..Len(heap[a].pages)} :
               i \in 1..Len(w)}

\* Every page allocated has one owner: whenever programs run, it is a node, an
\* area or a frame of one task, once, or an argument buffer of an earlier
\* execve.  So no page is lost but those, and none is freed or handed out
\* while it is in use.
\* (vm_area_destroy vm.c:37, list_destroy list.h:77, syscall.c:75)
PagesOwned ==
  call.pc = "user" =>
    LET owned == UNION {Owned(t) : t \in live}
    IN  /\ {o[1] : o \in owned} = used \ args
        /\ \A o, q \in owned : o[1] = q[1] => o = q

\* A program can use the whole stack region: whatever address below its stack
\* it touches, the search finds the stack. (vm_find_stack vm.c:92)
StackCanGrow ==
  \A t \in Whole, addr \in Addr :
    addr >= USERSTACKMIN * PAGE_SIZE /\ table[t][addr \div PAGE_SIZE] = None
      => vm_find_stack(t, addr) # NULL

=============================================================================
