----------------------------- MODULE TaskMemory -----------------------------
(***************************************************************************)
(* The memory of the tasks: kernel/vm.c, load_elf of kernel/elf.c, the     *)
(* growth of the stack in task_entry, task_clone, task_reinit and          *)
(* task_destroy of kernel/sched.c.                                         *)
(*                                                                         *)
(* Frames, struct vm_area and the nodes of vm_areas all come from one pool *)
(* of pages, as kmalloc takes a page for each.  A step is one pass of a    *)
(* loop; handlers run with interrupts off, so no program takes a step      *)
(* before the loop is done.  area->pages is a sequence here, and its nodes *)
(* are left out; the list of the areas has its pointers.                   *)
(***************************************************************************)
EXTENDS Lists

CONSTANTS
  Task,          \* tasks that can exist at a time; 1 is init
  Page,          \* the pages of the allocator
  PAGE_SIZE,     \* units in which fault addresses are told apart
  USERSTACKMIN,  \* the first page of the stack region
  USERSTACK,     \* the page after the last one
  Program,       \* the PT_LOAD segments of the file: [va, n_pages, flags]
  Written,       \* what user programs write
  Zero,          \* contents of a cleared page
  Stale,         \* what a page held before it was allocated
  MaxExec,       \* bound on the calls of execve
  None

UPage == 0..(USERSTACK - 1)
Addr  == 0..(USERSTACK * PAGE_SIZE - 1)

Data == Written \cup UPage \cup {Zero, Stale}

Permission == {"r", "w", "x"}

\* Segments are in ascending order, as the ELF specification demands, and end
\* before the stack region: an address just behind an area counts as inside.
ASSUME MemoryAssumption ==
  /\ 1 \in Task
  /\ IsFiniteSet(Page)
  /\ PAGE_SIZE \in Nat \ {0}
  /\ USERSTACKMIN \in Nat /\ USERSTACK \in Nat /\ USERSTACKMIN < USERSTACK
  /\ MaxExec \in Nat
  /\ NULL \notin Page /\ None \notin Data
  /\ \A frame \in Page, flags \in SUBSET Permission :
       None # [frame |-> frame, flags |-> flags]
  /\ Written \cap (UPage \cup {Zero, Stale}) = {}
  /\ {Zero, Stale} \cap UPage = {} /\ Zero # Stale
  /\ Program \in Seq([va : Nat, n_pages : Nat, flags : SUBSET Permission])
  /\ \A i \in 1..Len(Program) :
       Program[i].va + Program[i].n_pages <=
         IF i < Len(Program) THEN Program[i + 1].va ELSE USERSTACKMIN - 1

VARIABLES
  heap,      \* page -> what the kernel has stored there
  used,      \* the pages allocated
  areas,     \* task->vm_areas
  table,     \* task->page_table: page -> [frame, flags] or None
  live,      \* tasks that exist
  args,      \* history: the argument buffers execve has left behind
  call,      \* the kernel function that runs and its locals
  panicked

vars == <<heap, used, areas, table, live, args, call, panicked>>

Frame(data) == [data |-> data]
Free        == [free |-> TRUE]

vm_area_create(va, n_pages, flags) ==
  [va |-> va, n_pages |-> n_pages, flags |-> flags, refcount |-> 0, pages |-> << >>]

\* No kernel function runs: a program does.
User == [pc |-> "user"]

\* load_elf at its i-th segment.
Load(t, i) == [pc |-> "load", task |-> t, index |-> i]

panic == panicked' = TRUE /\ UNCHANGED <<heap, used, areas, table, live, args, call>>

Empty == [v \in UPage |-> None]

-----------------------------------------------------------------------------
(* Allocation                                                              *)

New(S)   == CHOOSE p \in Page : p \notin S
NewPage  == New(used)
NextPage == New(used \cup {NewPage})

\* There are two pages.
Room == \E p, q \in Page \ used : p # q

\* alloc_pages, vm_area_add_page and set_page_user: the area at a becomes this
\* one, with a page of the given contents more.
AddPage(t, a, area, va, contents, flags) ==
  IF used = Page THEN panic
  ELSE /\ used' = used \cup {NewPage}
       /\ heap' = [heap EXCEPT ![NewPage] = Frame(contents),
                               ![a] = [area EXCEPT !.pages = Append(@, NewPage)]]
       /\ table' = [table EXCEPT ![t][va] = [frame |-> NewPage, flags |-> flags]]
       /\ UNCHANGED <<areas, live, args, call, panicked>>

\* The first of two new pages holds an area, the second its node.
Created(area) ==
  [heap EXCEPT ![NewPage] = area, ![NextPage] = list_node_create(NewPage)]

\* The node goes to the end of a list that is at s.
AddArea(t, s) ==
  LET pushed == list_push(s.memory, s.list, NextPage)
  IN  /\ used' = used \cup {NewPage, NextPage}
      /\ heap' = pushed.memory
      /\ areas' = [areas EXCEPT ![t] = pushed.list]
      /\ UNCHANGED <<table, live, args, panicked>>

AreaOf(memory, node) == memory[memory[node].value]

-----------------------------------------------------------------------------
(* load_elf                                                                *)

\* The stack is loaded like a last segment.
Segments == Append(Program, [va |-> USERSTACK - 1, n_pages |-> 1,
                             flags |-> {"r", "w", "STACK"}])

\* The loop of vm_add_area: the new node goes before every node with a greater
\* address (and then to the end).
Inserted(memory, list, node, va) ==
  LET w == Walk(memory, list)
      ins[i \in 0..Len(w)] ==
        IF i = 0 THEN [memory |-> memory, list |-> list]
        ELSE IF AreaOf(memory, w[i]).va > va
             THEN list_insert_before(ins[i - 1].memory, ins[i - 1].list, node, w[i])
             ELSE ins[i - 1]
  IN  ins[Len(w)]

\* vm_area_create and vm_add_area.
LoadArea ==
  /\ call.pc = "load" /\ call.index <= Len(Segments)
  /\ LET s == Segments[call.index]
         area == vm_area_create(s.va, s.n_pages, s.flags)
         memory == Created([area EXCEPT !.refcount = @ + 1])
     IN  IF ~Room THEN panic
         ELSE /\ AddArea(call.task,
                         Inserted(memory, areas[call.task], NextPage, s.va))
              /\ call' = [pc |-> "load_page", task |-> call.task,
                          index |-> call.index, area |-> NewPage]

LoadPage ==
  /\ call.pc = "load_page"
  /\ LET area == heap[call.area]
         va == area.va + Len(area.pages)
     IN  /\ Len(area.pages) < area.n_pages
         /\ AddPage(call.task, call.area, area, va,
                    IF call.index > Len(Program) THEN Zero ELSE va,
                    area.flags \cap Permission)

LoadNext ==
  /\ call.pc = "load_page"
  /\ Len(heap[call.area].pages) >= heap[call.area].n_pages
  /\ call' = Load(call.task, call.index + 1)
  /\ UNCHANGED <<heap, used, areas, table, live, args, panicked>>

LoadDone ==
  /\ call.pc = "load" /\ call.index > Len(Segments)
  /\ call' = User
  /\ UNCHANGED <<heap, used, areas, table, live, args, panicked>>

-----------------------------------------------------------------------------
(* vm_clone: call.node is the node of the parent that list_foreach is at.  *)

\* The bits are combined with |, which is never zero.
pte_flags_from_vm_flags(vm_flags) == {f \in Permission : vm_flags \cup {f} # {}}

\* copy_from_user through the page table of the parent.  vm_clone goes on when
\* it fails, with whatever the new page held.
copy_from_user(t, va) ==
  IF "r" \in table[t][va].flags THEN heap[table[t][va].frame].data ELSE Stale

\* Mutant: of the flags only the permissions are copied.
area_copy_permissions(area) ==
  [area EXCEPT !.refcount = 1, !.pages = << >>, !.flags = @ \cap Permission]

area_copy(area) == [area EXCEPT !.refcount = 1, !.pages = << >>]

CloneArea ==
  /\ call.pc = "clone" /\ call.node # NULL
  /\ IF ~Room THEN panic
     ELSE /\ AddArea(call.child, [memory |-> Created(area_copy(AreaOf(heap, call.node))),
                                  list   |-> areas[call.child]])
          /\ call' = [pc |-> "clone_page", task |-> call.task, child |-> call.child,
                      node |-> call.node, area |-> NewPage]

\* Mutant: the child gets the parent's frame.
clone_page_shared(t, c, a, va) ==
  LET f == table[t][va].frame
  IN  /\ heap' = [heap EXCEPT ![a].pages = Append(@, f)]
      /\ table' = [table EXCEPT ![c][va] = [frame |-> f, flags |-> Permission]]
      /\ UNCHANGED <<used, areas, live, args, call, panicked>>

clone_page(t, c, a, va) ==
  AddPage(c, a, heap[a], va, copy_from_user(t, va),
          pte_flags_from_vm_flags(heap[a].flags))

ClonePage ==
  /\ call.pc = "clone_page"
  /\ LET area == heap[call.area]
     IN  /\ Len(area.pages) < area.n_pages
         /\ clone_page(call.task, call.child, call.area, area.va + Len(area.pages))

CloneNext ==
  /\ call.pc = "clone_page"
  /\ Len(heap[call.area].pages) >= heap[call.area].n_pages
  /\ call' = [pc |-> "clone", task |-> call.task, child |-> call.child,
              node |-> heap[call.node].next]
  /\ UNCHANGED <<heap, used, areas, table, live, args, panicked>>

CloneDone ==
  /\ call.pc = "clone" /\ call.node = NULL
  /\ live' = live \cup {call.child}
  /\ call' = User
  /\ UNCHANGED <<heap, used, areas, table, args, panicked>>

-----------------------------------------------------------------------------
(* vm_decref_all: call.node is the node that list_foreach is at.           *)

\* What the pages given back held is gone, but for what list_destroy reads.
DecrefArea ==
  LET a == heap[call.node].value
      freed == IF heap[a].refcount = 1 THEN ToSet(heap[a].pages) \cup {a} ELSE {}
  IN  /\ call.pc \in {"exec", "exit"} /\ call.node # NULL
      /\ used' = used \ freed
      /\ heap' = [p \in Page |->
                    IF p \in freed THEN Free
                    ELSE IF p = a THEN [heap[p] EXCEPT !.refcount = @ - 1]
                    ELSE heap[p]]
      /\ call' = [pc |-> call.pc, task |-> call.task, node |-> heap[call.node].next]
      /\ UNCHANGED <<areas, table, live, args, panicked>>

\* kfree: the allocator writes its link over the first words of the page; the
\* rest, next included, stays until the page is handed out again.
kfreed_next(contents) ==  \* mutant: the link lies over next
  IF "next" \in DOMAIN contents THEN [contents EXCEPT !.next = NULL] ELSE contents
kfreed(contents) ==
  IF "value" \in DOMAIN contents THEN [contents EXCEPT !.value = NULL] ELSE contents

\* list_destroy frees each node and then reads its next.
list_destroyed(t) ==
  ToSet(Walk([p \in Page |-> kfreed(heap[p])], areas[t]))

\* The list and the user pages of the table go too; execve then loads the file.
DecrefDone ==
  LET t == call.task
  IN  /\ call.pc \in {"exec", "exit"} /\ call.node = NULL
      /\ used' = used \ list_destroyed(t)
      /\ heap' = [p \in Page |-> IF p \in list_destroyed(t) THEN Free ELSE heap[p]]
      /\ areas' = [areas EXCEPT ![t] = list_init]
      /\ table' = [table EXCEPT ![t] = Empty]
      /\ IF call.pc = "exec" THEN call' = Load(t, 1) /\ live' = live
         ELSE call' = User /\ live' = live \ {t}
      /\ UNCHANGED <<args, panicked>>

-----------------------------------------------------------------------------
(* Fault addresses and the growth of the stack                             *)

\* vm_area_in counts the end as inside.
vm_area_in(area, addr) ==
  /\ addr >= area.va * PAGE_SIZE
  /\ addr <= (area.va + area.n_pages) * PAGE_SIZE

\* The first area that holds the address or begins behind it decides.
vm_find_stack(t, addr) ==
  LET w == Walk(heap, areas[t])
      deciding == {i \in 1..Len(w) : \/ vm_area_in(AreaOf(heap, w[i]), addr)
                                     \/ AreaOf(heap, w[i]).va * PAGE_SIZE > addr}
      found == w[CHOOSE i \in deciding : \A j \in deciding : i <= j]
  IN  IF \/ deciding = {}
         \/ vm_area_in(AreaOf(heap, found), addr)
         \/ "STACK" \notin AreaOf(heap, found).flags
      THEN NULL ELSE heap[found].value

\* Mutant: the page is not counted.
grow_page_uncounted(t, a) ==
  AddPage(t, a, [heap[a] EXCEPT !.va = @ - 1], heap[a].va - 1, Zero,
          pte_flags_from_vm_flags(heap[a].flags))

\* The loop of task_entry that adds a page below the area.
grow_page(t, a) ==
  AddPage(t, a, [heap[a] EXCEPT !.va = @ - 1, !.n_pages = @ + 1], heap[a].va - 1, Zero,
          pte_flags_from_vm_flags(heap[a].flags))

GrowPage ==
  /\ call.pc = "grow" /\ heap[call.area].va > call.page
  /\ grow_page(call.task, call.area)

GrowDone ==
  /\ call.pc = "grow" /\ heap[call.area].va <= call.page
  /\ call' = User
  /\ UNCHANGED <<heap, used, areas, table, live, args, panicked>>

-----------------------------------------------------------------------------
(* What makes the kernel run                                               *)

\* main: task_create and task_init_elf.
Init ==
  /\ heap = [p \in Page |-> Free] /\ used = {}
  /\ areas = [t \in Task |-> list_init]
  /\ table = [t \in Task |-> Empty]
  /\ live = {1} /\ args = {}
  /\ call = Load(1, 1)
  /\ panicked = FALSE

\* Any task may be the one that runs.
Runs(t) == call.pc = "user" /\ t \in live

Allowed(t, va, access) == table[t][va] # None /\ access \in table[t][va].flags

UserWrite(t, va) ==
  /\ Runs(t) /\ Allowed(t, va, "w")
  /\ \E x \in Written : heap' = [heap EXCEPT ![table[t][va].frame] = Frame(x)]
  /\ UNCHANGED <<used, areas, table, live, args, call, panicked>>

\* SYS_fork: task_clone, with a list and a page table that are new.
Fork(t) ==
  LET c == CHOOSE d \in Task : d \notin live
  IN  /\ Runs(t) /\ live # Task
      /\ areas' = [areas EXCEPT ![c] = list_init]
      /\ table' = [table EXCEPT ![c] = Empty]
      /\ call' = [pc |-> "clone", task |-> t, child |-> c, node |-> areas[t].first]
      /\ UNCHANGED <<heap, used, live, args, panicked>>

\* SYS_execve: argv and envp are copied to buffers, the old memory goes, the
\* file is loaded.  The buffers are never freed.
Execve(t) ==
  /\ Runs(t) /\ Cardinality(args) < 2 * MaxExec
  /\ IF ~Room THEN panic
     ELSE /\ used' = used \cup {NewPage, NextPage}
          /\ args' = args \cup {NewPage, NextPage}
          /\ call' = [pc |-> "exec", task |-> t, node |-> areas[t].first]
          /\ UNCHANGED <<heap, areas, table, live, panicked>>

\* task_destroy.
Destroy(t) ==
  IF t = 1 THEN panic
  ELSE /\ call' = [pc |-> "exit", task |-> t, node |-> areas[t].first]
       /\ UNCHANGED <<heap, used, areas, table, live, args, panicked>>

Exit(t) == Runs(t) /\ Destroy(t)

\* A load or store the page table does not allow, in the stack region and
\* below the stack or else.
UserFault(t, addr, access) ==
  LET page == addr \div PAGE_SIZE
      area == IF page >= USERSTACKMIN THEN vm_find_stack(t, addr) ELSE NULL
  IN  /\ Runs(t) /\ ~Allowed(t, page, access)
      /\ IF area = NULL THEN Destroy(t)
         ELSE /\ call' = [pc |-> "grow", task |-> t, area |-> area, page |-> page]
              /\ UNCHANGED <<heap, used, areas, table, live, args, panicked>>

Halted == panicked /\ UNCHANGED vars

Next ==
  \/ /\ ~panicked
     /\ \/ LoadArea \/ LoadPage \/ LoadNext \/ LoadDone
        \/ CloneArea \/ ClonePage \/ CloneNext \/ CloneDone
        \/ DecrefArea \/ DecrefDone
        \/ GrowPage \/ GrowDone
        \/ \E t \in Task :
             \/ \E va \in UPage : UserWrite(t, va)
             \/ Fork(t) \/ Execve(t) \/ Exit(t)
             \/ \E addr \in Addr, access \in {"r", "w"} : UserFault(t, addr, access)
  \/ Halted

Spec == Init /\ [][Next]_vars

=============================================================================
