----------------------------- MODULE PageTable -----------------------------
(***************************************************************************)
(* The Sv39 page tables of kernel/mm.c, and the hart that translates       *)
(* through them: satp, and the TLB, which only sfence.vma empties.         *)
(*                                                                         *)
(* Tasks run with interrupts off in the kernel, so a call is one step.     *)
(* The pages alloc_pages(0) may hand out for tables are those of Page, and *)
(* for the memory of tasks those of Frame.  Which free page a table gets   *)
(* makes no difference here, so CHOOSE does, and a freed table is reused   *)
(* soon, as with the allocator's lists.  A frame may be any free one: one  *)
(* that a task gave back is the next task's.                               *)
(***************************************************************************)
EXTENDS Integers, FiniteSets

CONSTANTS
  N,           \* entries per table (512)
  SPLIT,       \* the first root index of the kernel's half
  MMIOBASE,    \* the root index of the devices; KERNBASE is SPLIT
  Page,        \* pages for tables
  Early,       \* early_page_table, not allocated
  Space,       \* address spaces, one per task
  Frame,       \* page numbers of the pages for the memory of tasks
  VA,          \* space -> the virtual pages that are ever mapped in it
  None

Idx == 0..(N - 1)

\* Virtual and physical page numbers by their fields: <<vpn2, vpn1, vpn0>>.
VPage == Idx \X Idx \X Idx

UserPage == {va \in VPage : va[1] < SPLIT}

Mapped == UNION {VA[s] : s \in Space}

\* sv39_pte.  The other fields of an entry without PTE_VALID are never used.
Invalid      == [type |-> "invalid"]
Leaf(ppn, f) == [type |-> "leaf", ppn |-> ppn, flags |-> f]
Table(p)     == [type |-> "table", page |-> p]

Entry ==
  {Invalid} \cup {Table(p) : p \in Page}
    \cup {Leaf(ppn, f) : ppn \in VPage, f \in {"user", "kernel", "device"}}

ASSUME PageTableAssumption ==
  /\ N \in Nat /\ N > 2
  /\ SPLIT \in Idx \ {0}
  /\ MMIOBASE \in Idx \ 0..SPLIT
  /\ Early \notin Page
  /\ None \notin Page \cup Space \cup {Early} \cup [VPage -> Entry]
  /\ Frame \in SUBSET VPage
  /\ VA \in [Space -> SUBSET VPage]

VARIABLES
  mem,       \* the entries of every table page
  used,      \* the pages allocated for tables
  root,      \* task->page_table
  frames,    \* the pages in the lists of task->vm_areas
  current,   \* the space of current_task
  satp,      \* the root table the hart uses
  tlb,       \* cached translations <<va, entry>>, one at a time
  execd,     \* history: unset_user_pages ran on the current space since the
             \* last sfence.vma
  given,     \* history: the frames its task gave back for that
  panicked

vars ==
  <<mem, used, root, frames, current, satp, tlb, execd, given, panicked>>

-----------------------------------------------------------------------------
IsTable(e) == e.type = "table"

Empty == [i \in Idx |-> Invalid]

\* map_kernel_pages: two pages of 1 GiB, at KERNPHY and MMIOPHY.  KERNPHY is
\* frame 2 of that size.
map_kernel_pages(t) ==
  [t EXCEPT ![MMIOBASE] = Leaf(<<0, 0, 0>>, "device"),
            ![SPLIT]    = Leaf(<<2, 0, 0>>, "kernel")]

\* The loop of expand_superpage: the field of the level becomes the index.
Expanded(e, level) ==
  IF e = Invalid THEN Empty
  ELSE [i \in Idx |-> [e EXCEPT !.ppn[3 - level] = i]]

alloc_pages(u) == CHOOSE p \in Page \ u : TRUE

\* Mutant: a new table every time.
Descend_again(st, i, level) ==
  LET p == alloc_pages(st.used)
  IN  IF st.at = None \/ st.used = Page THEN [st EXCEPT !.at = None]
      ELSE [mem  |-> [st.mem EXCEPT ![p] = Empty, ![st.at][i] = Table(p)],
            used |-> st.used \cup {p},
            at   |-> p]

\* One level of set_page: the table below entry i of the table st.at, made by
\* breaking up the entry if it is none.  alloc_pages panics when memory is
\* out; at is None then.
Descend(st, i, level) ==
  LET pte == st.mem[st.at][i]
      p   == alloc_pages(st.used)
  IN  IF st.at = None          THEN st
      ELSE IF IsTable(pte)      THEN [st EXCEPT !.at = pte.page]
      ELSE IF st.used = Page    THEN [st EXCEPT !.at = None]
      ELSE [mem  |-> [st.mem EXCEPT ![p] = Expanded(pte, level),
                                    ![st.at][i] = Table(p)],
            used |-> st.used \cup {p},
            at   |-> p]

ensure_page_2m(table, va) ==
  Descend([mem |-> mem, used |-> used, at |-> table], va[1], 1)

Subtables(T) == {p \in Page : \E t \in T, i \in Idx : mem[t][i] = Table(p)}

\* Mutant: the last level stays allocated.
destroyed_flat(T, depth) == IF depth = 2 THEN T \cup Subtables(T) ELSE T

\* The pages do_destroy_page_table frees, started on the tables T.
destroyed(T, depth) ==
  IF depth = 2 THEN T \cup Subtables(T) \cup Subtables(Subtables(T))
               ELSE T \cup Subtables(T)

\* "invalid page table - too deep"
TooDeep(T, depth) ==
  Subtables(IF depth = 2 THEN Subtables(Subtables(T)) ELSE Subtables(T)) # {}

\* Mutant: freed tables are wiped.
Freed_wiped(m, pages) == [p \in DOMAIN m |-> IF p \in pages THEN Empty ELSE m[p]]

\* A freed page keeps its contents, but for the link in its first word.  The
\* kernel's half of the table in satp is all that can matter of them, and all
\* that is kept here.
Freed(m, pages) ==
  [p \in DOMAIN m |->
     IF p \in pages
       THEN [i \in Idx |-> IF i >= SPLIT /\ p = satp THEN m[p][i] ELSE Invalid]
       ELSE m[p]]

\* The walk of the hardware.
Walk(table, va) ==
  LET e2 == mem[table][va[1]]
      e1 == mem[e2.page][va[2]]
  IN  IF ~IsTable(e2)
        THEN IF e2 = Invalid THEN Invalid
             ELSE [e2 EXCEPT !.ppn = <<@[1], va[2], va[3]>>]
      ELSE IF ~IsTable(e1)
        THEN IF e1 = Invalid THEN Invalid
             ELSE [e1 EXCEPT !.ppn = <<@[1], @[2], va[3]>>]
      ELSE mem[e1.page][va[3]]

-----------------------------------------------------------------------------
\* establish_identical_mapping has filled early_page_table.
Init ==
  /\ mem = [p \in Page \cup {Early} |->
              IF p = Early THEN map_kernel_pages(Empty) ELSE Empty]
  /\ used = {}
  /\ root = [s \in Space |-> None] /\ frames = [s \in Space |-> {}]
  /\ current = None
  /\ satp = Early
  /\ tlb = {} /\ execd = FALSE /\ given = {}
  /\ panicked = "no"

\* A task runs in the kernel, or main does, on early_page_table.
Running == panicked = "no" /\ (current # None \/ satp = Early)

panic(what) == panicked' = what /\ UNCHANGED <<mem, used, root, current, satp>>

set_page(table, va, leaf) ==
  LET last == Descend(ensure_page_2m(table, va), va[2], 0)
  IN  IF last.at = None THEN panic("out of memory")
      ELSE /\ mem' = [last.mem EXCEPT ![last.at][va[3]] = leaf]
           /\ used' = last.used
           /\ UNCHANGED <<root, current, satp, panicked>>

\* mm_init: the entry of page 0 is written with no flags.
MmInit ==
  /\ Running /\ satp = Early
  /\ ~IsTable(mem[Early][0])
  /\ set_page(Early, <<0, 0, 0>>, Invalid)
  /\ tlb' = {} /\ UNCHANGED <<frames, execd, given>>

\* create_page_table, for task_create; main makes one task, after mm_init.
Create(s) ==
  /\ Running /\ UNCHANGED <<frames, tlb, execd, given>>
  /\ current = None => IsTable(mem[Early][0]) /\ \A r \in Space : root[r] = None
  /\ root[s] = None
  /\ IF used = Page THEN panic("out of memory")
     ELSE LET p == alloc_pages(used)
          IN  /\ mem' = [mem EXCEPT ![p] = map_kernel_pages(Empty)]
              /\ used' = used \cup {p}
              /\ root' = [root EXCEPT ![s] = p]
              /\ UNCHANGED <<current, satp, panicked>>

FreeFrames == Frame \ UNION {frames[s] : s \in Space}

\* A page for load_elf, vm_clone or the stack: any free one is put in the list
\* of an area, and set_page maps it, in a space that is being filled or below
\* the stack of the current one, where nothing is mapped.
MapPage(s, va) ==
  /\ Running
  /\ root[s] # None
  /\ s = current /\ ~execd => Walk(root[s], va) = Invalid
  /\ \/ /\ FreeFrames = {} /\ panic("out of memory") /\ UNCHANGED frames
     \/ \E ppn \in FreeFrames :
          /\ frames' = [frames EXCEPT ![s] = @ \cup {ppn}]
          /\ set_page(root[s], va, Leaf(ppn, "user"))
  /\ UNCHANGED <<tlb, execd, given>>

\* The areas' pages go back to the allocator.
vm_decref_all(s) == frames' = [frames EXCEPT ![s] = {}]

\* Mutant: the loop goes one too far.
UserEntries_closed == 0..SPLIT

\* The entries the loop of unset_user_pages reaches.
UserEntries == 0..(SPLIT - 1)

\* task_reinit, for execve, gives the memory back and unmaps it.  No
\* sfence.vma follows.
unset_user_pages ==
  /\ Running /\ current # None
  /\ vm_decref_all(current) /\ UNCHANGED tlb
  /\ LET t    == root[current]
         subs == {mem[t][i].page : i \in {j \in UserEntries : IsTable(mem[t][j])}}
         gone == destroyed(subs, 1)
     IN  IF TooDeep(subs, 1)
           THEN panic("too deep") /\ UNCHANGED <<execd, given>>
         ELSE /\ mem' = [Freed(mem, gone) EXCEPT ![t] =
                           [i \in Idx |-> IF i \in UserEntries THEN Invalid ELSE @[i]]]
              /\ used' = used \ gone
              /\ execd' = TRUE /\ given' = given \cup frames[current]
              /\ UNCHANGED <<root, current, satp, panicked>>

\* destroy_page_table in task_destroy, after the memory: the hart goes on with
\* the freed table until do_schedule loads another.
destroy_page_table ==
  /\ Running /\ current # None
  /\ vm_decref_all(current) /\ UNCHANGED <<tlb, execd, given>>
  /\ LET T    == {root[current]}
         gone == destroyed(T, 2)
     IN  IF TooDeep(T, 2) THEN panic("too deep")
         ELSE /\ mem' = Freed(mem, gone)
              /\ used' = used \ gone
              /\ root' = [root EXCEPT ![current] = None]
              /\ current' = None
              /\ UNCHANGED <<satp, panicked>>

\* Mutant: no sfence.vma.
write_satp_nofence(t) == satp' = t /\ UNCHANGED <<tlb, execd, given>>

\* do_schedule flushes only when satp changes.
write_satp(t) ==
  /\ satp' = t
  /\ IF satp = t THEN UNCHANGED <<tlb, execd, given>>
                 ELSE tlb' = {} /\ execd' = FALSE /\ given' = {}

do_schedule(s) ==
  /\ panicked = "no"
  /\ root[s] # None
  /\ current' = s
  /\ write_satp(root[s])
  /\ UNCHANGED <<mem, used, root, frames, panicked>>

\* Nothing to run: idle keeps satp.
Idle ==
  /\ panicked = "no"
  /\ current' = None
  /\ satp # Early
  /\ UNCHANGED <<mem, used, root, frames, satp, tlb, execd, given, panicked>>

\* The hart caches what a walk finds, be it that a page has no translation,
\* and drops others, at any time.  What it holds of other pages makes no
\* difference to a page, so one entry will do.
Fill(va) ==
  /\ panicked = "no"
  /\ tlb' = {<<va, Walk(satp, va)>>}
  /\ UNCHANGED
       <<mem, used, root, frames, current, satp, execd, given, panicked>>

\* _panic loops for ever.
Halted == panicked # "no" /\ UNCHANGED vars

Next ==
  \/ MmInit
  \/ \E s \in Space : Create(s) \/ do_schedule(s)
  \/ \E s \in Space : \E va \in VA[s] : MapPage(s, va)
  \/ unset_user_pages
  \/ destroy_page_table
  \/ Idle
  \/ \E va \in Mapped : Fill(va)
  \/ Halted

Spec == Init /\ [][Next]_vars

=============================================================================
