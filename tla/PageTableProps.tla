-------------------------- MODULE PageTableProps --------------------------
(***************************************************************************)
(* What the page tables must guarantee.                                    *)
(***************************************************************************)
EXTENDS PageTable

KernelHalf ==
  [va \in VPage \ UserPage |->
     CASE va[1] = SPLIT    -> Leaf(<<2, va[2], va[3]>>, "kernel")
       [] va[1] = MMIOBASE -> Leaf(<<0, va[2], va[3]>>, "device")
       [] OTHER            -> Invalid]

\* What each space translates: the space of a task without tables is None.
Spaces == [s \in Space |-> IF root[s] = None THEN None
                           ELSE [va \in VPage |-> Walk(root[s], va)]]

-----------------------------------------------------------------------------
\* Through whatever levels an address is walked, set_page changes one page of
\* one space, unset_user_pages the lower half of one space, and nobody else's
\* translation ever changes.  (mm.c 188-392.  A page mapped inside a larger one
\* would leave the others in that; no caller maps one, and no run.)
Abs == INSTANCE AddrSpace WITH
  Mappable <- VA,
  Memory <- [s \in Space |-> {Leaf(ppn, "user") : ppn \in Frame}],
  Unmapped <- Invalid,
  space <- Spaces

ImplementsAddrSpace == Abs!Spec

\* Every page allocated for a table is the root of one space or is referenced
\* by exactly one entry of a table in use, and nothing references a page that
\* is not allocated: no table is shared, lost or freed too early.
\* (do_destroy_page_table frees what set_page allocated, mm.c:361)
Refs == {r \in (used \cup {Early}) \X Idx : IsTable(mem[r[1]][r[2]])}
Roots == {s \in Space : root[s] # None}

TablesOwned ==
  /\ \A r \in Refs : mem[r[1]][r[2]].page \in used
  /\ \A s \in Roots : root[s] \in used
  /\ \A p \in used :
       Cardinality({r \in Refs : mem[r[1]][r[2]].page = p})
         + Cardinality({s \in Roots : root[s] = p}) = 1

\* Whatever table satp holds - also when task_destroy has freed it and the
\* hart idles on it - maps the kernel: every gigabyte in which no page is
\* mapped one by one goes where map_kernel_pages sent it.
\* (sched.c:174, sched.c:191)
KernelMapped ==
  \A va \in DOMAIN KernelHalf :
    va[1] \notin {w[1] : w \in Mapped} => Walk(satp, va) = KernelHalf[va]

\* A user page leads to a frame that the task has and no other: always in its
\* table, and while it runs also in what the hart holds.  Only execve undoes
\* the latter: a frame it gave back since the last sfence.vma may be another
\* task's by now.  (do_schedule flushes when satp changes, sched.c:200;
\* task_reinit gives the frames back and unmaps them, sched.c:163-164)
HeldBy(s, ppn) == \A r \in Space : ppn \in frames[r] <=> r = s

OwnTranslations ==
  /\ \A s \in Roots, va \in UserPage :
       Walk(root[s], va) # Invalid => HeldBy(s, Walk(root[s], va).ppn)
  /\ current # None =>
       \A t \in tlb : t[1] \in UserPage /\ t[2] # Invalid =>
         t[2].ppn \in given \/ HeldBy(current, t[2].ppn)

\* A translation that the hart holds is out of date only after execve: since
\* sfence.vma is left out everywhere else too, every other change must be to
\* a page that had none.  (sched.c:77, vm.c:150)
StaleOnlyAfterExecve ==
  current # None /\ ~execd =>
    \A t \in tlb : t[2] # Invalid => Walk(satp, t[1]) = t[2]

=============================================================================
