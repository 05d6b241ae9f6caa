----------------------------- MODULE BuddyProps -----------------------------
(***************************************************************************)
(* What the page allocator of Buddy.tla promises.                          *)
(***************************************************************************)
EXTENDS Buddy

\* The types of the variables of Buddy, and the orders its loops reach.
TypeOK ==
  /\ free \in [Order -> SUBSET Page]
  /\ allocated \subseteq Block
  /\ pc \in {"ready", "split", "merge", "panic"}
  /\ order \in Order
  /\ promoted_order \in Order
  /\ page \in Page
  /\ pc = "split" => promoted_order >= order

FreeBlocks == {b \in Block : b.page \in free[b.order]}

\* The area free_pages is working on belongs to nobody else.
Held == IF pc = "merge" THEN {[page |-> page, order |-> order]} ELSE {}

Blocks == FreeBlocks \cup allocated \cup Held

Before(b, c) == b.page + Size[b.order] <= c.page

\* No two blocks share a page, and no block is both owned and free: nothing is
\* handed out twice, nothing free is in use, and a merge never swallows a block
\* that has an owner (split_area, free_pages).
Disjoint ==
  /\ \A b, c \in Blocks : b = c \/ Before(b, c) \/ Before(c, b)
  /\ allocated \cap FreeBlocks = {}
  /\ Held \cap (allocated \cup FreeBlocks) = {}

Covers(b, p) == b.page <= p /\ p < b.page + Size[b.order]

\* The pages page_allocator_init puts in the free lists.
Managed ==
  {p \in Page : \E k \in Order :
     k >= SKIP_ORDER /\ Covers([page |-> Size[k], order |-> k], p)}

\* No page is ever lost, and none is invented: the blocks always cover what
\* the allocator was given (split_area, free_pages).
Conserved ==
  \A p \in Page : p \in Managed <=> \E b \in Blocks : Covers(b, p)

\* Between calls no two buddies are both free: free_pages has merged whatever
\* can be merged, so that a large request fails only if it must.
Coalesced ==
  pc = "ready" =>
    \A k \in Order \ {MAX_ORDER - 1} : \A p \in free[k] :
      p % Size[k + 1] = 0 => p + Size[k] \notin free[k]

\* The promise of PageAlloc: a call hands out one aligned block of the order
\* asked for, and panics when, and only when, no such block is left, however
\* split the free areas are (alloc_pages; that is what merging is for).
PA == INSTANCE PageAlloc WITH
  requested <- IF pc \in {"split", "panic"} THEN {order} ELSE {},
  panicked <- (pc = "panic")
Implements == PA!Spec

\* memlayout.h: all the RAM from the start of the page allocation area to
\* PHYSTOP is for the kernel and its user pages.
AllRamUsed ==
  \A p \in Size[SKIP_ORDER]..(PHYSIZE - 1) : \E b \in Blocks : Covers(b, p)

=============================================================================
