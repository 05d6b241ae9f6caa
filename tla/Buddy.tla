------------------------------- MODULE Buddy -------------------------------
(***************************************************************************)
(* The page allocator of kernel/mm.c.  A page is a number counted from     *)
(* KERN_PHYBASE, which is aligned to every block size; the free areas of   *)
(* an order are a set (BuddyLinks.tla keeps them as the code does, in      *)
(* lists threaded through the free pages).                                 *)
(*                                                                         *)
(* alloc_pages and free_pages are followed loop by loop: one step splits   *)
(* one area, or merges one pair.                                           *)
(***************************************************************************)
EXTENDS Integers, FiniteSets

CONSTANTS
  MAX_ORDER,
  SKIP_ORDER,  \* the smallest order page_allocator_init hands over
  Size,        \* Size[k] is PAGE_SIZE << k, in pages
  PHYSIZE      \* pages of RAM

Order == 0..(MAX_ORDER - 1)
Page  == 0..(PHYSIZE - 1)
Block == [page : Page, order : Order]

ASSUME BuddyAssumption ==
  /\ MAX_ORDER \in Nat \ {0}
  /\ SKIP_ORDER \in Order
  /\ PHYSIZE \in Nat
  /\ Size \in [0..MAX_ORDER -> Nat]
  /\ Size[0] = 1
  /\ \A k \in Order : Size[k + 1] = 2 * Size[k]
  /\ \A j, k \in 0..MAX_ORDER : j <= k => Size[j] <= Size[k]
  /\ 2 * Size[MAX_ORDER - 1] <= PHYSIZE

VARIABLES
  free,            \* buddy_pages: order -> the free areas of that order
  allocated,       \* the blocks callers own
  pc,              \* what the allocator is doing
  \* Local variables, 0 between calls:
  order,           \* the parameter of alloc_pages, page.order of free_pages
  promoted_order,
  page             \* page.address of free_pages

vars == <<free, allocated, pc, order, promoted_order, page>>

-----------------------------------------------------------------------------

\* The area is the upper half of its pair: address & area_size.
Upper(p, k) == (p \div Size[k]) % 2 = 1

\* Mutant: the buddy is always the block behind.
BuddyOf_plus(p, k) == p + Size[k]

\* page.address ^ area_size, and page.address & ~area_size.
BuddyOf(p, k)  == IF Upper(p, k) THEN p - Size[k] ELSE p + Size[k]
ParentOf(p, k) == IF Upper(p, k) THEN p - Size[k] ELSE p

-----------------------------------------------------------------------------

\* page_allocator_init: the second loop starts at MAX_ORDER - 1 again and
\* leaves one area in the list of every order from SKIP_ORDER up.
Init ==
  /\ free = [k \in Order |-> IF k >= SKIP_ORDER THEN {Size[k]} ELSE {}]
  /\ allocated = {}
  /\ pc = "ready"
  /\ order = 0 /\ promoted_order = 0 /\ page = 0

Return == pc' = "ready" /\ order' = 0 /\ promoted_order' = 0 /\ page' = 0

\* The loop of alloc_pages takes the smallest order of lo..hi that has a free
\* area.
Search(k, lo, hi) ==
  /\ pc = "ready"
  /\ order' = k
  /\ \/ \E j \in lo..hi :
          /\ free[j] # {}
          /\ \A i \in lo..(j - 1) : free[i] = {}
          /\ promoted_order' = j
          /\ pc' = "split"
     \/ /\ \A j \in lo..hi : free[j] = {}
        /\ pc' = "panic"
        /\ UNCHANGED promoted_order
  /\ UNCHANGED <<free, allocated, page>>

\* Mutant: the search starts at order 0.
alloc_pages_zero(k) == Search(k, 0, MAX_ORDER - 1)
alloc_pages(k)      == Search(k, k, MAX_ORDER - 1)

\* Mutant: the upper half is dropped.
split_area_lost ==
  /\ pc = "split"
  /\ promoted_order > order
  /\ \E area1 \in free[promoted_order] :
       free' = [free EXCEPT ![promoted_order] = @ \ {area1},
                            ![promoted_order - 1] = @ \cup {area1}]
  /\ promoted_order' = promoted_order - 1
  /\ UNCHANGED <<allocated, pc, order, page>>

\* split_area(promoted_order) of the first area.
split_area ==
  /\ pc = "split"
  /\ promoted_order > order
  /\ \E area1 \in free[promoted_order] :
       free' = [free EXCEPT
                  ![promoted_order] = @ \ {area1},
                  ![promoted_order - 1] =
                     @ \cup {area1, area1 + Size[promoted_order - 1]}]
  /\ promoted_order' = promoted_order - 1
  /\ UNCHANGED <<allocated, pc, order, page>>

\* The rest of alloc_pages takes the first area of the order asked for.
take ==
  /\ pc = "split"
  /\ promoted_order = order
  /\ \E p \in free[order] :
       /\ free' = [free EXCEPT ![order] = @ \ {p}]
       /\ allocated' = allocated \cup {[page |-> p, order |-> order]}
  /\ Return

\* free_pages, called for a block the caller owns.
free_pages(b) ==
  /\ pc = "ready"
  /\ b \in allocated
  /\ allocated' = allocated \ {b}
  /\ page' = b.page /\ order' = b.order
  /\ pc' = "merge"
  /\ UNCHANGED <<free, promoted_order>>

\* Mutant: areas of the last order but one are not merged.
CanMerge_short ==
  order + 1 < MAX_ORDER - 1 /\ BuddyOf(page, order) \in free[order]

CanMerge == order # MAX_ORDER - 1 /\ BuddyOf(page, order) \in free[order]

\* Mutant: the buddy is not taken off its list.
merge_keep ==
  /\ pc = "merge"
  /\ CanMerge
  /\ page' = ParentOf(page, order)
  /\ order' = order + 1
  /\ UNCHANGED <<free, allocated, pc, promoted_order>>

\* The buddy is free: both become one area, which is freed in turn.
merge ==
  /\ pc = "merge"
  /\ CanMerge
  /\ free' = [free EXCEPT ![order] = @ \ {BuddyOf(page, order)}]
  /\ page' = ParentOf(page, order)
  /\ order' = order + 1
  /\ UNCHANGED <<allocated, pc, promoted_order>>

put ==
  /\ pc = "merge"
  /\ ~CanMerge
  /\ free' = [free EXCEPT ![order] = @ \cup {page}]
  /\ Return
  /\ UNCHANGED allocated

Halted == pc = "panic" /\ UNCHANGED vars

Next ==
  \/ \E k \in Order : alloc_pages(k)
  \/ split_area \/ take
  \/ \E b \in Block : free_pages(b)
  \/ merge \/ put
  \/ Halted

Spec == Init /\ [][Next]_vars

=============================================================================
