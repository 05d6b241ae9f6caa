----------------------------- MODULE PageAlloc -----------------------------
(***************************************************************************)
(* What alloc_pages and free_pages promise to the rest of the kernel       *)
(* (kernel/mm.h): a caller owns naturally aligned blocks of pages that     *)
(* nobody else owns.  A request is refused, which stops the kernel, when   *)
(* no such block of the order it asks for is left, and only then.          *)
(* Buddy.tla implements it.                                                *)
(***************************************************************************)
EXTENDS Integers

CONSTANTS
  MAX_ORDER,  \* orders are 0..MAX_ORDER-1
  Size,       \* Size[k] is the number of pages of a block of order k
  Managed     \* the page numbers that may be handed out

Order == 0..(MAX_ORDER - 1)

VARIABLES
  allocated,  \* the blocks [page, order] that callers own
  requested,  \* {the order} of the request under way, {} when there is none
  panicked    \* "out of memory"

vars == <<allocated, requested, panicked>>

Extent(b) == b.page..(b.page + Size[b.order] - 1)

Owned == UNION {Extent(b) : b \in allocated}

\* The blocks of an order that can still be handed out.
Available(order) ==
  {b \in [page : {p \in Managed : p % Size[order] = 0}, order : {order}] :
     /\ Extent(b) \subseteq Managed
     /\ Extent(b) \cap Owned = {}}

Init == allocated = {} /\ requested = {} /\ panicked = FALSE

Ready == ~panicked /\ requested = {}

Request(order) ==
  /\ Ready
  /\ Available(order) # {}
  /\ requested' = {order}
  /\ UNCHANGED <<allocated, panicked>>

Grant ==
  /\ ~panicked
  /\ \E order \in requested : \E b \in Available(order) :
       allocated' = allocated \cup {b}
  /\ requested' = {}
  /\ UNCHANGED panicked

OutOfMemory(order) ==
  /\ Ready
  /\ Available(order) = {}
  /\ requested' = {order}
  /\ panicked' = TRUE
  /\ UNCHANGED allocated

Free ==
  /\ Ready
  /\ \E b \in allocated : allocated' = allocated \ {b}
  /\ UNCHANGED <<requested, panicked>>

Next ==
  \/ \E order \in Order : Request(order) \/ OutOfMemory(order)
  \/ Grant
  \/ Free

Spec == Init /\ [][Next]_vars

=============================================================================
