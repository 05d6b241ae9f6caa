----------------------------- MODULE BuddyLinks -----------------------------
(***************************************************************************)
(* The page allocator of kernel/mm.c as it is kept in memory: the list of  *)
(* the free areas of an order starts at buddy_pages[order] and goes on     *)
(* through the first word of each free page.  The same word belongs to the *)
(* owner once the page is handed out: a caller of alloc_pages writes what  *)
(* it likes there, kmalloc keeps the order of the buffer there for kfree.  *)
(*                                                                         *)
(* The steps are those of Buddy.tla, which this module implements.         *)
(***************************************************************************)
EXTENDS Integers, Sequences, SequencesExt

CONSTANTS
  MAX_ORDER, SKIP_ORDER, Size, PHYSIZE,  \* as in Buddy
  PAGE_SIZE,   \* in bytes
  HEADER,      \* sizeof(order), in bytes
  Orders,      \* the orders that alloc_pages is called with
  Requests,    \* the sizes in bytes that kmalloc is called with
  NULL

Order == 0..(MAX_ORDER - 1)
Page  == 0..(PHYSIZE - 1)

\* What kmalloc makes of a request, in pages.
PagesFor(n) == (n + PAGE_SIZE - 1 + HEADER) \div PAGE_SIZE

\* As in Buddy; and no request takes three pages, which would get two.  The
\* kernel asks for structures and for ARG_MAX bytes, one page each.
ASSUME LinksAssumption ==
  /\ MAX_ORDER \in Nat \ {0}
  /\ SKIP_ORDER \in Order
  /\ PHYSIZE \in Nat
  /\ Size \in [0..MAX_ORDER -> Nat]
  /\ Size[0] = 1
  /\ \A k \in Order : Size[k + 1] = 2 * Size[k]
  /\ \A j, k \in 0..MAX_ORDER : j <= k => Size[j] <= Size[k]
  /\ 2 * Size[MAX_ORDER - 1] <= PHYSIZE
  /\ PAGE_SIZE \in Nat \ {0}
  /\ HEADER \in Nat
  /\ Orders \subseteq Order
  /\ Requests \subseteq Nat \ {0}
  /\ \A n \in Requests : \E k \in Order : PagesFor(n) = Size[k]
  /\ NULL \notin Page

\* What the first word of a page holds.
Link(p)   == [link |-> p]
Count(k)  == [count |-> k]
Other     == [other |-> TRUE]  \* anything

VARIABLES
  buddy_pages,  \* order -> the first free area, or NULL
  word,         \* page -> its first word
  pages,        \* the blocks [page, order] owned by callers of alloc_pages
  buffers,      \* the buffers [page, size] owned by callers of kmalloc
  pc, order, promoted_order, page,  \* as in Buddy
  size          \* the parameter of the kmalloc in progress, 0 if none

vars == <<buddy_pages, word, pages, buffers, pc, order, promoted_order, page,
          size>>

-----------------------------------------------------------------------------

Upper(p, k)    == (p \div Size[k]) % 2 = 1
BuddyOf(p, k)  == IF Upper(p, k) THEN p - Size[k] ELSE p + Size[k]
ParentOf(p, k) == IF Upper(p, k) THEN p - Size[k] ELSE p

\* *(void **)p
Next_of(p) == word[p].link

\* The list that begins with an area, or NULL; one longer than PHYSIZE is a
\* cycle.
Walk(first) ==
  LET follow == [s \in Seq(Page) |->
                   LET p == IF s = << >> THEN first ELSE Next_of(Last(s))
                   IN  IF p = NULL THEN s ELSE Append(s, p)]
      walk[n \in 0..PHYSIZE] == IF n = 0 THEN << >> ELSE follow[walk[n - 1]]
  IN  walk[PHYSIZE]

\* The free areas of an order, first to last.
FreeList(k) == Walk(buddy_pages[k])

\* while (pages > 1) { ++order; pages /= 2; }
Halvings(q) ==
  LET halve[p \in 0..q] == IF p > 1 THEN 1 + halve[p \div 2] ELSE 0
  IN  halve[q]

\* Mutant: the header is not counted.
KmallocOrder_bare(n) == Halvings((n + PAGE_SIZE - 1) \div PAGE_SIZE)

\* kmalloc: the order of a request of n bytes.
KmallocOrder(n) == Halvings(PagesFor(n))

-----------------------------------------------------------------------------

\* page_allocator_init.  The first loop threads one list through all areas of
\* the top order; the second starts at the top order too.
Init ==
  LET area  == Size[MAX_ORDER - 1]
      kept  == {Size[k] : k \in SKIP_ORDER..(MAX_ORDER - 1)}
      areas == {p \in Page : p >= area /\ p % area = 0}
  IN
  /\ buddy_pages = [k \in Order |-> IF k >= SKIP_ORDER THEN Size[k] ELSE NULL]
  /\ word = [p \in Page |->
               IF p \in kept \/ p = PHYSIZE - area THEN Link(NULL)
               ELSE IF p \in areas THEN Link(p + area)
               ELSE Other]
  /\ pages = {} /\ buffers = {}
  /\ pc = "ready"
  /\ order = 0 /\ promoted_order = 0 /\ page = 0 /\ size = 0

Return ==
  /\ pc' = "ready"
  /\ order' = 0 /\ promoted_order' = 0 /\ page' = 0 /\ size' = 0

\* alloc_pages(k) up to the splitting; n is kmalloc's parameter, or 0.
StartAlloc(k, n) ==
  /\ pc = "ready"
  /\ order' = k
  /\ size' = n
  /\ \/ \E j \in k..(MAX_ORDER - 1) :
          /\ buddy_pages[j] # NULL
          /\ \A i \in k..(j - 1) : buddy_pages[i] = NULL
          /\ promoted_order' = j
          /\ pc' = "split"
     \/ /\ \A j \in k..(MAX_ORDER - 1) : buddy_pages[j] = NULL
        /\ pc' = "panic"
        /\ UNCHANGED promoted_order
  /\ UNCHANGED <<buddy_pages, word, pages, buffers, page>>

alloc_pages(k) == StartAlloc(k, 0)
kmalloc(n)     == StartAlloc(KmallocOrder(n), n)

\* Mutant: the list of the halves gets its new first area too early.
split_area_early ==
  /\ pc = "split"
  /\ promoted_order > order
  /\ LET area1 == buddy_pages[promoted_order]
         area2 == area1 + Size[promoted_order - 1] IN
     /\ buddy_pages' = [buddy_pages EXCEPT ![promoted_order] = Next_of(area1),
                                           ![promoted_order - 1] = area1]
     /\ word' = [word EXCEPT ![area1] = Link(area2), ![area2] = Link(area1)]
  /\ promoted_order' = promoted_order - 1
  /\ UNCHANGED <<pages, buffers, pc, order, page, size>>

split_area ==
  /\ pc = "split"
  /\ promoted_order > order
  /\ LET area1 == buddy_pages[promoted_order]
         area2 == area1 + Size[promoted_order - 1] IN
     /\ buddy_pages' = [buddy_pages EXCEPT ![promoted_order] = Next_of(area1),
                                           ![promoted_order - 1] = area1]
     /\ word' = [word EXCEPT
                   ![area1] = Link(area2),
                   ![area2] = Link(buddy_pages[promoted_order - 1])]
  /\ promoted_order' = promoted_order - 1
  /\ UNCHANGED <<pages, buffers, pc, order, page, size>>

\* The first area is unlinked and handed out.  From now on its words are the
\* owner's, and hold anything; kmalloc puts the order in front of its buffer.
take ==
  /\ pc = "split"
  /\ promoted_order = order
  /\ LET p == buddy_pages[order] IN
     /\ buddy_pages' = [buddy_pages EXCEPT ![order] = Next_of(p)]
     /\ word' = [q \in Page |->
                   IF q = p /\ size # 0 THEN Count(order)
                   ELSE IF q \in p..(p + Size[order] - 1) THEN Other
                   ELSE word[q]]
     /\ \/ /\ size = 0
           /\ pages' = pages \cup {[page |-> p, order |-> order]}
           /\ UNCHANGED buffers
        \/ /\ size # 0
           /\ buffers' = buffers \cup {[page |-> p, size |-> size]}
           /\ UNCHANGED pages
  /\ Return

StartFree(p, k) ==
  /\ pc = "ready"
  /\ pc' = "merge"
  /\ page' = p /\ order' = k
  /\ UNCHANGED <<buddy_pages, word, promoted_order, size>>

free_pages ==
  \E b \in pages :
    /\ StartFree(b.page, b.order)
    /\ pages' = pages \ {b}
    /\ UNCHANGED buffers

\* kfree finds the order in the word before the buffer.
kfree ==
  \E b \in buffers :
    /\ StartFree(b.page, word[b.page].count)
    /\ buffers' = buffers \ {b}
    /\ UNCHANGED pages

CanMerge ==
  /\ order # MAX_ORDER - 1
  /\ BuddyOf(page, order) \in ToSet(FreeList(order))

\* Mutant: everything in front of the buddy is unlinked as well.
merge_head ==
  /\ pc = "merge"
  /\ CanMerge
  /\ buddy_pages' =
       [buddy_pages EXCEPT ![order] = Next_of(BuddyOf(page, order))]
  /\ page' = ParentOf(page, order)
  /\ order' = order + 1
  /\ UNCHANGED <<word, pages, buffers, pc, promoted_order, size>>

\* The buddy is unlinked: *prev = *free.
merge ==
  /\ pc = "merge"
  /\ CanMerge
  /\ LET buddy == BuddyOf(page, order) IN
     \/ /\ buddy_pages[order] = buddy
        /\ buddy_pages' = [buddy_pages EXCEPT ![order] = Next_of(buddy)]
        /\ UNCHANGED word
     \/ \E prev \in ToSet(FreeList(order)) :
          /\ Next_of(prev) = buddy
          /\ word' = [word EXCEPT ![prev] = word[buddy]]
          /\ UNCHANGED buddy_pages
  /\ page' = ParentOf(page, order)
  /\ order' = order + 1
  /\ UNCHANGED <<pages, buffers, pc, promoted_order, size>>

put ==
  /\ pc = "merge"
  /\ ~CanMerge
  /\ word' = [word EXCEPT ![page] = Link(buddy_pages[order])]
  /\ buddy_pages' = [buddy_pages EXCEPT ![order] = page]
  /\ Return
  /\ UNCHANGED <<pages, buffers>>

Halted == pc = "panic" /\ UNCHANGED vars

Next ==
  \/ \E k \in Orders : alloc_pages(k)
  \/ \E n \in Requests : kmalloc(n)
  \/ split_area \/ take
  \/ free_pages \/ kfree
  \/ merge \/ put
  \/ Halted

Spec == Init /\ [][Next]_vars

-----------------------------------------------------------------------------

\* The lists threaded through the pages are the free sets of Buddy, and every
\* step is a step of Buddy, whatever the owners write into their pages
\* (split_area, free_pages, the headers of kmalloc and kfree).
B == INSTANCE Buddy WITH
  free <- [k \in Order |-> ToSet(FreeList(k))],
  allocated <- pages \cup {[page |-> b.page, order |-> word[b.page].count] :
                             b \in buffers}
ImplementsBuddy == B!Spec

\* A buffer lies within the block whose order its header names, behind the
\* header: neighbours are safe from it.
BuffersFit ==
  \A b \in buffers :
    b.size + HEADER <= PAGE_SIZE * Size[word[b.page].count]

\* No list is cyclic or runs through a page twice: the loops of free_pages and
\* dump_buddy end.
ListsEnd ==
  \A k \in Order : /\ IsInjective(FreeList(k))
                   /\ Len(FreeList(k)) < PHYSIZE

=============================================================================
