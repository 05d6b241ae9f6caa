---------------------------- MODULE BuddyProofs ----------------------------
(***************************************************************************)
(* Proofs about the page allocator of Buddy.tla, for any number of orders  *)
(* and any amount of RAM: it shares and loses no page, leaves no pair of   *)
(* buddies unmerged and implements PageAlloc.tla.                          *)
(***************************************************************************)
EXTENDS BuddyProps, TLAPS, WellFoundedInduction

\* Every block lies within RAM.
Fits == \A b \in Blocks : b.page + Size[b.order] <= PHYSIZE

\* The inductive invariant: Disjoint by itself says nothing of the block that
\* a merge or a split is about to make; Fits bounds it.
IInv == TypeOK /\ Fits /\ Disjoint

-----------------------------------------------------------------------------

\* A block is never empty, and two buddies make a block of the next order.
LEMMA SizeFacts ==
  /\ \A k \in Order : k + 1 \in 0..MAX_ORDER /\ k \in 0..MAX_ORDER
  /\ \A k \in Order : Size[k] \in Nat /\ Size[k] >= 1
  /\ \A k \in Order : Size[k + 1] = Size[k] + Size[k]
  /\ \A k \in Order : Size[k + 1] \in Nat
  /\ \A k \in Order : Size[k] + Size[k] <= PHYSIZE
  /\ \A j, k \in Order : j < k => Size[j + 1] <= Size[k]
<1>1. \A k \in Order : k + 1 \in 0..MAX_ORDER /\ k \in 0..MAX_ORDER
  BY BuddyAssumption DEF Order
<1>2. 0 \in 0..MAX_ORDER /\ MAX_ORDER - 1 \in Order
  BY BuddyAssumption DEF Order
<1>3. \A k \in 0..MAX_ORDER : Size[k] \in Nat
  BY BuddyAssumption
<1>4. \A k \in Order : Size[k] >= 1
  BY <1>1, <1>2, <1>3, BuddyAssumption DEF Order
<1>5. \A k \in Order : Size[k + 1] = Size[k] + Size[k]
  BY <1>1, <1>3, BuddyAssumption, SMTT(30)
<1>6. \A k \in Order : Size[k] <= Size[MAX_ORDER - 1]
  BY <1>1, <1>2, BuddyAssumption DEF Order
<1>7. \A k \in Order : Size[k] + Size[k] <= PHYSIZE
  <2> TAKE k \in Order
  <2>1. Size[k] \in Nat /\ Size[MAX_ORDER - 1] \in Nat
    BY <1>1, <1>2, <1>3
  <2>2. Size[k] <= Size[MAX_ORDER - 1] /\ 2 * Size[MAX_ORDER - 1] <= PHYSIZE
    BY <1>6, BuddyAssumption
  <2>3. PHYSIZE \in Nat
    BY BuddyAssumption
  <2> QED BY <2>1, <2>2, <2>3
<1>8. \A j, k \in Order : j < k => Size[j + 1] <= Size[k]
  <2>1. \A j, k \in Order : j < k => j + 1 <= k
    BY DEF Order
  <2> QED BY <1>1, <2>1, BuddyAssumption
<1> QED BY <1>1, <1>3, <1>4, <1>5, <1>7, <1>8

-----------------------------------------------------------------------------

\* The blocks, seen as sets of pages by their ends.
LEMMA BlockFacts ==
  ASSUME TypeOK
  PROVE  /\ FreeBlocks \subseteq Block
         /\ Held \subseteq Block
         /\ Blocks \subseteq Block
         /\ \A b \in Blocks : /\ b.page \in Nat
                             /\ b.order \in Order
                             /\ Size[b.order] \in Nat
                             /\ Size[b.order] >= 1
<1>1. FreeBlocks \subseteq Block
  BY DEF FreeBlocks
<1>2. Held \subseteq Block
  BY DEF TypeOK, Held, Block
<1>3. Blocks \subseteq Block
  BY <1>1, <1>2 DEF TypeOK, Blocks
<1>4. \A b \in Block : b.page \in Nat /\ b.order \in Order
  BY DEF Block, Page
<1> QED BY <1>1, <1>2, <1>3, <1>4, SizeFacts

LEMMA InitIInv == Init => IInv
<1> SUFFICES ASSUME Init PROVE IInv
  OBVIOUS
<1>1. TypeOK
  <2>1. \A k \in Order : Size[k] \in Page
    <3> TAKE k \in Order
    <3>1. Size[k] \in Nat /\ Size[k] >= 1 /\ Size[k] + Size[k] <= PHYSIZE
      BY SizeFacts
    <3>2. PHYSIZE \in Nat
      BY BuddyAssumption
    <3> QED BY <3>1, <3>2 DEF Page
  <2>2. free \in [Order -> SUBSET Page]
    BY <2>1 DEF Init
  <2>3. 0 \in Order /\ 0 \in Page
    BY BuddyAssumption, SizeFacts DEF Order, Page
  <2> QED BY <2>2, <2>3 DEF Init, TypeOK
<1>2. Blocks = FreeBlocks /\ Held = {} /\ allocated = {}
  BY DEF Init, Blocks, Held
<1>3. \A b \in Blocks : b.order \in Order /\ b.page = Size[b.order]
  BY <1>2 DEF Init, FreeBlocks, Block
<1>4. Fits
  BY <1>3, SizeFacts DEF Fits
<1>5. \A b, c \in Blocks : b = c \/ Before(b, c) \/ Before(c, b)
  <2> TAKE b, c \in Blocks
  <2>1. b \in Block /\ c \in Block
    BY <1>2 DEF FreeBlocks
  <2>2. CASE b.order = c.order
    <3>1. b.page = c.page
      BY <1>3, <2>2
    <3> QED BY <2>1, <2>2, <3>1 DEF Block
  <2>3. CASE b.order < c.order
    <3>1. Size[b.order + 1] <= Size[c.order]
      BY <1>3, <2>3, SizeFacts
    <3> QED BY <1>3, <3>1, SizeFacts DEF Before
  <2>4. CASE c.order < b.order
    <3>1. Size[c.order + 1] <= Size[b.order]
      BY <1>3, <2>4, SizeFacts
    <3> QED BY <1>3, <3>1, SizeFacts DEF Before
  <2>5. b.order \in Int /\ c.order \in Int
    BY <1>3, BuddyAssumption, SMTT(30) DEF Order
  <2>6. b.order = c.order \/ b.order < c.order \/ c.order < b.order
    BY <2>5
  <2> QED BY <2>2, <2>3, <2>4, <2>6
<1>6. Disjoint
  BY <1>2, <1>5 DEF Disjoint
<1> QED BY <1>1, <1>4, <1>6 DEF IInv

-----------------------------------------------------------------------------

\* What IInv says of the blocks, in the form the steps use it.
Apart == \A b, c \in Blocks : b = c \/ Before(b, c) \/ Before(c, b)

\* Taking blocks away, or handing one from one owner to another, keeps the
\* rest apart.
LEMMA Shrink ==
  ASSUME IInv, Blocks' \subseteq Blocks
  PROVE  Apart' /\ Fits'
BY DEF IInv, Disjoint, Apart, Fits, Before

\* The blocks after alloc_pages has only searched.
LEMMA SearchStep ==
  ASSUME IInv, NEW k \in Order, alloc_pages(k)
  PROVE  IInv'
<1>1. free' = free /\ allocated' = allocated /\ page' = page
  BY DEF alloc_pages, Search
<1>2. pc = "ready" /\ pc' \in {"split", "panic"}
  BY DEF alloc_pages, Search
<1>3. TypeOK'
  <2>1. CASE pc' = "panic"
    <3>1. promoted_order' = promoted_order /\ order' = k
      BY <2>1 DEF alloc_pages, Search
    <3> QED BY <1>1, <2>1, <3>1 DEF IInv, TypeOK
  <2>2. CASE pc' = "split"
    <3>1. PICK j \in k..(MAX_ORDER - 1) : promoted_order' = j /\ order' = k
      BY <2>2 DEF alloc_pages, Search
    <3>2. j \in Order /\ j >= k
      BY <3>1, BuddyAssumption DEF Order
    <3> QED BY <1>1, <2>2, <3>1, <3>2 DEF IInv, TypeOK
  <2> QED BY <1>2, <2>1, <2>2
<1>4. FreeBlocks' = FreeBlocks /\ Held' = {} /\ Held = {}
  BY <1>1, <1>2 DEF FreeBlocks, Held
<1>5. Blocks' = Blocks
  BY <1>1, <1>4 DEF Blocks
<1>6. Apart' /\ Fits'
  BY <1>5, Shrink
<1>7. (allocated \cap FreeBlocks)' = {}
  BY <1>1, <1>4 DEF IInv, Disjoint
<1> QED BY <1>3, <1>4, <1>6, <1>7 DEF IInv, Disjoint, Apart

\* The first area of the order asked for gets an owner.
LEMMA TakeStep ==
  ASSUME IInv, take
  PROVE  IInv'
<1>1. PICK p \in free[order] :
        /\ free' = [free EXCEPT ![order] = @ \ {p}]
        /\ allocated' = allocated \cup {[page |-> p, order |-> order]}
  BY DEF take
<1> DEFINE x == [page |-> p, order |-> order]
<1>2. pc = "split" /\ pc' = "ready" /\ order' = 0 /\ promoted_order' = 0 /\ page' = 0
  BY DEF take, Return
<1>3. order \in Order /\ p \in Page /\ x \in Block
  BY <1>1 DEF IInv, TypeOK, Block
<1>4. TypeOK'
  <2>1. 0 \in Order /\ 0 \in Page
    BY BuddyAssumption, SizeFacts DEF Order, Page
  <2> QED BY <1>1, <1>2, <1>3, <2>1 DEF IInv, TypeOK
<1>5. x \in FreeBlocks
  BY <1>1, <1>3 DEF FreeBlocks
<1>6. FreeBlocks' = FreeBlocks \ {x}
  <2>1. \A b \in Block : b.page \in free'[b.order]
                           <=> b.page \in free[b.order] /\ b # x
    BY <1>1, <1>3 DEF IInv, TypeOK, Block
  <2> QED BY <2>1 DEF FreeBlocks
<1>7. Held = {} /\ Held' = {}
  BY <1>2 DEF Held
<1>8. Blocks' \subseteq Blocks
  BY <1>1, <1>5, <1>6, <1>7 DEF Blocks
<1>9. Apart' /\ Fits'
  BY <1>8, Shrink
<1>10. (allocated \cap FreeBlocks)' = {}
  BY <1>1, <1>6 DEF IInv, Disjoint
<1> QED BY <1>4, <1>7, <1>9, <1>10 DEF IInv, Disjoint, Apart

\* An owned block becomes the one that free_pages holds.
LEMMA FreeStep ==
  ASSUME IInv, NEW b \in Block, free_pages(b)
  PROVE  IInv'
<1>1. /\ pc = "ready" /\ b \in allocated
      /\ free' = free /\ allocated' = allocated \ {b}
      /\ page' = b.page /\ order' = b.order /\ pc' = "merge"
      /\ promoted_order' = promoted_order
  BY DEF free_pages
<1>2. b.page \in Page /\ b.order \in Order
      /\ b = [page |-> b.page, order |-> b.order]
  BY DEF Block
<1>3. TypeOK'
  BY <1>1, <1>2 DEF IInv, TypeOK
<1>4. FreeBlocks' = FreeBlocks
  BY <1>1 DEF FreeBlocks
<1>5. Held' = {b} /\ Held = {}
  BY <1>1, <1>2 DEF Held
<1>6. Blocks' \subseteq Blocks
  BY <1>1, <1>4, <1>5 DEF Blocks
<1>7. Apart' /\ Fits'
  BY <1>6, Shrink
<1>8. (allocated \cap FreeBlocks)' = {}
  BY <1>1, <1>4 DEF IInv, Disjoint
<1>9. (Held \cap (allocated \cup FreeBlocks))' = {}
  BY <1>1, <1>4, <1>5 DEF IInv, Disjoint
<1> QED BY <1>3, <1>7, <1>8, <1>9 DEF IInv, Disjoint, Apart

\* The area free_pages holds goes to a free list.
LEMMA PutStep ==
  ASSUME IInv, put
  PROVE  IInv'
<1> DEFINE x == [page |-> page, order |-> order]
<1>1. /\ pc = "merge" /\ pc' = "ready"
      /\ order' = 0 /\ promoted_order' = 0 /\ page' = 0
      /\ free' = [free EXCEPT ![order] = @ \cup {page}]
      /\ allocated' = allocated
  BY DEF put, Return
<1>2. order \in Order /\ page \in Page /\ x \in Block
  BY DEF IInv, TypeOK, Block
<1>3. TypeOK'
  <2>1. 0 \in Order /\ 0 \in Page
    BY BuddyAssumption, SizeFacts DEF Order, Page
  <2> QED BY <1>1, <1>2, <2>1 DEF IInv, TypeOK
<1>4. FreeBlocks' = FreeBlocks \cup {x}
  <2>1. \A b \in Block : b.page \in free'[b.order]
                           <=> b.page \in free[b.order] \/ b = x
    BY <1>1, <1>2 DEF IInv, TypeOK, Block
  <2> QED BY <1>2, <2>1 DEF FreeBlocks
<1>5. Held = {x} /\ Held' = {}
  BY <1>1 DEF Held
<1>6. Blocks' \subseteq Blocks
  BY <1>1, <1>4, <1>5 DEF Blocks
<1>7. Apart' /\ Fits'
  BY <1>6, Shrink
<1>8. (allocated \cap FreeBlocks)' = {}
  BY <1>1, <1>4, <1>5 DEF IInv, Disjoint
<1> QED BY <1>3, <1>5, <1>7, <1>8 DEF IInv, Disjoint, Apart

Area(p, k) == [page |-> p, order |-> k]

\* An area becomes its two halves, and no other block is touched.
LEMMA SplitShape ==
  ASSUME IInv, split_area
  PROVE  \E p \in free[promoted_order] :
           LET k  == promoted_order - 1
               x  == Area(p, promoted_order)
               lo == Area(p, k)
               hi == Area(p + Size[k], k)
           IN
           /\ k \in Order /\ promoted_order \in Order /\ order \in Order
           /\ order <= k
           /\ Size[k] \in Nat /\ Size[k] >= 1
           /\ Size[promoted_order] = Size[k] + Size[k]
           /\ p \in Page /\ p + Size[k] \in Page
           /\ p + (Size[k] + Size[k]) <= PHYSIZE
           /\ free' = [free EXCEPT ![promoted_order] = @ \ {p},
                                   ![k] = @ \cup {p, p + Size[k]}]
           /\ x \in FreeBlocks /\ lo \in Block /\ hi \in Block
           /\ FreeBlocks' = (FreeBlocks \ {x}) \cup {lo, hi}
           /\ Blocks' = (Blocks \ {x}) \cup {lo, hi}
<1> DEFINE k == promoted_order - 1
           S == Size[k]
<1>1. PICK p \in free[promoted_order] :
        free' = [free EXCEPT ![promoted_order] = @ \ {p},
                             ![k] = @ \cup {p, p + S}]
  BY DEF split_area
<1> DEFINE x  == Area(p, promoted_order)
           lo == Area(p, k)
           hi == Area(p + S, k)
<1>2. pc = "split" /\ pc' = pc /\ promoted_order > order
      /\ allocated' = allocated
  BY DEF split_area
<1>3. /\ promoted_order \in Order /\ order \in Order /\ k \in Order
      /\ k # promoted_order /\ k >= order /\ p \in Page /\ x \in Block
  <2>1. promoted_order \in Order /\ order \in Order /\ p \in Page
    BY <1>1 DEF IInv, TypeOK
  <2>2. k \in Order /\ k # promoted_order /\ k >= order
    <3>1. promoted_order > order /\ MAX_ORDER \in Nat
      BY <1>2, BuddyAssumption
    <3> QED BY <2>1, <3>1 DEF Order
  <2> QED BY <2>1, <2>2 DEF Block, Area
<1>4. S \in Nat /\ S >= 1 /\ Size[promoted_order] = S + S
  <2>1. k + 1 = promoted_order
    BY <1>3 DEF Order
  <2> QED BY <1>3, <2>1, SizeFacts
<1>5. x \in FreeBlocks /\ x \in Blocks
  BY <1>1, <1>3 DEF FreeBlocks, Blocks, Area
<1>6. p \in Nat /\ p + (S + S) <= PHYSIZE
  BY <1>3, <1>4, <1>5 DEF IInv, Fits, Page, Area
<1>7. p + S \in Page
  <2>1. PHYSIZE \in Nat
    BY BuddyAssumption
  <2> QED BY <1>4, <1>6, <2>1 DEF Page
<1>8. lo \in Block /\ hi \in Block
  BY <1>3, <1>7 DEF Block, Area
<1>9. FreeBlocks' = (FreeBlocks \ {x}) \cup {lo, hi}
  <2>1. \A b \in Block : b.page \in free'[b.order]
          <=> (b.page \in free[b.order] /\ b # x) \/ b = lo \/ b = hi
    <3> TAKE b \in Block
    <3>1. b = x <=> b.page = p /\ b.order = promoted_order
      BY DEF Block, Area
    <3>2. b = lo <=> b.page = p /\ b.order = k
      BY DEF Block, Area
    <3>3. b = hi <=> b.page = p + S /\ b.order = k
      BY DEF Block, Area
    <3>4. b.order \in Order
      BY DEF Block
    <3> QED BY <1>1, <1>3, <3>1, <3>2, <3>3, <3>4 DEF IInv, TypeOK
  <2> QED BY <1>8, <2>1 DEF FreeBlocks
<1>10. Held = {} /\ Held' = {}
  BY <1>2 DEF Held
<1>11. Blocks' = (Blocks \ {x}) \cup {lo, hi}
  <2>1. x \notin allocated
    BY <1>5 DEF IInv, Disjoint
  <2> QED BY <1>2, <1>9, <1>10, <2>1 DEF Blocks
<1> QED BY <1>1, <1>3, <1>4, <1>5, <1>6, <1>7, <1>8, <1>9, <1>11

LEMMA SplitStep ==
  ASSUME IInv, split_area
  PROVE  IInv'
<1> DEFINE k == promoted_order - 1
           S == Size[k]
<1>1. PICK p \in free[promoted_order] :
        LET x  == Area(p, promoted_order)
            lo == Area(p, k)
            hi == Area(p + Size[k], k)
        IN
        /\ k \in Order /\ promoted_order \in Order /\ order \in Order
        /\ order <= k
        /\ Size[k] \in Nat /\ Size[k] >= 1
        /\ Size[promoted_order] = Size[k] + Size[k]
        /\ p \in Page /\ p + Size[k] \in Page
        /\ p + (Size[k] + Size[k]) <= PHYSIZE
        /\ free' = [free EXCEPT ![promoted_order] = @ \ {p},
                                ![k] = @ \cup {p, p + Size[k]}]
        /\ x \in FreeBlocks /\ lo \in Block /\ hi \in Block
        /\ FreeBlocks' = (FreeBlocks \ {x}) \cup {lo, hi}
        /\ Blocks' = (Blocks \ {x}) \cup {lo, hi}
  BY SplitShape
<1> DEFINE x  == [page |-> p, order |-> promoted_order]
           lo == [page |-> p, order |-> k]
           hi == [page |-> p + S, order |-> k]
<1>2. /\ pc = "split" /\ pc' = pc /\ promoted_order' = k
      /\ allocated' = allocated /\ order' = order /\ page' = page
  BY DEF split_area
<1>4. S \in Nat /\ S >= 1 /\ Size[promoted_order] = S + S
  BY <1>1
<1>5. x \in FreeBlocks /\ x \in Blocks
  BY <1>1 DEF Blocks, Area
<1>6. p \in Nat /\ p + (S + S) <= PHYSIZE
  BY <1>1 DEF Page
<1>9. TypeOK'
  BY <1>1, <1>2 DEF IInv, TypeOK
<1>10. FreeBlocks' = (FreeBlocks \ {x}) \cup {lo, hi}
  BY <1>1 DEF Area
<1>11. Held = {} /\ Held' = {}
  BY <1>2 DEF Held
<1>12. Blocks' \subseteq (Blocks \ {x}) \cup {lo, hi}
  BY <1>1 DEF Area
<1>13. Before(lo, hi) /\ hi.page + Size[hi.order] = x.page + Size[x.order]
  BY <1>4, <1>6 DEF Before
<1>14. \A c \in Blocks \ {x} : \/ Before(c, lo) /\ Before(c, hi)
                               \/ Before(lo, c) /\ Before(hi, c)
  <2> TAKE c \in Blocks \ {x}
  <2>1. Before(c, x) \/ Before(x, c)
    BY <1>5 DEF IInv, Disjoint
  <2>2. c.page \in Nat /\ Size[c.order] \in Nat
    BY BlockFacts DEF IInv
  <2>3. CASE Before(c, x)
    BY <1>4, <1>6, <2>2, <2>3 DEF Before
  <2>4. CASE Before(x, c)
    BY <1>4, <1>6, <2>2, <2>4 DEF Before
  <2> QED BY <2>1, <2>3, <2>4
<1>15. Apart'
  <2>1. \A b, c \in Blocks \ {x} : b = c \/ Before(b, c) \/ Before(c, b)
    BY DEF IInv, Disjoint
  <2>2. \A b, c \in (Blocks \ {x}) \cup {lo, hi} :
           b = c \/ Before(b, c) \/ Before(c, b)
    BY <1>13, <1>14, <2>1
  <2> QED BY <1>12, <2>2 DEF Apart, Before
<1>16. Fits'
  <2>1. \A b \in Blocks \ {x} : b.page + Size[b.order] <= PHYSIZE
    BY DEF IInv, Fits
  <2>2. lo.page + Size[lo.order] <= PHYSIZE
        /\ hi.page + Size[hi.order] <= PHYSIZE
    <3>1. PHYSIZE \in Nat
      BY BuddyAssumption
    <3> QED BY <1>4, <1>6, <3>1
  <2> QED BY <1>12, <2>1, <2>2 DEF Fits
<1>17. (allocated \cap FreeBlocks)' = {}
  <2>1. lo \notin allocated /\ hi \notin allocated
    <3>1. \A c \in Blocks \ {x} : ~Before(c, c)
      <4> TAKE c \in Blocks \ {x}
      <4>1. c.page \in Nat /\ Size[c.order] \in Nat /\ Size[c.order] >= 1
        BY BlockFacts DEF IInv
      <4> QED BY <4>1 DEF Before
    <3>2. allocated \subseteq Blocks \ {x}
      BY <1>5 DEF IInv, Disjoint, Blocks
    <3> QED BY <1>14, <3>1, <3>2
  <2> QED BY <1>2, <1>10, <2>1 DEF IInv, Disjoint
<1> QED BY <1>9, <1>11, <1>15, <1>16, <1>17 DEF IInv, Disjoint, Apart

\* The held area and its free buddy become one area: whichever of the two is
\* the upper half, they lie side by side.
LEMMA MergeShape ==
  ASSUME IInv, merge
  PROVE  LET S  == Size[order]
             q  == BuddyOf(page, order)
             pp == ParentOf(page, order)
             x  == Area(page, order)
             y  == Area(q, order)
             z  == Area(pp, order + 1)
         IN
         /\ order \in Order /\ order + 1 \in Order
         /\ S \in Nat /\ S >= 1 /\ Size[order + 1] = S + S
         /\ page \in Page /\ q \in free[order] /\ q \in Page /\ pp \in Page
         /\ \/ pp = page /\ q = page + S
            \/ pp = q /\ page = q + S
         /\ free' = [free EXCEPT ![order] = @ \ {q}]
         /\ x \in Block /\ y \in Block /\ z \in Block
         /\ y \in FreeBlocks /\ Held = {x} /\ Held' = {z}
         /\ FreeBlocks' = FreeBlocks \ {y} /\ allocated' = allocated
         /\ Blocks' = (Blocks \ {x, y}) \cup {z}
<1> DEFINE S  == Size[order]
           q  == BuddyOf(page, order)
           pp == ParentOf(page, order)
           x  == Area(page, order)
           y  == Area(q, order)
           z  == Area(pp, order + 1)
<1>1. /\ pc = "merge" /\ pc' = pc /\ order # MAX_ORDER - 1 /\ q \in free[order]
      /\ free' = [free EXCEPT ![order] = @ \ {q}]
      /\ page' = pp /\ order' = order + 1
      /\ allocated' = allocated
  BY DEF merge, CanMerge
<1>2. /\ order \in Order /\ order + 1 \in Order
      /\ page \in Page /\ q \in Page /\ x \in Block /\ y \in Block
  <2>1. order \in Order /\ page \in Page /\ q \in Page
    BY <1>1 DEF IInv, TypeOK
  <2>2. order + 1 \in Order
    BY <1>1, <2>1, BuddyAssumption DEF Order
  <2> QED BY <2>1, <2>2 DEF Block, Area
<1>3. S \in Nat /\ S >= 1 /\ Size[order + 1] = S + S
  BY <1>2, SizeFacts
<1>4. page \in Nat /\ q \in Nat
  BY <1>2 DEF Page
<1>5. \/ pp = page /\ q = page + S
      \/ pp = q /\ page = q + S
  BY <1>3, <1>4 DEF BuddyOf, ParentOf
<1>6. pp \in Page /\ z \in Block
  BY <1>2, <1>5 DEF Block, Area
<1>7. y \in FreeBlocks /\ Held = {x} /\ Held' = {z}
  BY <1>1, <1>2 DEF FreeBlocks, Held, Area
<1>8. FreeBlocks' = FreeBlocks \ {y}
  <2>1. \A b \in Block : b.page \in free'[b.order]
                           <=> b.page \in free[b.order] /\ b # y
    BY <1>1, <1>2 DEF IInv, TypeOK, Block, Area
  <2> QED BY <2>1 DEF FreeBlocks
<1>9. Blocks' = (Blocks \ {x, y}) \cup {z}
  BY <1>1, <1>7, <1>8 DEF IInv, Disjoint, Blocks
<1> HIDE DEF q, pp
<1> QED BY <1>1, <1>2, <1>3, <1>5, <1>6, <1>7, <1>8, <1>9 DEF q, pp

LEMMA MergeStep ==
  ASSUME IInv, merge
  PROVE  IInv'
<1> DEFINE S  == Size[order]
           q  == BuddyOf(page, order)
           pp == ParentOf(page, order)
           x  == Area(page, order)
           y  == Area(q, order)
           z  == Area(pp, order + 1)
           Rest == Blocks \ {x, y}
<1> USE DEF Area
<1>1. /\ order \in Order /\ order + 1 \in Order
      /\ S \in Nat /\ S >= 1 /\ Size[order + 1] = S + S
      /\ page \in Page /\ q \in Page /\ pp \in Page
      /\ \/ pp = page /\ q = page + S
         \/ pp = q /\ page = q + S
      /\ free' = [free EXCEPT ![order] = @ \ {q}]
      /\ z \in Block /\ y \in FreeBlocks /\ Held = {x} /\ Held' = {z}
      /\ FreeBlocks' = FreeBlocks \ {y} /\ allocated' = allocated
      /\ Blocks' = (Blocks \ {x, y}) \cup {z}
  BY MergeShape
<1>2. /\ pc' = pc /\ page' = pp /\ order' = order + 1
      /\ promoted_order' = promoted_order
  BY DEF merge
<1> HIDE DEF q, pp
<1>3. S \in Nat /\ S >= 1 /\ Size[order + 1] = S + S
  BY <1>1
<1>4. page \in Nat /\ q \in Nat /\ pp \in Nat
  BY <1>1 DEF Page
<1>5. \/ pp = page /\ q = page + S
      \/ pp = q /\ page = q + S
  BY <1>1
<1>6. pp \in Nat
  BY <1>4
<1>7. TypeOK'
  <2>1. pc = "merge"
    BY DEF merge
  <2> QED BY <1>1, <1>2, <2>1 DEF IInv, TypeOK
<1>8. /\ y \in FreeBlocks /\ Held = {x} /\ Held' = {z}
      /\ x \in Blocks /\ y \in Blocks
  BY <1>1 DEF Blocks
<1>9. FreeBlocks' = FreeBlocks \ {y}
  BY <1>1
<1>10. FreeBlocks' \subseteq Rest /\ allocated' \subseteq Rest
  BY <1>1, <1>8, <1>9 DEF IInv, Disjoint, Blocks
<1>11. Blocks' \subseteq Rest \cup {z}
  BY <1>1
<1>12. page + S <= PHYSIZE /\ q + S <= PHYSIZE
  BY <1>8 DEF IInv, Fits
<1>13. Fits'
  <2>1. pp + (S + S) <= PHYSIZE
    <3>1. PHYSIZE \in Nat
      BY BuddyAssumption
    <3>2. CASE pp = page /\ q = page + S
      BY <1>3, <1>4, <1>12, <3>1, <3>2
    <3>3. CASE pp = q /\ page = q + S
      BY <1>3, <1>4, <1>12, <3>1, <3>3
    <3> QED BY <1>5, <3>2, <3>3
  <2>2. \A b \in Rest : b.page + Size[b.order] <= PHYSIZE
    BY DEF IInv, Fits
  <2> QED BY <1>3, <1>11, <2>1, <2>2 DEF Fits
<1>14. \A c \in Rest : Before(c, z) \/ Before(z, c)
  <2> TAKE c \in Rest
  <2>1. /\ c.page + Size[c.order] <= page \/ page + S <= c.page
        /\ c.page + Size[c.order] <= q \/ q + S <= c.page
    BY <1>8 DEF IInv, Disjoint, Before
  <2>2. c.page \in Nat /\ Size[c.order] \in Nat /\ Size[c.order] >= 1
    BY BlockFacts DEF IInv
  <2>3. c.page + Size[c.order] <= pp \/ pp + (S + S) <= c.page
    BY <1>3, <1>4, <1>5, <2>1, <2>2
  <2> QED BY <1>3, <2>3 DEF Before
<1>15. Apart'
  <2>1. \A b, c \in Rest : b = c \/ Before(b, c) \/ Before(c, b)
    BY DEF IInv, Disjoint
  <2>2. \A b, c \in Rest \cup {z} : b = c \/ Before(b, c) \/ Before(c, b)
    BY <1>14, <2>1
  <2> QED BY <1>11, <2>2 DEF Apart, Before
<1>16. z \notin Rest
  <2>1. ~Before(z, z)
    BY <1>3, <1>6 DEF Before
  <2> QED BY <1>14, <2>1
<1>17. (allocated \cap FreeBlocks)' = {}
  BY <1>1, <1>9 DEF IInv, Disjoint
<1>18. (Held \cap (allocated \cup FreeBlocks))' = {}
  BY <1>8, <1>10, <1>16
<1> QED BY <1>7, <1>13, <1>15, <1>17, <1>18 DEF IInv, Disjoint, Apart

LEMMA StutterStep ==
  ASSUME IInv, UNCHANGED vars
  PROVE  IInv'
<1>1. FreeBlocks' = FreeBlocks /\ Held' = Held /\ allocated' = allocated
  BY DEF vars, FreeBlocks, Held
<1>2. Blocks' = Blocks
  BY <1>1 DEF Blocks
<1>3. TypeOK'
  BY DEF IInv, TypeOK, vars
<1>4. Apart' /\ Fits'
  BY <1>2, Shrink
<1> QED BY <1>1, <1>3, <1>4 DEF IInv, Disjoint, Apart

LEMMA StepIInv == IInv /\ [Next]_vars => IInv'
<1> SUFFICES ASSUME IInv, [Next]_vars PROVE IInv'
  OBVIOUS
<1>1. ASSUME NEW k \in Order, alloc_pages(k) PROVE IInv'
  BY <1>1, SearchStep
<1>2. CASE split_area
  BY <1>2, SplitStep
<1>3. CASE take
  BY <1>3, TakeStep
<1>4. ASSUME NEW b \in Block, free_pages(b) PROVE IInv'
  BY <1>4, FreeStep
<1>5. CASE merge
  BY <1>5, MergeStep
<1>6. CASE put
  BY <1>6, PutStep
<1>7. CASE Halted \/ UNCHANGED vars
  BY <1>7, StutterStep DEF Halted
<1> QED BY <1>1, <1>2, <1>3, <1>4, <1>5, <1>6, <1>7 DEF Next

-----------------------------------------------------------------------------

\* The variables keep their types, and the orders that the loops of
\* alloc_pages and free_pages reach stay below MAX_ORDER.
THEOREM TypeCorrect == Spec => []TypeOK
<1>1. IInv => TypeOK
  BY DEF IInv
<1> QED BY InitIInv, StepIInv, <1>1, PTL DEF Spec

\* alloc_pages never hands out a page that has an owner, and free_pages never
\* merges a block with one that has an owner.
THEOREM NoSharing == Spec => []Disjoint
<1>1. IInv => Disjoint
  BY DEF IInv
<1> QED BY InitIInv, StepIInv, <1>1, PTL DEF Spec

-----------------------------------------------------------------------------

\* Quotient and remainder.
LEMMA DivMod ==
  ASSUME NEW S \in Nat, S >= 1, NEW p \in Nat
  PROVE  /\ p \div S \in Nat /\ p % S \in Nat /\ p % S < S
         /\ p = S * (p \div S) + (p % S)
<1>1. S \in Int /\ S > 0
  OBVIOUS
<1> QED BY <1>1, SMTT(30)

\* They are unique.
LEMMA Multiple ==
  ASSUME NEW S \in Nat, S >= 1, NEW m \in Nat, NEW r \in Nat, r < S
  PROVE  (S * m + r) \div S = m /\ (S * m + r) % S = r
<1> DEFINE p == S * m + r
           d == p \div S
           e == p % S
<1>1. p \in Nat
  BY SMTT(30)
<1>2. d \in Nat /\ e \in Nat /\ e < S /\ p = S * d + e
  BY <1>1, DivMod
<1> HIDE DEF d, e
<1>3. S * (m - d) = e - r
  <2>1. S * m + r = S * d + e
    BY <1>2
  <2>2. S * (m - d) = S * m - S * d
    BY <1>2, SMTT(30)
  <2>3. S * m \in Int /\ S * d \in Int
    BY <1>2, SMTT(30)
  <2> QED BY <1>2, <2>1, <2>2, <2>3
<1>4. CASE m - d >= 1
  <2>1. S * (m - d) >= S
    BY <1>2, <1>4, SMTT(30)
  <2> QED BY <1>2, <1>3, <2>1
<1>5. CASE m - d <= -1
  <2>1. S * (m - d) <= -S
    BY <1>2, <1>5, SMTT(30)
  <2> QED BY <1>2, <1>3, <2>1
<1>6. CASE m = d
  <2>1. S * (m - d) = 0
    BY <1>2, <1>6
  <2> QED BY <1>2, <1>3, <1>6, <2>1 DEF d, e
<1> QED BY <1>2, <1>4, <1>5, <1>6

\* The two halves of an aligned area: both are aligned, the first is the lower
\* one of its pair and the second the upper one.
LEMMA HalfAligned ==
  ASSUME NEW S \in Nat, S >= 1, NEW p \in Nat, p % (S + S) = 0
  PROVE  p % S = 0 /\ (p \div S) % 2 = 0 /\ (p + S) % S = 0
         /\ ((p + S) \div S) % 2 = 1
<1> DEFINE d == p \div (S + S)
<1>1. d \in Nat /\ p = (S + S) * d
  <2>1. S + S \in Nat /\ S + S >= 1
    OBVIOUS
  <2>2. p = (S + S) * (p \div (S + S)) + 0 /\ d \in Nat
    BY <2>1, DivMod
  <2>3. (S + S) * d \in Nat
    BY <2>2, SMTT(30)
  <2> QED BY <2>2, <2>3
<1> HIDE DEF d
<1>2. /\ d + d \in Nat /\ d + d + 1 \in Nat
      /\ p = S * (d + d) + 0 /\ p + S = S * (d + d + 1) + 0
  BY <1>1, SMTT(30)
<1>3. p \div S = d + d /\ p % S = 0
  <2>1. /\ (S * (d + d) + 0) \div S = d + d
        /\ (S * (d + d) + 0) % S = 0
    BY <1>2, 0 \in Nat, 0 < S, Multiple
  <2> QED BY <1>2, <2>1
<1>4. (p + S) \div S = d + d + 1 /\ (p + S) % S = 0
  <2>1. /\ (S * (d + d + 1) + 0) \div S = d + d + 1
        /\ (S * (d + d + 1) + 0) % S = 0
    BY <1>2, 0 \in Nat, 0 < S, Multiple
  <2> QED BY <1>2, <2>1
<1>5. (d + d) % 2 = 0 /\ (d + d + 1) % 2 = 1
  BY <1>1
<1> QED BY <1>3, <1>4, <1>5

\* What ParentOf returns is aligned to the pair.
LEMMA Parent ==
  ASSUME NEW S \in Nat, S >= 1, NEW p \in Nat, p % S = 0
  PROVE  /\ (p \div S) % 2 = 1 => p >= S /\ (p - S) % (S + S) = 0
         /\ (p \div S) % 2 # 1 => p % (S + S) = 0
<1> DEFINE d == p \div S
           h == d \div 2
<1>1. d \in Nat /\ p = S * d
  <2>1. d \in Nat /\ p = S * d + 0
    BY DivMod
  <2>2. S * d \in Nat
    BY <2>1, SMTT(30)
  <2> QED BY <2>1, <2>2
<1> HIDE DEF d
<1>2. h \in Nat /\ ((d % 2 = 1 /\ d = h + h + 1) \/ (d % 2 # 1 /\ d = h + h))
  <2>1. 2 \in Nat /\ 2 >= 1
    OBVIOUS
  <2>2. h \in Nat /\ d % 2 \in Nat /\ d % 2 < 2 /\ d = 2 * h + (d % 2)
    BY <1>1, <2>1, DivMod
  <2> DEFINE e == d % 2
  <2> HIDE DEF h, e
  <2>3. h \in Nat /\ e \in Nat /\ e < 2 /\ d = 2 * h + e
    BY <2>2 DEF e
  <2>4. (e = 1 /\ d = h + h + 1) \/ (e # 1 /\ d = h + h)
    BY <2>3
  <2> QED BY <2>3, <2>4 DEF e
<1> HIDE DEF h
<1>3. S + S \in Nat /\ S + S >= 1 /\ 0 < S + S /\ 0 \in Nat
  OBVIOUS
<1>4. ((S + S) * h + 0) % (S + S) = 0
  BY <1>2, <1>3, Multiple
<1>5. (S + S) * h \in Nat /\ (S + S) * h = S * (h + h)
      /\ S * (h + h + 1) = (S + S) * h + S
  BY <1>2, SMTT(30)
<1>6. CASE d % 2 = 1
  <2>1. p = (S + S) * h + S
    BY <1>1, <1>2, <1>5, <1>6
  <2>2. p - S = (S + S) * h + 0 /\ p >= S
    BY <1>5, <2>1
  <2> QED BY <1>4, <1>6, <2>2 DEF d
<1>7. CASE d % 2 # 1
  <2>1. p = (S + S) * h + 0
    BY <1>1, <1>2, <1>5, <1>7
  <2> QED BY <1>4, <1>7, <2>1 DEF d
<1> QED BY <1>6, <1>7

\* Different multiples of a size are at least that size apart.
LEMMA Gap ==
  ASSUME NEW S \in Nat, S >= 1, NEW x \in Nat, NEW y \in Nat,
         x % S = 0, y % S = 0, x < y
  PROVE  x + S <= y
<1> DEFINE a == x \div S
           b == y \div S
<1>1. a \in Nat /\ b \in Nat /\ x = S * a + 0 /\ y = S * b + 0
  BY DivMod
<1> HIDE DEF a, b
<1>2. S * a \in Int /\ S * b \in Int /\ S * (b - a) = S * b - S * a
  BY <1>1, SMTT(30)
<1>3. CASE b - a <= 0
  <2>1. S * (b - a) <= 0
    BY <1>1, <1>3, SMTT(30)
  <2> QED BY <1>1, <1>2, <2>1
<1>4. CASE b - a >= 1
  <2>1. S * (b - a) >= S
    BY <1>1, <1>4, SMTT(30)
  <2> QED BY <1>1, <1>2, <2>1
<1> QED BY <1>1, <1>3, <1>4
\* The multiple behind a multiple.
LEMMA Following ==
  ASSUME NEW S \in Nat, S >= 1, NEW p \in Nat, p % S = 0
  PROVE  (p + S) % S = 0
<1> DEFINE d == p \div S
<1>1. d \in Nat /\ p = S * d + 0
  BY DivMod
<1> HIDE DEF d
<1>2. S * d \in Nat /\ S * (d + 1) = S * d + S /\ d + 1 \in Nat
  BY <1>1, SMTT(30)
<1>3. (S * (d + 1) + 0) % S = 0
  BY <1>2, 0 \in Nat, 0 < S, Multiple
<1> QED BY <1>1, <1>2, <1>3

\* A set of natural numbers that is not empty has a least element.
LEMMA LeastNat ==
  ASSUME NEW X \in SUBSET Nat, X # {}
  PROVE  \E x \in X : \A y \in X : x <= y
<1> DEFINE R == OpToRel(<, Nat)
<1>1. IsWellFoundedOn(R, Nat)
  BY NatLessThanWellFounded
<1>2. \A a, b \in Nat : <<a, b>> \in R <=> a < b
  BY DEF OpToRel
<1> HIDE DEF R
<1>3. PICK x \in X : \A y \in X : ~(<<y, x>> \in R)
  BY <1>1, WFMin, Zenon
<1>4. \A y \in X : x <= y
  <2> TAKE y \in X
  <2>1. ~(y < x)
    BY <1>2, <1>3
  <2>2. x \in Nat /\ y \in Nat
    OBVIOUS
  <2> QED BY <2>1, <2>2
<1> QED BY <1>4

\* An area aligned to an order is aligned to every smaller one.
LEMMA Descend ==
  ASSUME NEW j \in Order, NEW p \in Nat
  PROVE  \A k \in Order : k >= j /\ p % Size[k] = 0 => p % Size[j] = 0
<1> DEFINE Bad == {k \in Order : /\ k >= j
                                 /\ p % Size[k] = 0
                                 /\ ~(p % Size[j] = 0)}
<1> SUFFICES ASSUME Bad # {} PROVE FALSE
  OBVIOUS
<1>1. Bad \in SUBSET Nat
  BY DEF Order
<1>2. PICK k \in Bad : \A i \in Bad : k <= i
  BY <1>1, LeastNat
<1>3. k \in Order /\ k >= j /\ p % Size[k] = 0 /\ ~(p % Size[j] = 0) /\ k # j
  OBVIOUS
<1>4. k - 1 \in Order /\ k - 1 >= j /\ (k - 1) + 1 = k /\ ~(k <= k - 1)
  <2>1. MAX_ORDER \in Nat
    BY BuddyAssumption
  <2>2. k > j
    BY <1>3 DEF Order
  <2> QED BY <1>3, <2>1, <2>2 DEF Order
<1>5. Size[k - 1] \in Nat /\ Size[k - 1] >= 1
      /\ Size[k] = Size[k - 1] + Size[k - 1]
  BY <1>4, SizeFacts
<1>6. p % Size[k - 1] = 0
  BY <1>3, <1>5, HalfAligned
<1>7. k - 1 \in Bad
  BY <1>3, <1>4, <1>6
<1> QED BY <1>2, <1>4, <1>7

\* Two aligned areas are apart, or the smaller one lies inside the other.
LEMMA Nest ==
  ASSUME NEW j \in Order, NEW k \in Order, j <= k,
         NEW p \in Nat, NEW q \in Nat,
         p % Size[j] = 0, q % Size[k] = 0
  PROVE  \/ p + Size[j] <= q
         \/ q + Size[k] <= p
         \/ q <= p /\ p + Size[j] <= q + Size[k]
<1>1. /\ Size[j] \in Nat /\ Size[j] >= 1
      /\ Size[k] \in Nat /\ Size[k] >= 1 /\ q + Size[k] \in Nat
  BY SizeFacts
<1>2. (q + Size[k]) % Size[k] = 0
  BY <1>1, Following
<1>3. q % Size[j] = 0 /\ (q + Size[k]) % Size[j] = 0
  <2>1. k >= j
    BY DEF Order
  <2> QED BY <1>1, <1>2, <2>1, Descend
<1>4. p < q => p + Size[j] <= q
  BY <1>1, <1>3, Gap
<1>5. p < q + Size[k] => p + Size[j] <= q + Size[k]
  BY <1>1, <1>3, Gap
<1> QED BY <1>1, <1>4, <1>5

-----------------------------------------------------------------------------

(***************************************************************************)
(* Which blocks there are: only split_area and merge change that.          *)
(***************************************************************************)

LEMMA TakeBlocks ==
  ASSUME IInv, take
  PROVE  \E p \in free[order] :
           LET x == Area(p, order)
           IN  /\ p \in Page /\ x \in FreeBlocks /\ x \in Block
               /\ free' = [free EXCEPT ![order] = @ \ {p}]
               /\ allocated' = allocated \cup {x}
               /\ Blocks' = Blocks
<1>1. PICK p \in free[order] :
        /\ free' = [free EXCEPT ![order] = @ \ {p}]
        /\ allocated' = allocated \cup {Area(p, order)}
  BY DEF take, Area
<1> DEFINE x == Area(p, order)
<1>2. order \in Order /\ p \in Page /\ x \in Block
  BY <1>1 DEF IInv, TypeOK, Block, Area
<1>3. x \in FreeBlocks
  BY <1>1, <1>2 DEF FreeBlocks, Area
<1>4. FreeBlocks' = FreeBlocks \ {x}
  <2>1. \A b \in Block : b.page \in free'[b.order]
                           <=> b.page \in free[b.order] /\ b # x
    BY <1>1, <1>2 DEF IInv, TypeOK, Block, Area
  <2> QED BY <2>1 DEF FreeBlocks
<1>5. Held = {} /\ Held' = {}
  BY DEF take, Return, Held
<1>6. Blocks' = Blocks
  BY <1>1, <1>3, <1>4, <1>5 DEF Blocks
<1> QED BY <1>1, <1>2, <1>3, <1>6

LEMMA FreeBlock ==
  ASSUME IInv, NEW b \in Block, free_pages(b)
  PROVE  Blocks' = Blocks
<1>1. FreeBlocks' = FreeBlocks /\ allocated' = allocated \ {b}
      /\ b \in allocated
  BY DEF free_pages, FreeBlocks
<1>2. Held = {} /\ Held' = {b}
  BY DEF free_pages, Held, Block
<1> QED BY <1>1, <1>2 DEF Blocks

LEMMA PutBlock ==
  ASSUME IInv, put
  PROVE  Blocks' = Blocks
<1> DEFINE x == Area(page, order)
<1>1. /\ free' = [free EXCEPT ![order] = @ \cup {page}]
      /\ allocated' = allocated
      /\ pc = "merge" /\ pc' = "ready"
  BY DEF put, Return
<1>2. order \in Order /\ page \in Page /\ x \in Block
  BY DEF IInv, TypeOK, Block, Area
<1>3. FreeBlocks' = FreeBlocks \cup {x}
  <2>1. \A b \in Block : b.page \in free'[b.order]
                           <=> b.page \in free[b.order] \/ b = x
    BY <1>1, <1>2 DEF IInv, TypeOK, Block, Area
  <2> QED BY <1>2, <2>1 DEF FreeBlocks
<1>4. Held = {x} /\ Held' = {}
  BY <1>1 DEF Held, Area
<1> QED BY <1>1, <1>3, <1>4 DEF Blocks

LEMMA SameBlocks ==
  ASSUME IInv, [Next]_vars, ~split_area, ~merge
  PROVE  Blocks' = Blocks
<1>1. ASSUME NEW k \in Order, alloc_pages(k) PROVE Blocks' = Blocks
  <2>1. free' = free /\ allocated' = allocated /\ pc = "ready" /\ pc' # "merge"
    BY <1>1 DEF alloc_pages, Search
  <2>2. FreeBlocks' = FreeBlocks /\ Held = {} /\ Held' = {}
    BY <2>1 DEF FreeBlocks, Held
  <2> QED BY <2>1, <2>2 DEF Blocks
<1>2. CASE take
  BY <1>2, TakeBlocks
<1>3. ASSUME NEW b \in Block, free_pages(b) PROVE Blocks' = Blocks
  BY <1>3, FreeBlock
<1>4. CASE put
  BY <1>4, PutBlock
<1>5. CASE Halted \/ UNCHANGED vars
  BY <1>5 DEF Halted, vars, Blocks, FreeBlocks, Held
<1> QED BY <1>1, <1>2, <1>3, <1>4, <1>5 DEF Next

-----------------------------------------------------------------------------

(***************************************************************************)
(* No page is lost.                                                        *)
(***************************************************************************)

LEMMA InitConserved == Init => Conserved
<1> SUFFICES ASSUME Init, NEW p \in Page
             PROVE  p \in Managed <=> \E b \in Blocks : Covers(b, p)
  BY DEF Conserved
<1>1. Blocks = FreeBlocks
  BY DEF Init, Blocks, Held
<1>2. \A k \in Order : k >= SKIP_ORDER => Area(Size[k], k) \in FreeBlocks
  <2>1. IInv
    BY InitIInv
  <2> TAKE k \in Order
  <2> HAVE k >= SKIP_ORDER
  <2>2. Size[k] \in free[k]
    BY DEF Init
  <2>3. Size[k] \in Page
    BY <2>1, <2>2 DEF IInv, TypeOK
  <2> QED BY <2>2, <2>3 DEF FreeBlocks, Block, Area
<1>3. \A b \in FreeBlocks : /\ b.order \in Order /\ b.order >= SKIP_ORDER
                           /\ b = Area(Size[b.order], b.order)
  BY DEF Init, FreeBlocks, Block, Area
<1> QED BY <1>1, <1>2, <1>3 DEF Managed, Area

LEMMA StepConserved == IInv /\ Conserved /\ [Next]_vars => Conserved'
<1> SUFFICES ASSUME IInv, Conserved, [Next]_vars,
                    NEW p \in Page
             PROVE  (\E b \in Blocks' : Covers(b, p))
                      <=> (\E b \in Blocks : Covers(b, p))
  BY DEF Conserved, Managed, Covers
<1>1. p \in Nat
  BY DEF Page
<1>2. CASE split_area
  <2> DEFINE k == promoted_order - 1
             S == Size[k]
  <2>1. PICK a \in free[promoted_order] :
          /\ S \in Nat /\ S >= 1 /\ Size[promoted_order] = S + S
          /\ a \in Page
          /\ Area(a, promoted_order) \in FreeBlocks
          /\ Blocks' = (Blocks \ {Area(a, promoted_order)})
                         \cup {Area(a, k), Area(a + S, k)}
    BY <1>2, SplitShape
  <2>2. a \in Nat /\ Area(a, promoted_order) \in Blocks
    BY <2>1 DEF Page, Blocks
  <2> HIDE DEF S
  <2>3. Covers(Area(a, promoted_order), p)
          <=> Covers(Area(a, k), p) \/ Covers(Area(a + S, k), p)
    BY <1>1, <2>1, <2>2 DEF Covers, Area, S
  <2> QED BY <2>1, <2>2, <2>3
<1>3. CASE merge
  <2> DEFINE S  == Size[order]
             q  == BuddyOf(page, order)
             pp == ParentOf(page, order)
             x  == Area(page, order)
             y  == Area(q, order)
             z  == Area(pp, order + 1)
  <2>1. /\ S \in Nat /\ S >= 1 /\ Size[order + 1] = S + S
        /\ page \in Page /\ q \in Page
        /\ \/ pp = page /\ q = page + S
           \/ pp = q /\ page = q + S
        /\ y \in FreeBlocks /\ Held = {x}
        /\ Blocks' = (Blocks \ {x, y}) \cup {z}
    BY <1>3, MergeShape
  <2>2. page \in Nat /\ q \in Nat /\ x \in Blocks /\ y \in Blocks
    BY <2>1 DEF Page, Blocks
  <2> HIDE DEF q, pp
  <2>3. Covers(z, p) <=> Covers(x, p) \/ Covers(y, p)
    BY <1>1, <2>1, <2>2 DEF Covers, Area
  <2> QED BY <2>1, <2>2, <2>3
<1>4. CASE ~split_area /\ ~merge
  BY <1>4, SameBlocks
<1> QED BY <1>2, <1>3, <1>4

\* alloc_pages and free_pages lose no page and invent none, whatever the order
\* of the calls and however often blocks are split and merged.
THEOREM PagesConserved == Spec => []Conserved
BY InitIInv, StepIInv, InitConserved, StepConserved, PTL DEF Spec

-----------------------------------------------------------------------------

(***************************************************************************)
(* Every block starts at a multiple of its size.                           *)
(***************************************************************************)

Aligned == \A b \in Blocks : b.page % Size[b.order] = 0

LEMMA InitAligned == Init => Aligned
<1> SUFFICES ASSUME Init, NEW b \in Blocks PROVE b.page % Size[b.order] = 0
  BY DEF Aligned
<1>1. b.order \in Order /\ b.page = Size[b.order]
  BY DEF Init, Blocks, Held, FreeBlocks, Block
<1> DEFINE S == Size[b.order]
<1>2. S \in Nat /\ S >= 1
  BY <1>1, SizeFacts
<1> HIDE DEF S
<1>3. 0 % S = 0 /\ 0 + S = S
  <2>1. S * 0 + 0 = 0
    BY <1>2
  <2>2. (S * 0 + 0) % S = 0
    BY <1>2, 0 \in Nat, 0 < S, Multiple
  <2> QED BY <1>2, <2>1, <2>2
<1>4. (0 + S) % S = 0
  BY <1>2, <1>3, 0 \in Nat, Following
<1> QED BY <1>1, <1>3, <1>4 DEF S

LEMMA StepAligned == IInv /\ Aligned /\ [Next]_vars => Aligned'
<1> SUFFICES ASSUME IInv, Aligned, [Next]_vars
             PROVE  \A b \in Blocks' : b.page % Size[b.order] = 0
  BY DEF Aligned
<1>1. CASE split_area
  <2> DEFINE k == promoted_order - 1
             S == Size[k]
  <2>1. PICK a \in free[promoted_order] :
          /\ S \in Nat /\ S >= 1 /\ Size[promoted_order] = S + S
          /\ a \in Page
          /\ Area(a, promoted_order) \in FreeBlocks
          /\ Blocks' = (Blocks \ {Area(a, promoted_order)})
                         \cup {Area(a, k), Area(a + S, k)}
    BY <1>1, SplitShape
  <2>2. a \in Nat
    BY <2>1 DEF Page
  <2>3. a % Size[promoted_order] = 0
    <3>1. Area(a, promoted_order) \in Blocks
      BY <2>1 DEF Blocks
    <3>2. Area(a, promoted_order).page % Size[Area(a, promoted_order).order] = 0
      BY <3>1 DEF Aligned
    <3> QED BY <3>2 DEF Area
  <2>4. a % S = 0 /\ (a + S) % S = 0
    <3> HIDE DEF S
    <3>1. a % (S + S) = 0
      BY <2>1, <2>3
    <3> QED BY <2>1, <2>2, <3>1, HalfAligned
  <2> QED BY <2>1, <2>4 DEF Aligned, Area
<1>2. CASE merge
  <2> DEFINE S  == Size[order]
             q  == BuddyOf(page, order)
             pp == ParentOf(page, order)
             x  == Area(page, order)
             y  == Area(q, order)
             z  == Area(pp, order + 1)
  <2>1. /\ S \in Nat /\ S >= 1 /\ Size[order + 1] = S + S
        /\ page \in Page /\ Held = {x}
        /\ Blocks' = (Blocks \ {x, y}) \cup {z}
    BY <1>2, MergeShape
  <2>2. page \in Nat
    BY <2>1 DEF Page
  <2>3. page % S = 0
    <3>1. x \in Blocks
      BY <2>1 DEF Blocks
    <3>2. x.page % Size[x.order] = 0
      BY <3>1 DEF Aligned
    <3> QED BY <3>2 DEF Area
  <2>4. pp % (S + S) = 0
    BY <2>1, <2>2, <2>3, Parent DEF ParentOf, Upper
  <2> QED BY <2>1, <2>4 DEF Aligned, Area
<1>3. CASE ~split_area /\ ~merge
  <2>1. Blocks' = Blocks
    BY <1>3, SameBlocks
  <2> QED BY <2>1 DEF Aligned
<1> QED BY <1>1, <1>2, <1>3

-----------------------------------------------------------------------------

(***************************************************************************)
(* No two buddies stay free.  While alloc_pages splits, the orders below   *)
(* promoted_order are empty, and the two halves it has just made wait in   *)
(* the list of promoted_order.                                             *)
(***************************************************************************)

NoPair(s, k) ==
  k # MAX_ORDER - 1 => \A p \in s : p % Size[k + 1] = 0 => p + Size[k] \notin s

Merged ==
  /\ \A k \in Order : NoPair(free[k], k) \/ (pc = "split" /\ k = promoted_order)
  /\ pc = "split" =>
       /\ \A a \in free[promoted_order] :
            NoPair(free[promoted_order] \ {a}, promoted_order)
       /\ \A k \in Order : order <= k /\ k < promoted_order => free[k] = {}

\* Removing areas makes no pair, and one area is none.
LEMMA FewerPairs ==
  ASSUME NEW k \in Order, NEW s, NEW t, t \subseteq s, NoPair(s, k)
  PROVE  NoPair(t, k)
BY DEF NoPair

LEMMA OneIsNoPair ==
  ASSUME NEW k \in Order, NEW p \in Page
  PROVE  NoPair({p}, k)
<1>1. Size[k] \in Nat /\ Size[k] >= 1 /\ p \in Nat
  BY SizeFacts DEF Page
<1>2. p + Size[k] # p
  BY <1>1
<1> QED BY <1>2 DEF NoPair

LEMMA InitMerged == Init => Merged
<1> SUFFICES ASSUME Init PROVE Merged
  OBVIOUS
<1>1. \A k \in Order : free[k] \in {{}, {Size[k]}}
  BY DEF Init
<1>2. \A k \in Order : Size[k] \in Page
  <2> TAKE k \in Order
  <2>1. Size[k] \in Nat /\ Size[k] >= 1 /\ Size[k] + Size[k] <= PHYSIZE
    BY SizeFacts
  <2>2. PHYSIZE \in Nat
    BY BuddyAssumption
  <2> QED BY <2>1, <2>2 DEF Page
<1>3. \A k \in Order : NoPair(free[k], k)
  <2> TAKE k \in Order
  <2>1. CASE free[k] = {}
    BY <2>1 DEF NoPair
  <2>2. CASE free[k] = {Size[k]}
    BY <1>2, <2>2, OneIsNoPair
  <2> QED BY <1>1, <2>1, <2>2
<1>4. pc # "split"
  BY DEF Init
<1> QED BY <1>3, <1>4 DEF Merged

LEMMA SearchMerged ==
  ASSUME IInv, Merged, NEW k \in Order, alloc_pages(k)
  PROVE  Merged'
<1>1. free' = free /\ order' = k /\ pc = "ready" /\ pc' \in {"split", "panic"}
  BY DEF alloc_pages, Search
<1>2. \A i \in Order : NoPair(free[i], i)
  BY <1>1 DEF Merged
<1>3. CASE pc' = "split"
  <2>1. PICK j \in k..(MAX_ORDER - 1) :
          promoted_order' = j /\ \A i \in k..(j - 1) : free[i] = {}
    BY <1>3 DEF alloc_pages, Search
  <2>2. MAX_ORDER \in Nat
    BY BuddyAssumption
  <2>3. j \in Order
    BY <2>1, <2>2 DEF Order
  <2>4. \A i \in Order : k <= i /\ i < j => free[i] = {}
    BY <2>1, <2>3 DEF Order
  <2>5. \A a \in free[j] : NoPair(free[j] \ {a}, j)
    BY <1>2, <2>3, FewerPairs
  <2> QED BY <1>1, <1>2, <2>1, <2>4, <2>5 DEF Merged, NoPair
<1>4. CASE pc' = "panic"
  BY <1>1, <1>2, <1>4 DEF Merged, NoPair
<1> QED BY <1>1, <1>3, <1>4

LEMMA SplitMerged ==
  ASSUME IInv, Merged, split_area
  PROVE  Merged'
<1> DEFINE k == promoted_order - 1
           S == Size[k]
<1>1. PICK p \in free[promoted_order] :
        /\ k \in Order /\ promoted_order \in Order /\ order \in Order
        /\ order <= k
        /\ p \in Page /\ p + S \in Page
        /\ S \in Nat /\ S >= 1
        /\ free' = [free EXCEPT ![promoted_order] = @ \ {p},
                                ![k] = @ \cup {p, p + S}]
  BY SplitShape
<1>2. /\ pc = "split" /\ pc' = "split" /\ promoted_order' = k
      /\ order' = order
  BY DEF split_area
<1>3. /\ k < promoted_order /\ k # promoted_order
      /\ \A i \in Order : i < k => i < promoted_order /\ i # k
                                   /\ i # promoted_order
  BY <1>1 DEF Order
<1>4. free[k] = {}
  BY <1>1, <1>2, <1>3 DEF Merged
<1>5. /\ free'[k] = {p, p + S}
      /\ free'[promoted_order] = free[promoted_order] \ {p}
      /\ \A i \in Order \ {k, promoted_order} : free'[i] = free[i]
  <2>1. free \in [Order -> SUBSET Page]
    BY DEF IInv, TypeOK
  <2> QED BY <1>1, <1>3, <1>4, <2>1
<1>6. \A i \in Order \ {k} : NoPair(free'[i], i)
  <2> TAKE i \in Order \ {k}
  <2>1. CASE i = promoted_order
    BY <1>2, <1>5, <2>1 DEF Merged
  <2>2. CASE i # promoted_order
    BY <1>2, <1>5, <2>2 DEF Merged
  <2> QED BY <2>1, <2>2
<1>7. \A a \in free'[k] : NoPair(free'[k] \ {a}, k)
  <2> TAKE a \in free'[k]
  <2>1. p # p + S
    BY <1>1 DEF Page
  <2>2. free'[k] \ {a} = {p} \/ free'[k] \ {a} = {p + S}
    BY <1>5, <2>1
  <2> QED BY <1>1, <2>2, OneIsNoPair
<1>8. \A i \in Order : order <= i /\ i < k => free'[i] = {}
  BY <1>2, <1>3, <1>5 DEF Merged
<1> QED BY <1>2, <1>6, <1>7, <1>8 DEF Merged, NoPair

LEMMA TakeMerged ==
  ASSUME IInv, Merged, take
  PROVE  Merged'
<1>1. PICK p \in free[order] : free' = [free EXCEPT ![order] = @ \ {p}]
  BY DEF take
<1>2. pc = "split" /\ pc' = "ready" /\ promoted_order = order
  BY DEF take, Return
<1>3. free \in [Order -> SUBSET Page] /\ order \in Order
  BY DEF IInv, TypeOK
<1>4. \A i \in Order : NoPair(free'[i], i)
  <2> TAKE i \in Order
  <2>1. CASE i = order
    <3>1. free'[i] = free[order] \ {p}
      BY <1>1, <1>3, <2>1
    <3> QED BY <1>2, <2>1, <3>1 DEF Merged
  <2>2. CASE i # order
    <3>1. free'[i] = free[i]
      BY <1>1, <1>3, <2>2
    <3> QED BY <1>2, <2>2, <3>1 DEF Merged
  <2> QED BY <2>1, <2>2
<1> QED BY <1>2, <1>4 DEF Merged, NoPair

LEMMA MergeMerged ==
  ASSUME IInv, Merged, merge
  PROVE  Merged'
<1> DEFINE q == BuddyOf(page, order)
<1>1. free' = [free EXCEPT ![order] = @ \ {q}]
      /\ pc = "merge" /\ pc' = "merge"
  BY DEF merge
<1>2. free \in [Order -> SUBSET Page] /\ order \in Order
  BY DEF IInv, TypeOK
<1>3. \A i \in Order : NoPair(free[i], i)
  BY <1>1 DEF Merged
<1>4. \A i \in Order : free'[i] \subseteq free[i]
  BY <1>1, <1>2
<1>5. \A i \in Order : NoPair(free'[i], i)
  BY <1>3, <1>4, FewerPairs
<1> QED BY <1>1, <1>5 DEF Merged, NoPair

\* put runs only when the buddy of the area is not free, so the area makes no
\* pair with the areas already there, whichever half of its pair it is.
LEMMA PutMerged ==
  ASSUME IInv, Merged, put
  PROVE  Merged'
<1>1. free' = [free EXCEPT ![order] = @ \cup {page}]
      /\ pc = "merge" /\ pc' = "ready" /\ ~CanMerge
  BY DEF put, Return
<1>2. free \in [Order -> SUBSET Page] /\ order \in Order /\ page \in Page
  BY DEF IInv, TypeOK
<1>3. \A i \in Order : NoPair(free[i], i)
  BY <1>1 DEF Merged
<1>4. NoPair(free[order] \cup {page}, order)
  <2> DEFINE S == Size[order]
  <2>1. SUFFICES ASSUME order # MAX_ORDER - 1,
                        NEW p \in free[order] \cup {page},
                        p % Size[order + 1] = 0,
                        p + S \in free[order] \cup {page}
                 PROVE  FALSE
    BY DEF NoPair
  <2>2. S \in Nat /\ S >= 1 /\ Size[order + 1] = S + S
    BY <1>2, SizeFacts
  <2>3. p \in Nat /\ page \in Nat
    BY <1>2 DEF Page
  <2>4. (p \div S) % 2 = 0 /\ ((p + S) \div S) % 2 = 1
    <3> HIDE DEF S
    <3>1. p % (S + S) = 0
      BY <2>1, <2>2
    <3> QED BY <2>2, <2>3, <3>1, HalfAligned
  <2>5. BuddyOf(p, order) = p + S
    BY <2>4 DEF BuddyOf, Upper
  <2>6. BuddyOf(p + S, order) = p
    <3>1. BuddyOf(p + S, order) = (p + S) - S
      BY <2>4 DEF BuddyOf, Upper
    <3> QED BY <2>2, <2>3, <3>1
  <2>7. BuddyOf(page, order) \notin free[order]
    BY <1>1, <2>1 DEF CanMerge
  <2>8. p + S # p
    BY <2>2, <2>3
  <2>9. CASE p = page
    BY <2>1, <2>5, <2>7, <2>8, <2>9
  <2>10. CASE p # page
    <3>1. p \in free[order] /\ (p + S \in free[order] \/ p + S = page)
      BY <2>1, <2>10
    <3>2. CASE p + S = page
      BY <2>6, <2>7, <3>1, <3>2
    <3>3. CASE p + S \in free[order]
      BY <1>2, <1>3, <2>1, <3>1, <3>3 DEF NoPair
    <3> QED BY <3>1, <3>2, <3>3
  <2> QED BY <2>9, <2>10
<1>5. \A i \in Order : NoPair(free'[i], i)
  <2> TAKE i \in Order
  <2>1. CASE i = order
    BY <1>1, <1>2, <1>4, <2>1
  <2>2. CASE i # order
    BY <1>1, <1>2, <1>3, <2>2
  <2> QED BY <2>1, <2>2
<1> QED BY <1>1, <1>5 DEF Merged, NoPair

LEMMA StepMerged == IInv /\ Merged /\ [Next]_vars => Merged'
<1> SUFFICES ASSUME IInv, Merged, [Next]_vars PROVE Merged'
  OBVIOUS
<1>1. ASSUME NEW k \in Order, alloc_pages(k) PROVE Merged'
  BY <1>1, SearchMerged
<1>2. CASE split_area
  BY <1>2, SplitMerged
<1>3. CASE take
  BY <1>3, TakeMerged
<1>4. ASSUME NEW b \in Block, free_pages(b) PROVE Merged'
  BY <1>4 DEF free_pages, Merged, NoPair
<1>5. CASE merge
  BY <1>5, MergeMerged
<1>6. CASE put
  BY <1>6, PutMerged
<1>7. CASE Halted \/ UNCHANGED vars
  BY <1>7 DEF Halted, vars, Merged, NoPair
<1> QED BY <1>1, <1>2, <1>3, <1>4, <1>5, <1>6, <1>7 DEF Next

\* When free_pages returns, no block that is free could have been merged with
\* its buddy.
THEOREM BuddiesMerged == Spec => []Coalesced
<1>1. Merged => Coalesced
  <2> SUFFICES ASSUME Merged, pc = "ready",
                      NEW k \in Order \ {MAX_ORDER - 1}, NEW p \in free[k],
                      p % Size[k + 1] = 0
               PROVE  p + Size[k] \notin free[k]
    BY DEF Coalesced
  <2>1. NoPair(free[k], k)
    BY DEF Merged
  <2> QED BY <2>1 DEF NoPair
<1> QED BY InitIInv, StepIInv, InitMerged, StepMerged, <1>1, PTL DEF Spec

-----------------------------------------------------------------------------

(***************************************************************************)
(* The allocator implements PageAlloc.                                     *)
(***************************************************************************)

PInv == IInv /\ Conserved /\ Aligned /\ Merged

LEMMA InitPInv == Init => PInv
BY InitIInv, InitConserved, InitAligned, InitMerged DEF PInv

LEMMA StepPInv == PInv /\ [Next]_vars => PInv'
BY StepIInv, StepConserved, StepAligned, StepMerged DEF PInv

\* The pages of a block, and a page that two blocks share.
LEMMA ExtentFacts ==
  ASSUME NEW b, b.page \in Nat, b.order \in Order
  PROVE  \A p : p \in PA!Extent(b) <=> p \in Nat /\ Covers(b, p)
<1>1. Size[b.order] \in Nat
  BY SizeFacts
<1> QED BY <1>1 DEF PA!Extent, Covers

LEMMA NoSharedPage ==
  ASSUME IInv, NEW b \in Blocks, NEW c \in Blocks, NEW p \in Nat,
         Covers(b, p), Covers(c, p)
  PROVE  b = c
<1>1. b = c \/ Before(b, c) \/ Before(c, b)
  BY DEF IInv, Disjoint
<1>2. /\ b.page \in Nat /\ Size[b.order] \in Nat
      /\ c.page \in Nat /\ Size[c.order] \in Nat
  BY BlockFacts DEF IInv
<1>3. ~Before(b, c) /\ ~Before(c, b)
  BY <1>2 DEF Before, Covers
<1> QED BY <1>1, <1>3

\* A free area holds, at its beginning, an area of each smaller order, which
\* PageAlloc may hand out: it lies among the managed pages, is aligned and
\* shares no page with an owned block.
LEMMA FreeAvailable ==
  ASSUME PInv, NEW j \in Order, NEW k \in Order, k <= j, NEW p \in free[j]
  PROVE  Area(p, k) \in PA!Available(k)
<1> DEFINE x == Area(p, k)
           y == Area(p, j)
<1>1. p \in Page /\ p \in Nat /\ y \in Block
  BY DEF PInv, IInv, TypeOK, Page, Block, Area
<1>2. y \in FreeBlocks /\ y \in Blocks /\ y \notin allocated
  BY <1>1 DEF PInv, IInv, Disjoint, Blocks, FreeBlocks, Area
<1>3. x.page = p /\ x.order = k /\ y.page = p /\ y.order = j
  BY DEF Area
<1>4. /\ Size[k] \in Nat /\ Size[k] >= 1
      /\ Size[j] \in Nat /\ Size[k] <= Size[j]
  BY SizeFacts, BuddyAssumption DEF Order
<1>5. p % Size[k] = 0
  <2>1. p % Size[j] = 0
    BY <1>2, <1>3 DEF PInv, Aligned
  <2> QED BY <1>1, <2>1, Descend DEF Order
<1>6. \A r : r \in PA!Extent(x) <=> r \in Nat /\ Covers(x, r)
  BY <1>1, <1>3, ExtentFacts
<1> HIDE DEF x, y
<1>7. \A r \in PA!Extent(x) : r \in Nat /\ Covers(y, r)
  BY <1>1, <1>3, <1>4, <1>6 DEF Covers
<1>8. PA!Extent(x) \subseteq Managed
  <2> SUFFICES ASSUME NEW r \in PA!Extent(x) PROVE r \in Managed
    OBVIOUS
  <2>1. r \in Nat /\ Covers(y, r)
    BY <1>7
  <2>2. r \in Page
    <3>1. y.page + Size[y.order] <= PHYSIZE
      BY <1>2 DEF PInv, IInv, Fits
    <3>2. PHYSIZE \in Nat
      BY BuddyAssumption
    <3> QED BY <1>1, <1>3, <1>4, <2>1, <3>1, <3>2 DEF Page, Covers
  <2> QED BY <1>2, <2>1, <2>2 DEF PInv, Conserved
<1>9. p \in Managed
  <2>1. Covers(x, p)
    BY <1>1, <1>3, <1>4 DEF Covers
  <2> QED BY <1>1, <1>6, <1>8, <2>1
<1>10. PA!Extent(x) \cap PA!Owned = {}
  <2> SUFFICES ASSUME NEW r \in PA!Extent(x), r \in PA!Owned PROVE FALSE
    OBVIOUS
  <2>1. PICK b \in allocated : r \in PA!Extent(b)
    BY DEF PA!Owned
  <2>2. b \in Blocks
    BY DEF Blocks
  <2>3. b.page \in Nat /\ b.order \in Order
    BY <2>2, BlockFacts DEF PInv, IInv
  <2>4. r \in Nat /\ Covers(y, r) /\ Covers(b, r)
    BY <1>7, <2>1, <2>3, ExtentFacts
  <2> QED BY <1>2, <2>2, <2>4, NoSharedPage DEF PInv
<1> QED BY <1>5, <1>8, <1>9, <1>10 DEF PA!Available, Area, x

\* alloc_pages accepts a request only when there is an area for it.
LEMMA SearchRequest ==
  ASSUME PInv, NEW k \in Order, alloc_pages(k), pc' = "split"
  PROVE  PA!Available(k) # {}
<1>1. PICK j \in k..(MAX_ORDER - 1) : free[j] # {}
  BY DEF alloc_pages, Search
<1>2. PICK p : p \in free[j]
  BY <1>1
<1>3. j \in Order /\ k <= j
  BY BuddyAssumption DEF Order
<1> QED BY <1>2, <1>3, FreeAvailable

\* The area that alloc_pages takes is one PageAlloc may hand out.
LEMMA TakeGrant ==
  ASSUME PInv, take
  PROVE  PA!Grant
<1>1. PICK p \in free[order] : allocated' = allocated \cup {Area(p, order)}
  BY DEF take, Area
<1>2. pc = "split" /\ pc' = "ready" /\ order \in Order
  BY DEF take, Return, PInv, IInv, TypeOK
<1>3. Area(p, order) \in PA!Available(order)
  <2>1. order <= order
    BY <1>2 DEF Order
  <2> QED BY <1>2, <2>1, FreeAvailable
<1> QED BY <1>1, <1>2, <1>3 DEF PA!Grant

\* The buddy of an area, whichever half of its pair the area is: low is where
\* the pair begins, other where the buddy does.
LEMMA PairOf ==
  ASSUME NEW S \in Nat, S >= 1, NEW p \in Nat, p % S = 0
  PROVE  \E low, other \in Nat :
           /\ low % (S + S) = 0 /\ other % S = 0
           /\ \/ low = p /\ other = p + S
              \/ low = other /\ p = other + S
<1>1. CASE (p \div S) % 2 = 1
  <2>1. p >= S /\ (p - S) % (S + S) = 0
    BY <1>1, Parent
  <2>2. p - S \in Nat /\ p = (p - S) + S
    BY <2>1
  <2>3. (p - S) % S = 0
    BY <2>1, <2>2, HalfAligned
  <2> QED BY <2>1, <2>2, <2>3
<1>2. CASE (p \div S) % 2 # 1
  <2>1. p % (S + S) = 0
    BY <1>2, Parent
  <2>2. (p + S) % S = 0
    BY <2>1, HalfAligned
  <2>3. p + S \in Nat
    OBVIOUS
  <2> QED BY <2>1, <2>2, <2>3
<1> QED BY <1>1, <1>2

\* alloc_pages panics only when no aligned area of the order is left: if one
\* were, free blocks of smaller orders would cover it; the smallest of them and
\* the block that covers its buddy would be a pair, which free_pages has merged.
LEMMA PanicMeansNone ==
  ASSUME PInv, NEW k \in Order, alloc_pages(k), pc' = "panic"
  PROVE  PA!Available(k) = {}
<1>1. pc = "ready" /\ \A j \in k..(MAX_ORDER - 1) : free[j] = {}
  BY DEF alloc_pages, Search
<1> SUFFICES ASSUME NEW e \in PA!Available(k) PROVE FALSE
  OBVIOUS
<1> DEFINE q == e.page
<1>2. /\ q \in Managed /\ e.order = k /\ q % Size[k] = 0
      /\ PA!Extent(e) \subseteq Managed
      /\ PA!Extent(e) \cap PA!Owned = {}
  BY DEF PA!Available
<1>3. q \in Nat /\ Size[k] \in Nat /\ Size[k] >= 1
  BY <1>2, SizeFacts DEF Managed, Page
<1>4. \A r : r \in PA!Extent(e) <=> r \in Nat /\ q <= r /\ r < q + Size[k]
  BY <1>2, <1>3, ExtentFacts DEF Covers
<1> HIDE DEF q
<1> DEFINE Over(b, r) == b \in FreeBlocks /\ r \in PA!Extent(e) /\ Covers(b, r)
<1>5. \A r \in PA!Extent(e) : \E b \in FreeBlocks : Over(b, r)
  <2> TAKE r \in PA!Extent(e)
  <2>1. r \in Page /\ r \in Managed
    BY <1>2 DEF Managed
  <2>2. PICK b \in Blocks : Covers(b, r)
    BY <2>1 DEF PInv, Conserved
  <2>3. b \notin allocated
    <3>1. b.page \in Nat /\ b.order \in Order /\ r \in Nat
      BY <2>1, BlockFacts DEF PInv, IInv, Page
    <3>2. r \in PA!Extent(b)
      BY <2>2, <3>1, ExtentFacts
    <3> QED BY <1>2, <3>2 DEF PA!Owned
  <2>4. b \in FreeBlocks
    BY <1>1, <2>3 DEF Blocks, Held
  <2> QED BY <2>2, <2>4
<1>6. \A b \in FreeBlocks : /\ b \in Blocks /\ b.page \in Nat
                           /\ b.order \in Order /\ b.order < k
                           /\ b.page \in free[b.order]
                           /\ b.page % Size[b.order] = 0
                           /\ b = Area(b.page, b.order)
  <2> TAKE b \in FreeBlocks
  <2>1. b \in Blocks /\ b.page \in Nat /\ b.order \in Order
    BY BlockFacts DEF PInv, IInv, Blocks
  <2>2. b.page \in free[b.order] /\ b = Area(b.page, b.order)
    BY DEF FreeBlocks, Block, Area
  <2>3. b.order < k
    <3>1. MAX_ORDER \in Nat
      BY BuddyAssumption
    <3> QED BY <1>1, <2>1, <2>2, <3>1 DEF Order
  <2> QED BY <2>1, <2>2, <2>3 DEF PInv, Aligned
<1> DEFINE X == {b.order : b \in {c \in FreeBlocks :
                                    \E r \in PA!Extent(e) : Covers(c, r)}}
<1>7. X \in SUBSET Nat /\ X # {}
  <2>1. q \in PA!Extent(e)
    BY <1>3, <1>4
  <2> QED BY <1>5, <1>6, <2>1 DEF Order
<1>8. PICK i \in X : \A j \in X : i <= j
  BY <1>7, LeastNat
<1>9. PICK b \in FreeBlocks : b.order = i /\ \E r \in PA!Extent(e) : Covers(b, r)
  BY <1>8
<1>10. PICK r \in PA!Extent(e) : Covers(b, r)
  BY <1>9
<1>11. \A g \in FreeBlocks : \A t \in PA!Extent(e) :
         Covers(g, t) => i <= g.order
  BY <1>8
<1> HIDE DEF X, Over
<1> DEFINE p == b.page
           S == Size[i]
<1>12. /\ i \in Order /\ i < k /\ i + 1 \in Order /\ i + 1 <= k
       /\ i # MAX_ORDER - 1 /\ i \in Nat
       /\ p \in Nat /\ p \in free[i] /\ p % S = 0
       /\ p <= r /\ r < p + S
  <2>1. MAX_ORDER \in Nat
    BY BuddyAssumption
  <2>2. i \in Order /\ i < k
    BY <1>6, <1>9
  <2>3. i + 1 \in Order /\ i + 1 <= k /\ i # MAX_ORDER - 1 /\ i \in Nat
    BY <2>1, <2>2 DEF Order
  <2> QED BY <1>6, <1>9, <1>10, <2>2, <2>3 DEF Covers
<1>13. S \in Nat /\ S >= 1 /\ Size[i + 1] = S + S
  BY <1>12, SizeFacts
<1> HIDE DEF p, S
<1>14. PICK low, other \in Nat :
         /\ low % (S + S) = 0 /\ other % S = 0
         /\ \/ low = p /\ other = p + S
            \/ low = other /\ p = other + S
  BY <1>12, <1>13, PairOf
\* The pair lies in the area, so a free block covers the buddy.
<1>15. q <= low /\ low + (S + S) <= q + Size[k]
  <2>1. r \in Nat /\ q <= r /\ r < q + Size[k]
    BY <1>4
  <2>2. \/ low + (S + S) <= q
        \/ q + Size[k] <= low
        \/ q <= low /\ low + (S + S) <= q + Size[k]
    BY <1>2, <1>3, <1>12, <1>13, <1>14, Nest DEF q
  <2> QED BY <1>3, <1>12, <1>13, <1>14, <2>1, <2>2
<1>16. other \in PA!Extent(e)
  BY <1>3, <1>4, <1>13, <1>14, <1>15
<1>17. PICK g \in FreeBlocks : Covers(g, other)
  BY <1>5, <1>16 DEF Over
<1>18. /\ g.page \in Nat /\ g.order \in Order /\ g.page \in free[g.order]
       /\ g.page % Size[g.order] = 0
       /\ g.page <= other /\ other < g.page + Size[g.order]
       /\ Size[g.order] \in Nat
  BY <1>6, <1>17, SizeFacts DEF Covers
<1>19. i <= g.order
  BY <1>11, <1>16, <1>17
\* A larger block would cover both halves.
<1>20. g.order = i
  <2> SUFFICES ASSUME g.order # i PROVE FALSE
    OBVIOUS
  <2>1. i + 1 <= g.order
    <3>1. g.order \in Nat
      BY <1>18 DEF Order
    <3> QED BY <1>12, <1>19, <3>1
  <2>2. \/ low + (S + S) <= g.page
        \/ g.page + Size[g.order] <= low
        \/ g.page <= low /\ low + (S + S) <= g.page + Size[g.order]
    BY <1>12, <1>13, <1>14, <1>18, <2>1, Nest
  <2>3. g.page <= p /\ p < g.page + Size[g.order]
    <3>1. low <= other /\ other < low + (S + S)
          /\ low <= p /\ p < low + (S + S)
      BY <1>12, <1>13, <1>14
    <3>2. g.page <= low /\ low + (S + S) <= g.page + Size[g.order]
      BY <1>13, <1>14, <1>18, <2>2, <3>1
    <3> QED BY <1>12, <1>13, <1>14, <1>18, <3>1, <3>2
  <2>4. Covers(g, p) /\ Covers(b, p)
    BY <1>9, <1>12, <1>13, <2>3 DEF Covers, p, S
  <2>5. g = b
    BY <1>6, <1>12, <2>4, NoSharedPage DEF PInv
  <2> QED BY <1>9, <2>5
<1>21. g.page = other
  <2>1. \/ g.page + S <= other
        \/ other + S <= g.page
        \/ other <= g.page /\ g.page + S <= other + S
    BY <1>12, <1>14, <1>18, <1>20, Nest DEF S, Order
  <2> QED BY <1>13, <1>14, <1>18, <1>20, <2>1 DEF S
<1>22. low \in free[i] /\ low + S \in free[i]
  BY <1>12, <1>14, <1>18, <1>20, <1>21
<1>23. NoPair(free[i], i)
  BY <1>1, <1>12 DEF PInv, Merged
<1> QED BY <1>12, <1>13, <1>14, <1>22, <1>23 DEF NoPair, S

\* Every step of the allocator is a step of PageAlloc or changes nothing that
\* a caller sees.
LEMMA StepImplements == PInv /\ [Next]_vars => [PA!Next]_PA!vars
<1> SUFFICES ASSUME PInv, [Next]_vars PROVE [PA!Next]_PA!vars
  OBVIOUS
<1>1. ASSUME NEW k \in Order, alloc_pages(k) PROVE [PA!Next]_PA!vars
  <2>1. /\ allocated' = allocated /\ order' = k
        /\ pc = "ready" /\ pc' \in {"split", "panic"}
    BY <1>1 DEF alloc_pages, Search
  <2>2. CASE pc' = "split"
    <3>1. PA!Available(k) # {}
      BY <1>1, <2>2, SearchRequest
    <3>2. PA!Request(k)
      BY <2>1, <2>2, <3>1 DEF PA!Request, PA!Ready
    <3> QED BY <3>2 DEF PA!Next, PA!Order, Order
  <2>3. CASE pc' = "panic"
    <3>1. PA!Available(k) = {}
      BY <1>1, <2>3, PanicMeansNone
    <3>2. PA!OutOfMemory(k)
      BY <2>1, <2>3, <3>1 DEF PA!OutOfMemory, PA!Ready
    <3> QED BY <3>2 DEF PA!Next, PA!Order, Order
  <2> QED BY <2>1, <2>2, <2>3
<1>2. CASE split_area
  BY <1>2 DEF split_area, PA!vars
<1>3. CASE take
  BY <1>3, TakeGrant DEF PA!Next
<1>4. ASSUME NEW b \in Block, free_pages(b) PROVE [PA!Next]_PA!vars
  <2>1. PA!Free
    BY <1>4 DEF free_pages, PA!Free, PA!Ready
  <2> QED BY <2>1 DEF PA!Next
<1>5. CASE merge
  BY <1>5 DEF merge, PA!vars
<1>6. CASE put
  BY <1>6 DEF put, Return, PA!vars
<1>7. CASE Halted \/ UNCHANGED vars
  BY <1>7 DEF Halted, vars, PA!vars
<1> QED BY <1>1, <1>2, <1>3, <1>4, <1>5, <1>6, <1>7 DEF Next

\* alloc_pages and free_pages, followed loop by loop, do what PageAlloc says:
\* a call hands out one aligned block of the order asked for that nobody owns,
\* or stops the kernel when, and only when, no such block is left.
THEOREM AllocatorImplements == Spec => Implements
<1>1. Init => PA!Init
  BY DEF Init, PA!Init
<1> QED BY InitPInv, StepPInv, StepImplements, <1>1, PTL
     DEF Spec, Implements, PA!Spec

=============================================================================
