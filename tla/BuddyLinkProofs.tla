-------------------------- MODULE BuddyLinkProofs --------------------------
(***************************************************************************)
(* Proofs about the free lists as they are kept in memory, for any number  *)
(* of orders and any amount of RAM.                                        *)
(***************************************************************************)
EXTENDS BuddyLinks, FiniteSetTheorems, WellFoundedInduction, TLAPS

-----------------------------------------------------------------------------
(* Lists in memory                                                         *)

\* In the memory w, l is the list that begins with first: no area occurs twice,
\* each leads to the next and the last to NULL.
Path(l, first, w) ==
  /\ l \in Seq(Page)
  /\ IsInjective(l)
  /\ first = IF l = << >> THEN NULL ELSE l[1]
  /\ \A i \in 1..Len(l) :
       w[l[i]] = Link(IF i = Len(l) THEN NULL ELSE l[i + 1])

\* Walk in the memory w.
WalkIn(w, first) ==
  LET follow == [s \in Seq(Page) |->
                   LET p == IF s = << >> THEN first ELSE w[Last(s)].link
                   IN  IF p = NULL THEN s ELSE Append(s, p)]
      walk[n \in 0..PHYSIZE] == IF n = 0 THEN << >> ELSE follow[walk[n - 1]]
  IN  walk[PHYSIZE]

LEMMA WalkIsWalkIn ==
  \A k : FreeList(k) = WalkIn(word, buddy_pages[k])
BY Zenon DEF FreeList, Walk, WalkIn, Next_of

LEMMA WalkIsWalkInPrime ==
  \A k : FreeList(k)' = WalkIn(word', buddy_pages'[k])
BY Zenon DEF FreeList, Walk, WalkIn, Next_of

-----------------------------------------------------------------------------
(* The allocator of Buddy, with the sets that the lists hold               *)

Frees == [k \in Order |-> ToSet(FreeList(k))]
BlockOf(b) == [page |-> b.page, order |-> word[b.page].count]
Owned == pages \cup {BlockOf(b) : b \in buffers}

BP == INSTANCE BuddyProofs WITH free <- Frees, allocated <- Owned

LEMMA Sizes == BP!BuddyAssumption
BY LinksAssumption DEF BP!BuddyAssumption, BP!Order, Order

LEMMA SizeFacts ==
  /\ \A k \in Order : k + 1 \in 0..MAX_ORDER /\ k \in 0..MAX_ORDER
  /\ \A k \in Order : Size[k] \in Nat /\ Size[k] >= 1
  /\ \A k \in Order : Size[k + 1] = Size[k] + Size[k]
  /\ \A k \in Order : Size[k + 1] \in Nat
  /\ \A k \in Order : Size[k] + Size[k] <= PHYSIZE
  /\ \A j, k \in Order : j < k => Size[j + 1] <= Size[k]
BY Sizes, BP!SizeFacts DEF BP!Order, Order

LEMMA Induct ==
  ASSUME NEW N \in Nat, NEW X, 0 \in X,
         \A n \in 1..N : n - 1 \in X => n \in X
  PROVE  \A n \in 0..N : n \in X
<1> DEFINE Bad == {n \in 0..N : n \notin X}
<1> SUFFICES ASSUME Bad # {} PROVE FALSE
  OBVIOUS
<1>1. Bad \in SUBSET Nat
  OBVIOUS
<1>2. PICK n \in Bad : \A m \in Bad : n <= m
  BY <1>1, Sizes, BP!LeastNat
<1>3. n \in 1..N
  <2>1. n \in 0..N /\ n # 0
    BY <1>2
  <2> QED BY <2>1
<1>4. n - 1 \in 0..N /\ n - 1 \in Nat /\ ~(n <= n - 1)
  BY <1>3
<1>5. n - 1 \in X
  BY <1>2, <1>4
<1> QED BY <1>3, <1>5

-----------------------------------------------------------------------------
(* Walking along a list                                                    *)

\* A list without repetitions is no longer than its areas are many.
LEMMA PathLength ==
  ASSUME NEW a \in Int, NEW b \in Int, NEW l \in Seq(a..b), IsInjective(l),
         a <= b + 1
  PROVE  Len(l) <= (b - a) + 1
<1> DEFINE S == 1..Len(l)
           T == a..b
<1>1. Len(l) \in Nat /\ l \in [S -> T] /\ DOMAIN l = S
  OBVIOUS
<1>2. IsFiniteSet(S) /\ Cardinality(S) = Len(l)
  <2>1. /\ IsFiniteSet(S)
        /\ Cardinality(S) = IF 1 > Len(l) THEN 0 ELSE (Len(l) - 1) + 1
    <3>1. 1 \in Int /\ Len(l) \in Int
      BY <1>1
    <3> QED BY <3>1, FS_Interval
  <2> HIDE DEF S
  <2> QED BY <1>1, <2>1
<1>3. IsFiniteSet(T) /\ Cardinality(T) = (b - a) + 1
  BY FS_Interval
<1>4. ~(\E x, y \in S : x # y /\ l[x] = l[y])
  BY <1>1 DEF IsInjective
<1> HIDE DEF S, T
<1>5. ~(Cardinality(T) < Cardinality(S))
  BY <1>1, <1>2, <1>3, <1>4, FS_PigeonHole, Zenon
<1> QED BY <1>1, <1>2, <1>3, <1>5

\* What walk holds after n areas.
Prefix(l, n) == SubSeq(l, 1, IF n <= Len(l) THEN n ELSE Len(l))

LEMMA PrefixFacts ==
  ASSUME NEW l \in Seq(Page), NEW n \in Nat
  PROVE  /\ Prefix(l, n) \in Seq(Page)
         /\ Len(Prefix(l, n)) = IF n <= Len(l) THEN n ELSE Len(l)
         /\ \A i \in 1..Len(Prefix(l, n)) : Prefix(l, n)[i] = l[i]
<1>1. Len(l) \in Nat /\ \A i \in 1..Len(l) : l[i] \in Page
  OBVIOUS
<1> DEFINE m == IF n <= Len(l) THEN n ELSE Len(l)
<1>2. m \in Nat /\ m <= Len(l)
  BY <1>1
<1>3. Prefix(l, n) = [i \in 1..m |-> l[i]]
  <2>1. Prefix(l, n) = SubSeq(l, 1, m)
    BY DEF Prefix
  <2> HIDE DEF m
  <2> QED BY <1>1, <1>2, <2>1
<1> HIDE DEF m
<1>4. Prefix(l, n) \in Seq(Page) /\ Len(Prefix(l, n)) = m
  BY <1>1, <1>2, <1>3
<1>5. \A i \in 1..m : Prefix(l, n)[i] = l[i]
  BY <1>3
<1> QED BY <1>4, <1>5 DEF m

\* It finds the list that is there.
LEMMA WalkPath ==
  ASSUME NEW w, NEW first, NEW l, Path(l, first, w)
  PROVE  WalkIn(w, first) = l
<1> DEFINE follow == [s \in Seq(Page) |->
                        LET p == IF s = << >> THEN first ELSE w[Last(s)].link
                        IN  IF p = NULL THEN s ELSE Append(s, p)]
           Is(f) == f = [n \in 0..PHYSIZE |->
                           IF n = 0 THEN << >> ELSE follow[f[n - 1]]]
           g == [n \in 0..PHYSIZE |-> Prefix(l, n)]
<1>1. /\ l \in Seq(Page) /\ Len(l) \in Nat
      /\ \A i \in 1..Len(l) : l[i] \in Page /\ l[i] # NULL
      /\ PHYSIZE \in Nat
  BY LinksAssumption DEF Path
<1>2. Len(l) <= PHYSIZE
  <2>1. l \in Seq(0..(PHYSIZE - 1)) /\ IsInjective(l)
    BY DEF Path, Page
  <2>2. Len(l) <= ((PHYSIZE - 1) - 0) + 1
    BY <1>1, <2>1, PathLength
  <2> QED BY <1>1, <2>2
<1>3. Prefix(l, 0) = << >>
  BY <1>1, PrefixFacts
<1>4. Prefix(l, PHYSIZE) = l
  <2>1. \A i \in 1..Len(l) : Prefix(l, PHYSIZE)[i] = l[i]
    BY <1>1, <1>2, PrefixFacts
  <2>2. Prefix(l, PHYSIZE) \in Seq(Page) /\ Len(Prefix(l, PHYSIZE)) = Len(l)
    BY <1>1, <1>2, PrefixFacts
  <2> QED BY <1>1, <2>1, <2>2
<1>5. ASSUME NEW n \in 1..PHYSIZE
      PROVE  follow[Prefix(l, n - 1)] = Prefix(l, n)
  <2> DEFINE s == Prefix(l, n - 1)
             p == IF s = << >> THEN first ELSE w[Last(s)].link
  <2>1. n - 1 \in Nat /\ n \in Nat
    OBVIOUS
  <2>2. /\ s \in Seq(Page)
        /\ Len(s) = IF n - 1 <= Len(l) THEN n - 1 ELSE Len(l)
        /\ \A i \in 1..Len(s) : s[i] = l[i]
    BY <1>1, <2>1, PrefixFacts
  <2>3. /\ Prefix(l, n) \in Seq(Page)
        /\ Len(Prefix(l, n)) = IF n <= Len(l) THEN n ELSE Len(l)
        /\ \A i \in 1..Len(Prefix(l, n)) : Prefix(l, n)[i] = l[i]
    BY <1>1, <2>1, PrefixFacts
  <2>4. follow[s] = IF p = NULL THEN s ELSE Append(s, p)
    BY <2>2
  <2>5. p = IF Len(s) = Len(l) THEN NULL ELSE l[Len(s) + 1]
    <3>1. CASE s = << >>
      BY <3>1, <1>1 DEF Path
    <3>2. CASE s # << >>
      <4>1. Len(s) \in 1..Len(l) /\ Len(s) \in 1..Len(s)
        BY <1>1, <2>1, <2>2, <3>2
      <4>2. Last(s) = l[Len(s)]
        BY <2>2, <4>1 DEF Last
      <4>3. w[l[Len(s)]] = Link(IF Len(s) = Len(l) THEN NULL ELSE l[Len(s) + 1])
        BY <4>1 DEF Path
      <4> QED BY <3>2, <4>2, <4>3 DEF Link
    <3> QED BY <3>1, <3>2
  <2> HIDE DEF s, p, follow
  <2>6. CASE n <= Len(l)
    <3>1. Len(s) = n - 1 /\ p = l[n] /\ p # NULL /\ p \in Page
      BY <1>1, <2>1, <2>2, <2>5, <2>6
    <3>2. Append(s, p) = Prefix(l, n)
      BY <1>1, <2>1, <2>2, <2>3, <2>6, <3>1
    <3> QED BY <2>4, <3>1, <3>2 DEF s
  <2>7. CASE ~(n <= Len(l))
    <3>1. Len(s) = Len(l) /\ p = NULL
      BY <1>1, <2>1, <2>2, <2>5, <2>7
    <3>2. s = Prefix(l, n)
      BY <1>1, <2>1, <2>2, <2>3, <2>7, <3>1
    <3> QED BY <2>4, <3>1, <3>2 DEF s
  <2> QED BY <2>6, <2>7
<1> HIDE DEF follow
<1>6. Is(g)
  <2>1. ASSUME NEW n \in 0..PHYSIZE
        PROVE  g[n] = IF n = 0 THEN << >> ELSE follow[g[n - 1]]
    <3>1. CASE n = 0
      BY <1>3, <3>1
    <3>2. CASE n # 0
      <4>1. n \in 1..PHYSIZE /\ n - 1 \in 0..PHYSIZE
        BY <1>1, <3>2
      <4> QED BY <1>5, <3>2, <4>1
    <3> QED BY <3>1, <3>2
  <2>2. g = [n \in 0..PHYSIZE |-> g[n]]
    OBVIOUS
  <2> HIDE DEF g
  <2> QED BY <2>1, <2>2
<1> DEFINE h == CHOOSE f : Is(f)
<1>7. WalkIn(w, first) = h[PHYSIZE]
  BY Zenon DEF WalkIn, follow
<1>8. Is(h)
  <2> HIDE DEF Is, g
  <2> QED BY <1>6
<1>9. /\ h[0] = << >>
      /\ \A n \in 1..PHYSIZE : h[n] = follow[h[n - 1]]
  <2>1. \A n \in 0..PHYSIZE : h[n] = IF n = 0 THEN << >> ELSE follow[h[n - 1]]
    <3> HIDE DEF h
    <3> QED BY <1>8
  <2> HIDE DEF h
  <2> QED BY <1>1, <2>1
<1> HIDE DEF h
<1>10. h[PHYSIZE] = Prefix(l, PHYSIZE)
  <2> DEFINE X == {n \in 0..PHYSIZE : h[n] = Prefix(l, n)}
  <2>1. 0 \in X
    BY <1>1, <1>3, <1>9
  <2>2. ASSUME NEW n \in 1..PHYSIZE, n - 1 \in X PROVE n \in X
    BY <1>1, <1>5, <1>9, <2>2
  <2> HIDE DEF X
  <2>3. \A n \in 0..PHYSIZE : n \in X
    BY <1>1, <2>1, <2>2, Induct
  <2>4. PHYSIZE \in X
    BY <1>1, <2>3
  <2> QED BY <2>4 DEF X
<1> QED BY <1>4, <1>7, <1>10

-----------------------------------------------------------------------------
(* The order of a request                                                  *)

\* The order whose size is next below p.
Fits(p, j) == Size[j] <= p /\ p < Size[j + 1]

LEMMA OneFits ==
  ASSUME NEW k \in Order, NEW p \in 1..Size[k]
  PROVE  \E j \in Order : Fits(p, j)
<1> DEFINE X == {j \in 0..MAX_ORDER : p < Size[j]}
<1>1. k + 1 \in X
  BY SizeFacts
<1>2. X \in SUBSET Nat /\ X # {}
  BY <1>1
<1>3. PICK m \in X : \A y \in X : m <= y
  BY <1>2, Sizes, BP!LeastNat
<1>4. m \in 0..MAX_ORDER /\ p < Size[m] /\ m # 0
  <2>1. Size[0] = 1 /\ p >= 1
    BY LinksAssumption
  <2> QED BY <2>1
<1>5. m - 1 \in Order /\ m - 1 \in 0..MAX_ORDER /\ ~(m <= m - 1)
      /\ (m - 1) + 1 = m
  BY <1>4, LinksAssumption DEF Order
<1>6. ~(p < Size[m - 1])
  BY <1>3, <1>5
<1>7. Size[m - 1] \in Nat /\ p \in Nat
  BY <1>5, SizeFacts
<1> QED BY <1>4, <1>5, <1>6, <1>7 DEF Fits

LEMMA FitsOnce ==
  ASSUME NEW p \in Nat, NEW i \in Order, NEW j \in Order, Fits(p, i), Fits(p, j)
  PROVE  i = j
<1>1. /\ i \in Int /\ j \in Int /\ Size[i] \in Nat /\ Size[j] \in Nat
      /\ Size[i + 1] \in Nat /\ Size[j + 1] \in Nat
  BY SizeFacts DEF Order
<1>2. ~(i < j)
  BY <1>1, SizeFacts DEF Fits
<1>3. ~(j < i)
  BY <1>1, SizeFacts DEF Fits
<1> QED BY <1>1, <1>2, <1>3

LEMMA FitsHalf ==
  ASSUME NEW p \in Nat, p > 1, NEW j \in Order, Fits(p, j)
  PROVE  /\ j - 1 \in Order /\ Fits(p \div 2, j - 1)
         /\ p \div 2 \in Nat /\ p \div 2 >= 1 /\ p \div 2 < p
<1>1. j # 0
  <2>1. 0 \in Order /\ Size[0] = 1 /\ Size[0 + 1] = Size[0] + Size[0]
    BY SizeFacts, LinksAssumption DEF Order
  <2> QED BY <2>1 DEF Fits
<1>2. j - 1 \in Order /\ (j - 1) + 1 = j
  BY <1>1, LinksAssumption DEF Order
<1>3. /\ Size[j - 1] \in Nat /\ Size[j] = Size[j - 1] + Size[j - 1]
      /\ Size[j + 1] = Size[j] + Size[j]
  BY <1>2, SizeFacts
<1>4. p \div 2 \in Nat /\ 2 * (p \div 2) <= p /\ p <= 2 * (p \div 2) + 1
  OBVIOUS
<1> DEFINE h == p \div 2
<1> HIDE DEF h
<1>5. Size[j - 1] <= h /\ h < Size[j]
  BY <1>3, <1>4 DEF Fits, h
<1> QED BY <1>2, <1>4, <1>5 DEF Fits, h

\* kmalloc's loop counts the doublings.
LEMMA HalvingsOfSize ==
  ASSUME NEW k \in Order
  PROVE  Halvings(Size[k]) = k
<1> DEFINE q == Size[k]
           Is(f) == f = [p \in 0..q |-> IF p > 1 THEN 1 + f[p \div 2] ELSE 0]
           ord(p) == CHOOSE j \in Order : Fits(p, j)
           g == [p \in 0..q |-> IF p = 0 THEN 0 ELSE ord(p)]
           h == CHOOSE f : Is(f)
<1>1. q \in Nat /\ q >= 1
  BY SizeFacts
<1>2. \A p \in 1..q : ord(p) \in Order /\ Fits(p, ord(p))
  BY OneFits
<1> HIDE DEF q, ord
<1>3. ASSUME NEW p \in 0..q
      PROVE  g[p] = IF p > 1 THEN 1 + g[p \div 2] ELSE 0
  <2>1. CASE p = 0
    BY <2>1
  <2>2. CASE p = 1
    <3>1. 0 \in Order /\ Size[0] = 1 /\ Size[0 + 1] = Size[0] + Size[0]
      BY SizeFacts, LinksAssumption DEF Order
    <3>2. Fits(1, 0)
      BY <3>1 DEF Fits
    <3>3. ord(1) = 0
      BY <1>1, <1>2, <3>1, <3>2, FitsOnce
    <3> QED BY <2>2, <3>3
  <2>3. CASE p > 1
    <3>1. p \in 1..q /\ p \in Nat /\ ord(p) \in Order /\ Fits(p, ord(p))
      BY <1>1, <1>2, <2>3
    <3>2. /\ ord(p) - 1 \in Order /\ Fits(p \div 2, ord(p) - 1)
          /\ p \div 2 \in Nat /\ p \div 2 >= 1 /\ p \div 2 < p
      BY <2>3, <3>1, FitsHalf
    <3>3. p \div 2 \in 1..q
      BY <1>1, <3>1, <3>2
    <3>4. ord(p \div 2) = ord(p) - 1
      BY <1>2, <3>2, <3>3, FitsOnce
    <3>5. ord(p) \in Int
      BY <3>1 DEF Order
    <3>6. g[p] = ord(p) /\ g[p \div 2] = ord(p \div 2)
      BY <2>3, <3>2, <3>3
    <3> QED BY <2>3, <3>4, <3>5, <3>6
  <2> QED BY <2>1, <2>2, <2>3
<1>4. Is(h)
  <2>1. g = [p \in 0..q |-> g[p]]
    OBVIOUS
  <2> HIDE DEF g
  <2>2. Is(g)
    BY <1>3, <2>1
  <2> HIDE DEF Is
  <2> QED BY <2>2
<1>5. Halvings(q) = h[q]
  BY Zenon DEF Halvings
<1>6. \A p \in 0..q : h[p] = IF p > 1 THEN 1 + h[p \div 2] ELSE 0
  <2> HIDE DEF h
  <2> QED BY <1>4
<1> HIDE DEF h
<1> DEFINE X == {i \in 0..k : h[Size[i]] = i}
<1>7. 0 \in X
  BY <1>1, <1>6, LinksAssumption DEF Order
<1>8. ASSUME NEW i \in 1..k, i - 1 \in X PROVE i \in X
  <2>1. i \in Order /\ i - 1 \in Order /\ (i - 1) + 1 = i /\ k \in Int
    BY LinksAssumption DEF Order
  <2>2. /\ Size[i - 1] \in Nat /\ Size[i - 1] >= 1
        /\ Size[i] = Size[i - 1] + Size[i - 1]
    BY <2>1, SizeFacts
  <2>3. Size[i] <= q
    <3>1. i <= k /\ i \in 0..MAX_ORDER /\ k \in 0..MAX_ORDER
      BY <2>1, SizeFacts
    <3> QED BY <3>1, LinksAssumption DEF q
  <2>4. Size[i] \in 0..q /\ Size[i] > 1 /\ Size[i] \div 2 = Size[i - 1]
    BY <1>1, <2>2, <2>3
  <2>5. h[Size[i]] = 1 + h[Size[i - 1]]
    BY <1>6, <2>4
  <2> QED BY <1>8, <2>1, <2>5
<1>9. \A i \in 0..k : i \in X
  <2>1. k \in Nat
    BY DEF Order
  <2> HIDE DEF X
  <2> QED BY <1>7, <1>8, <2>1, Induct
<1>10. h[q] = k
  BY <1>9 DEF q, Order
<1> QED BY <1>5, <1>10 DEF q

LEMMA RequestOrder ==
  ASSUME NEW n \in Requests
  PROVE  /\ KmallocOrder(n) \in Order
         /\ n + HEADER <= PAGE_SIZE * Size[KmallocOrder(n)]
         /\ n \in Nat /\ n # 0
<1>1. PICK k \in Order : PagesFor(n) = Size[k]
  BY LinksAssumption
<1>2. KmallocOrder(n) = k
  BY <1>1, HalvingsOfSize DEF KmallocOrder
<1>3. n \in Nat /\ n # 0 /\ PAGE_SIZE \in Nat /\ PAGE_SIZE >= 1 /\ HEADER \in Nat
  BY LinksAssumption
<1> DEFINE m == n + PAGE_SIZE - 1 + HEADER
<1>4. m \in Nat /\ m = ((n + HEADER) + PAGE_SIZE) - 1
  BY <1>3
<1> HIDE DEF m
<1>5. m = PAGE_SIZE * (m \div PAGE_SIZE) + (m % PAGE_SIZE) /\ m % PAGE_SIZE \in Nat
      /\ m % PAGE_SIZE < PAGE_SIZE
  BY <1>3, <1>4, Sizes, BP!DivMod
<1>6. m \div PAGE_SIZE = Size[k]
  BY <1>1 DEF m, PagesFor
<1>7. PAGE_SIZE * Size[k] \in Nat
  <2>1. Size[k] \in Nat
    BY SizeFacts
  <2> QED BY <1>3, <2>1
<1> DEFINE z == PAGE_SIZE * Size[k]
           r == m % PAGE_SIZE
<1>8. m = z + r /\ r \in Nat /\ r < PAGE_SIZE
  BY <1>5, <1>6
<1> HIDE DEF z, r
<1>9. n + HEADER <= z
  BY <1>3, <1>4, <1>7, <1>8 DEF z
<1> QED BY <1>1, <1>2, <1>3, <1>9 DEF z

-----------------------------------------------------------------------------
(* What is done to a list                                                  *)

\* In the memory w, the list that begins with first holds the areas S.
Holds(S, first, w) == \E l : Path(l, first, w) /\ ToSet(l) = S

LEMMA PathFacts ==
  ASSUME NEW l, NEW first, NEW w, Path(l, first, w)
  PROVE  /\ l \in Seq(Page) /\ Len(l) \in Nat
         /\ \A i \in 1..Len(l) : l[i] \in Page /\ l[i] # NULL /\ l[i] \in ToSet(l)
         /\ \A i, j \in 1..Len(l) : l[i] = l[j] => i = j
         /\ \A p \in ToSet(l) : \E i \in 1..Len(l) : p = l[i]
BY LinksAssumption DEF Path, IsInjective, ToSet

LEMMA HoldsFacts ==
  ASSUME NEW S, NEW first, NEW w, Holds(S, first, w)
  PROVE  /\ S \subseteq Page
         /\ first \in Page \cup {NULL}
         /\ first = NULL <=> S = {}
         /\ first # NULL => first \in S
<1>1. PICK l : Path(l, first, w) /\ ToSet(l) = S
  BY DEF Holds
<1>2. CASE l = << >>
  <2>1. S = {} /\ first = NULL
    BY <1>1, <1>2 DEF ToSet, Path
  <2> QED BY <2>1
<1>3. CASE l # << >>
  <2>1. 1 \in 1..Len(l) /\ first = l[1]
    BY <1>1, <1>3, PathFacts DEF Path
  <2> QED BY <1>1, <2>1, PathFacts
<1> QED BY <1>2, <1>3

\* The memory of other areas does not matter.
LEMMA HoldsElsewhere ==
  ASSUME NEW S, NEW first, NEW w, NEW v, Holds(S, first, w),
         \A p \in S : v[p] = w[p]
  PROVE  Holds(S, first, v)
<1>1. PICK l : Path(l, first, w) /\ ToSet(l) = S
  BY DEF Holds
<1>2. \A i \in 1..Len(l) : v[l[i]] = w[l[i]]
  BY <1>1, PathFacts
<1>3. Path(l, first, v)
  BY <1>1, <1>2 DEF Path
<1> QED BY <1>1, <1>3 DEF Holds

\* The first area is unlinked.
LEMMA HoldsTail ==
  ASSUME NEW S, NEW first, NEW w, Holds(S, first, w), first # NULL
  PROVE  Holds(S \ {first}, w[first].link, w)
<1>1. PICK l : Path(l, first, w) /\ ToSet(l) = S
  BY DEF Holds
<1> DEFINE t == Tail(l)
<1>2. /\ l \in Seq(Page) /\ l # << >> /\ Len(l) \in Nat /\ Len(l) >= 1
      /\ first = l[1] /\ 1 \in 1..Len(l)
  BY <1>1, PathFacts DEF Path
<1>3. t \in Seq(Page) /\ Len(t) = Len(l) - 1 /\ \A i \in 1..Len(t) : t[i] = l[i + 1]
  BY <1>2
<1>4. w[first].link = IF t = << >> THEN NULL ELSE t[1]
  <2>1. w[l[1]] = Link(IF 1 = Len(l) THEN NULL ELSE l[1 + 1])
    BY <1>1, <1>2, Zenon DEF Path
  <2>2. w[first].link = IF 1 = Len(l) THEN NULL ELSE l[1 + 1]
    BY <1>2, <2>1 DEF Link
  <2> HIDE DEF t
  <2>3. t = << >> <=> 1 = Len(l)
    BY <1>2, <1>3
  <2>4. t # << >> => t[1] = l[1 + 1]
    BY <1>2, <1>3, <2>3
  <2> QED BY <2>2, <2>3, <2>4
<1> HIDE DEF t
<1>5. IsInjective(t)
  <2>1. ASSUME NEW i \in 1..Len(t), NEW j \in 1..Len(t), t[i] = t[j]
        PROVE  i = j
    <3>1. i + 1 \in 1..Len(l) /\ j + 1 \in 1..Len(l) /\ l[i + 1] = l[j + 1]
      BY <1>2, <1>3, <2>1
    <3>2. i + 1 = j + 1
      BY <1>1, <3>1, PathFacts
    <3> QED BY <3>2
  <2> QED BY <1>3, <2>1 DEF IsInjective
<1>6. ASSUME NEW i \in 1..Len(t)
      PROVE  w[t[i]] = Link(IF i = Len(t) THEN NULL ELSE t[i + 1])
  <2>1. i + 1 \in 1..Len(l) /\ t[i] = l[i + 1]
    BY <1>2, <1>3
  <2>2. w[l[i + 1]] = Link(IF i + 1 = Len(l) THEN NULL ELSE l[(i + 1) + 1])
    BY <1>1, <2>1 DEF Path
  <2>3. i + 1 = Len(l) <=> i = Len(t)
    BY <1>2, <1>3
  <2>4. i # Len(t) => t[i + 1] = l[(i + 1) + 1]
    <3>1. i # Len(t) => i + 1 \in 1..Len(t)
      BY <1>2, <1>3
    <3> QED BY <1>3, <3>1
  <2> QED BY <2>1, <2>2, <2>3, <2>4
<1>7. Path(t, w[first].link, w)
  BY <1>3, <1>4, <1>5, <1>6 DEF Path
<1>8. ToSet(t) = S \ {first}
  <2>1. ASSUME NEW p \in ToSet(t) PROVE p \in S \ {first}
    <3>1. PICK i \in 1..Len(t) : p = t[i]
      BY <1>7, <2>1, PathFacts
    <3>2. i + 1 \in 1..Len(l) /\ p = l[i + 1] /\ i + 1 # 1
      BY <1>2, <1>3, <3>1
    <3>3. p # l[1]
      BY <1>1, <1>2, <3>2, PathFacts
    <3> QED BY <1>1, <1>2, <3>2, <3>3, PathFacts
  <2>2. ASSUME NEW p \in S, p # first PROVE p \in ToSet(t)
    <3>1. PICK i \in 1..Len(l) : p = l[i]
      BY <1>1, PathFacts
    <3>2. i - 1 \in 1..Len(t) /\ (i - 1) + 1 = i
      BY <1>2, <1>3, <2>2, <3>1
    <3>3. p = t[i - 1]
      BY <1>3, <3>1, <3>2
    <3> QED BY <1>7, <3>2, <3>3, PathFacts
  <2> QED BY <2>1, <2>2
<1> QED BY <1>7, <1>8 DEF Holds

\* An area is put in front.
LEMMA HoldsCons ==
  ASSUME NEW S, NEW first, NEW w, NEW v, Holds(S, first, w),
         NEW p \in Page, p \notin S, v[p] = Link(first),
         \A q \in S : v[q] = w[q]
  PROVE  Holds(S \cup {p}, p, v)
<1>0. PICK l : Path(l, first, v) /\ ToSet(l) = S
  <2>1. Holds(S, first, v)
    BY HoldsElsewhere
  <2> QED BY <2>1 DEF Holds
<1> DEFINE c == <<p>> \o l
<1>1. l \in Seq(Page) /\ Len(l) \in Nat
  BY <1>0, PathFacts
<1>2. /\ c \in Seq(Page) /\ Len(c) = Len(l) + 1 /\ c[1] = p
      /\ \A i \in 1..Len(l) : c[i + 1] = l[i]
  BY <1>1
<1>3. c # << >>
  BY <1>1, <1>2
<1> HIDE DEF c
<1>4. ASSUME NEW i \in 1..Len(c), i # 1
      PROVE  /\ i - 1 \in 1..Len(l) /\ (i - 1) + 1 = i
             /\ c[i] = l[i - 1]
  <2>1. i - 1 \in 1..Len(l) /\ (i - 1) + 1 = i
    BY <1>1, <1>2, <1>4
  <2> QED BY <1>2, <2>1
<1>5. IsInjective(c)
  <2>1. ASSUME NEW i \in 1..Len(c), i # 1 PROVE c[i] # p
    BY <1>0, <1>4, <2>1, PathFacts
  <2>2. ASSUME NEW i \in 1..Len(c), NEW j \in 1..Len(c), c[i] = c[j]
        PROVE  i = j
    <3>1. CASE i = 1 \/ j = 1
      BY <1>2, <2>1, <2>2, <3>1
    <3>2. CASE i # 1 /\ j # 1
      <4>1. i - 1 = j - 1
        BY <1>0, <1>4, <2>2, <3>2, PathFacts
      <4> QED BY <1>4, <3>2, <4>1
    <3> QED BY <3>1, <3>2
  <2> QED BY <1>2, <2>2 DEF IsInjective
<1>6. ASSUME NEW i \in 1..Len(c)
      PROVE  v[c[i]] = Link(IF i = Len(c) THEN NULL ELSE c[i + 1])
  <2>1. CASE i = 1
    <3>1. CASE l = << >>
      <4>1. Len(c) = 1 /\ first = NULL
        BY <1>0, <1>2, <3>1 DEF Path
      <4> QED BY <1>2, <2>1, <4>1
    <3>2. CASE l # << >>
      <4>1. 1 \in 1..Len(l) /\ Len(c) # 1 /\ first = l[1]
        BY <1>0, <1>1, <1>2, <3>2 DEF Path
      <4>2. c[1 + 1] = first
        BY <1>2, <4>1
      <4> QED BY <1>2, <2>1, <4>1, <4>2
    <3> QED BY <3>1, <3>2
  <2>2. CASE i # 1
    <3>1. i - 1 \in 1..Len(l) /\ c[i] = l[i - 1]
      BY <1>4, <2>2
    <3>2. v[l[i - 1]] = Link(IF i - 1 = Len(l) THEN NULL ELSE l[(i - 1) + 1])
      BY <1>0, <3>1 DEF Path
    <3>3. i - 1 = Len(l) <=> i = Len(c)
      BY <1>1, <1>2
    <3>4. i # Len(c) => c[i + 1] = l[(i - 1) + 1]
      <4>1. i # Len(c) => i \in 1..Len(l) /\ (i - 1) + 1 = i
        BY <1>1, <1>2
      <4> QED BY <1>2, <4>1
    <3> QED BY <3>1, <3>2, <3>3, <3>4
  <2> QED BY <2>1, <2>2
<1>7. Path(c, p, v)
  BY <1>2, <1>3, <1>5, <1>6 DEF Path
<1>8. ToSet(c) = S \cup {p}
  <2>1. 1 \in 1..Len(c)
    BY <1>1, <1>2
  <2>2. ASSUME NEW q \in ToSet(c) PROVE q \in S \cup {p}
    <3>1. PICK i \in 1..Len(c) : q = c[i]
      BY <1>7, PathFacts
    <3> QED BY <1>0, <1>2, <1>4, <3>1, PathFacts
  <2>3. ASSUME NEW q \in S PROVE q \in ToSet(c)
    <3>1. PICK i \in 1..Len(l) : q = l[i]
      BY <1>0, PathFacts
    <3>2. i + 1 \in 1..Len(c) /\ c[i + 1] = q
      BY <1>1, <1>2, <3>1
    <3> QED BY <1>7, <3>2, PathFacts
  <2>4. p \in ToSet(c)
    BY <1>2, <1>7, <2>1, PathFacts
  <2> QED BY <2>2, <2>3, <2>4
<1> QED BY <1>7, <1>8 DEF Holds

\* An area is unlinked from behind another one: *prev = *free.
LEMMA HoldsUnlink ==
  ASSUME NEW S, NEW first, NEW w, NEW v, Holds(S, first, w),
         NEW b \in S, NEW prev \in S, w[prev].link = b,
         v[prev] = w[b], \A q \in S : q # prev => v[q] = w[q]
  PROVE  Holds(S \ {b}, first, v)
<1>1. PICK l : Path(l, first, w) /\ ToSet(l) = S
  BY DEF Holds
<1>2. PICK m \in 1..Len(l) : prev = l[m]
  BY <1>1, PathFacts
<1>3. l \in Seq(Page) /\ Len(l) \in Nat /\ m \in Nat /\ m >= 1 /\ l # << >>
  BY <1>1, PathFacts
<1> DEFINE n == m + 1
           N == Len(l) - 1
           r == [i \in 1..N |-> IF i < n THEN l[i] ELSE l[i + 1]]
<1>4. n \in 1..Len(l) /\ b = l[n] /\ m # Len(l)
  <2>1. w[l[m]] = Link(IF m = Len(l) THEN NULL ELSE l[m + 1])
    BY <1>1, <1>2, Zenon DEF Path
  <2>2. b = IF m = Len(l) THEN NULL ELSE l[m + 1]
    BY <1>2, <2>1 DEF Link
  <2>3. b # NULL
    BY <1>1, LinksAssumption, PathFacts
  <2> QED BY <1>3, <2>2, <2>3
<1>5. N \in Nat /\ N >= 1 /\ m <= N
  BY <1>3, <1>4
<1>6. \A i \in 1..N : /\ i \in 1..Len(l) /\ i + 1 \in 1..Len(l)
                      /\ r[i] = IF i < n THEN l[i] ELSE l[i + 1]
  BY <1>3
<1>7. r \in Seq(Page) /\ Len(r) = N
  <2>1. \A i \in 1..N : r[i] \in Page
    BY <1>1, <1>6, PathFacts
  <2>2. r = [i \in 1..N |-> r[i]]
    OBVIOUS
  <2> HIDE DEF r, N
  <2> QED BY <1>5, <2>1, <2>2
<1> HIDE DEF r
<1>8. IsInjective(r)
  <2>1. ASSUME NEW i \in 1..N, NEW j \in 1..N, r[i] = r[j] PROVE i = j
    <3>1. CASE i < n /\ j < n
      BY <1>1, <1>6, <2>1, <3>1, PathFacts
    <3>2. CASE ~(i < n) /\ ~(j < n)
      <4>1. i + 1 = j + 1
        BY <1>1, <1>6, <2>1, <3>2, PathFacts
      <4> QED BY <4>1
    <3>3. CASE i < n /\ ~(j < n)
      <4>1. i = j + 1
        BY <1>1, <1>6, <2>1, <3>3, PathFacts
      <4> QED BY <1>3, <3>3, <4>1
    <3>4. CASE ~(i < n) /\ j < n
      <4>1. i + 1 = j
        BY <1>1, <1>6, <2>1, <3>4, PathFacts
      <4> QED BY <1>3, <3>4, <4>1
    <3> QED BY <3>1, <3>2, <3>3, <3>4
  <2> QED BY <1>7, <2>1 DEF IsInjective
<1>9. ASSUME NEW i \in 1..N
      PROVE  v[r[i]] = Link(IF i = N THEN NULL ELSE r[i + 1])
  <2>1. i # N => i + 1 \in 1..N
    BY <1>5
  <2>2. CASE i < m
    <3>1. i < n /\ i # N /\ i + 1 < n
      BY <1>3, <1>5, <2>2
    <3>2. r[i] = l[i] /\ r[i + 1] = l[i + 1]
      BY <1>6, <2>1, <3>1
    <3>3. l[i] # prev /\ l[i] \in S
      BY <1>1, <1>2, <1>6, <2>2, PathFacts
    <3>4. w[l[i]] = Link(IF i = Len(l) THEN NULL ELSE l[i + 1])
      BY <1>1, <1>6, Zenon DEF Path
    <3>5. i # Len(l)
      BY <1>3, <1>5, <2>2
    <3> QED BY <3>1, <3>2, <3>3, <3>4, <3>5
  <2>3. CASE i = m
    <3>1. i < n /\ r[i] = prev
      BY <1>2, <1>6, <1>3, <2>3
    <3>2. w[l[n]] = Link(IF n = Len(l) THEN NULL ELSE l[n + 1])
      BY <1>1, <1>4, Zenon DEF Path
    <3>3. n = Len(l) <=> i = N
      BY <1>3, <2>3
    <3>4. i # N => r[i + 1] = l[n + 1]
      BY <1>3, <1>6, <2>1, <2>3
    <3> QED BY <1>4, <3>1, <3>2, <3>3, <3>4
  <2>4. CASE i > m
    <3>1. ~(i < n) /\ ~(i + 1 < n)
      BY <1>3, <2>4
    <3>2. r[i] = l[i + 1] /\ (i # N => r[i + 1] = l[(i + 1) + 1])
      BY <1>6, <2>1, <3>1
    <3>3. i + 1 # m
      BY <1>3, <2>4
    <3>4. l[i + 1] # prev /\ l[i + 1] \in S
      BY <1>1, <1>2, <1>6, <3>3, PathFacts
    <3>5. w[l[i + 1]] = Link(IF i + 1 = Len(l) THEN NULL ELSE l[(i + 1) + 1])
      BY <1>1, <1>6, Zenon DEF Path
    <3>6. i + 1 = Len(l) <=> i = N
      BY <1>3
    <3> QED BY <3>2, <3>4, <3>5, <3>6
  <2> QED BY <1>3, <2>2, <2>3, <2>4
<1>10. Path(r, first, v)
  <2>1. 1 \in 1..N /\ 1 < n
    BY <1>3, <1>5
  <2>2. r[1] = l[1] /\ r # << >>
    BY <1>5, <1>6, <1>7, <2>1
  <2>3. first = l[1]
    BY <1>1, <1>3 DEF Path
  <2> QED BY <1>7, <1>8, <1>9, <2>2, <2>3 DEF Path
<1>11. ToSet(r) = S \ {b}
  <2>1. ASSUME NEW p \in ToSet(r) PROVE p \in S \ {b}
    <3>1. PICK i \in 1..N : p = r[i]
      BY <1>7, <1>10, <2>1, PathFacts
    <3>2. CASE i < n
      <4>1. p = l[i] /\ i # n
        BY <1>3, <1>6, <3>1, <3>2
      <4> QED BY <1>1, <1>4, <1>6, <4>1, PathFacts
    <3>3. CASE ~(i < n)
      <4>1. p = l[i + 1] /\ i + 1 # n
        BY <1>3, <1>6, <3>1, <3>3
      <4> QED BY <1>1, <1>4, <1>6, <4>1, PathFacts
    <3> QED BY <3>2, <3>3
  <2>2. ASSUME NEW p \in S, p # b PROVE p \in ToSet(r)
    <3>1. PICK i \in 1..Len(l) : p = l[i]
      BY <1>1, PathFacts
    <3>2. i # n
      BY <1>4, <2>2, <3>1
    <3>3. CASE i < n
      <4>1. i \in 1..N
        BY <1>3, <1>5, <3>3
      <4>2. r[i] = p
        BY <1>6, <3>1, <3>3, <4>1
      <4> QED BY <1>7, <1>10, <4>1, <4>2, PathFacts
    <3>4. CASE i > n
      <4>1. i - 1 \in 1..N /\ ~(i - 1 < n) /\ (i - 1) + 1 = i
        BY <1>3, <1>5, <3>4
      <4>2. r[i - 1] = p
        BY <1>6, <3>1, <4>1
      <4> QED BY <1>7, <1>10, <4>1, <4>2, PathFacts
    <3> QED BY <1>3, <3>2, <3>3, <3>4
  <2> QED BY <2>1, <2>2
<1> QED BY <1>10, <1>11 DEF Holds

-----------------------------------------------------------------------------
(* The invariant                                                           *)

\* Every list is a list.
Lists == \A k \in Order : Path(FreeList(k), buddy_pages[k], word)

\* The parameter of kmalloc determines the order; between calls there is none.
Sized ==
  /\ pc \in {"ready", "merge"} => size = 0
  /\ size # 0 => size \in Requests /\ order = KmallocOrder(size)

\* No page has two owners, whichever way it was asked for.
OneOwner ==
  /\ \A b, c \in buffers : b.page = c.page => b = c
  /\ \A b \in buffers : BlockOf(b) \notin pages

LInv ==
  /\ DOMAIN buddy_pages = Order
  /\ word = [p \in Page |-> word[p]]
  /\ Lists
  /\ pc = "split" => buddy_pages[promoted_order] # NULL
  /\ Sized
  /\ OneOwner
  /\ BuffersFit

\* The areas in a list are those Buddy has in its set.
LEMMA ListOf ==
  ASSUME LInv, NEW k \in Order
  PROVE  Holds(ToSet(FreeList(k)), buddy_pages[k], word)
BY DEF LInv, Lists, Holds

\* A list is found again after a step.
LEMMA ListAfter ==
  ASSUME NEW k, NEW S, Holds(S, buddy_pages'[k], word')
  PROVE  Path(FreeList(k)', buddy_pages'[k], word') /\ ToSet(FreeList(k)') = S
<1>1. PICK l : Path(l, buddy_pages'[k], word') /\ ToSet(l) = S
  BY DEF Holds
<1>2. WalkIn(word', buddy_pages'[k]) = l
  BY <1>1, WalkPath
<1> QED BY <1>1, <1>2, WalkIsWalkInPrime

-----------------------------------------------------------------------------
(* What Buddy says of the areas in the lists                               *)

FreeAt(k) == ToSet(FreeList(k))

\* The block p of order j shares no page with the block q of order k.
Away(p, j, q, k) == p + Size[j] <= q \/ q + Size[k] <= p

LEMMA Types ==
  ASSUME BP!IInv
  PROVE  /\ pc \in {"ready", "split", "merge", "panic"}
         /\ order \in Order /\ promoted_order \in Order /\ page \in Page
         /\ pc = "split" => promoted_order >= order
BY Zenon DEF BP!IInv, BP!TypeOK, BP!Order, BP!Page, Order, Page

LEMMA AwayIs ==
  ASSUME NEW b, NEW c, BP!Before(b, c) \/ BP!Before(c, b)
  PROVE  Away(b.page, b.order, c.page, c.order)
BY DEF BP!Before, Away

LEMMA FreeBlock ==
  ASSUME BP!IInv, NEW k \in Order, NEW p \in FreeAt(k)
  PROVE  /\ p \in Page /\ p + Size[k] <= PHYSIZE
         /\ [page |-> p, order |-> k] \in BP!FreeBlocks
         /\ [page |-> p, order |-> k] \in BP!Blocks
<1> DEFINE b == [page |-> p, order |-> k]
<1>1. Frees[k] = FreeAt(k)
  BY DEF Frees, FreeAt
<1>2. p \in Page
  <2>1. Frees \in [Order -> SUBSET Page]
    BY Zenon DEF BP!IInv, BP!TypeOK, BP!Order, BP!Page, Order, Page
  <2> QED BY <1>1, <2>1
<1>3. b \in BP!FreeBlocks
  BY <1>1, <1>2 DEF BP!FreeBlocks, BP!Block, BP!Order, BP!Page, Order, Page
<1>4. b \in BP!Blocks
  BY <1>3 DEF BP!Blocks
<1>5. b.page + Size[b.order] <= PHYSIZE
  BY <1>4 DEF BP!IInv, BP!Fits
<1> QED BY <1>2, <1>3, <1>4, <1>5

LEMMA OwnedBlock ==
  ASSUME BP!IInv, NEW b \in Owned
  PROVE  /\ b.page \in Page /\ b.order \in Order
         /\ b = [page |-> b.page, order |-> b.order]
         /\ b \notin BP!FreeBlocks /\ b \in BP!Blocks
<1>1. b \in BP!Block
  BY DEF BP!IInv, BP!TypeOK
<1>2. b.page \in Page /\ b.order \in Order /\ b = [page |-> b.page, order |-> b.order]
  BY <1>1 DEF BP!Block, BP!Order, BP!Page, Order, Page
<1>3. b \notin BP!FreeBlocks /\ b \in BP!Blocks
  BY DEF BP!IInv, BP!Disjoint, BP!Blocks
<1> QED BY <1>2, <1>3

LEMMA Separate ==
  ASSUME BP!IInv, NEW b \in BP!Blocks, NEW c \in BP!Blocks, b # c
  PROVE  Away(b.page, b.order, c.page, c.order)
BY AwayIs DEF BP!IInv, BP!Disjoint

\* Free areas share no page with each other nor with a block that has an owner.
LEMMA FreeApart ==
  ASSUME BP!IInv, NEW j \in Order, NEW k \in Order,
         NEW p \in FreeAt(j), NEW q \in FreeAt(k), j # k \/ p # q
  PROVE  Away(p, j, q, k)
<1> DEFINE b == [page |-> p, order |-> j]
           c == [page |-> q, order |-> k]
<1>1. b \in BP!Blocks /\ c \in BP!Blocks
  BY FreeBlock
<1>2. b # c /\ b.page = p /\ b.order = j /\ c.page = q /\ c.order = k
  OBVIOUS
<1> HIDE DEF b, c
<1> QED BY <1>1, <1>2, Separate

LEMMA OwnedApart ==
  ASSUME BP!IInv, NEW b \in Owned, NEW k \in Order, NEW p \in FreeAt(k)
  PROVE  Away(b.page, b.order, p, k)
<1> DEFINE c == [page |-> p, order |-> k]
<1>1. b \in BP!Blocks /\ c \in BP!Blocks /\ b # c
  BY FreeBlock, OwnedBlock
<1>2. c.page = p /\ c.order = k
  OBVIOUS
<1> HIDE DEF c
<1> QED BY <1>1, <1>2, Separate

LEMMA OwnersApart ==
  ASSUME BP!IInv, NEW b \in Owned, NEW c \in Owned, b # c
  PROVE  Away(b.page, b.order, c.page, c.order)
BY OwnedBlock, Separate

\* The area being freed is neither free yet nor owned any more.
LEMMA HeldApart ==
  ASSUME BP!IInv, pc = "merge"
  PROVE  /\ \A k \in Order : \A p \in FreeAt(k) : Away(page, order, p, k)
         /\ \A b \in Owned : Away(page, order, b.page, b.order)
<1> DEFINE h == [page |-> page, order |-> order]
<1>1. h \in BP!Held /\ h \in BP!Blocks
  BY DEF BP!Held, BP!Blocks
<1>2. h \notin BP!FreeBlocks /\ h \notin Owned
  BY <1>1 DEF BP!IInv, BP!Disjoint
<1>3. h.page = page /\ h.order = order
  OBVIOUS
<1> HIDE DEF h
<1>4. ASSUME NEW k \in Order, NEW p \in FreeAt(k) PROVE Away(page, order, p, k)
  <2> DEFINE c == [page |-> p, order |-> k]
  <2>1. c \in BP!Blocks /\ h # c
    BY <1>2, FreeBlock
  <2>2. c.page = p /\ c.order = k
    OBVIOUS
  <2> HIDE DEF c
  <2> QED BY <1>1, <1>3, <2>1, <2>2, Separate
<1>5. ASSUME NEW b \in Owned PROVE Away(page, order, b.page, b.order)
  <2>1. b \in BP!Blocks /\ h # b
    BY <1>2, OwnedBlock
  <2> QED BY <1>1, <1>3, <2>1, Separate
<1> QED BY <1>4, <1>5

\* Blocks that are away from each other begin at different pages.
LEMMA AwayDiffers ==
  ASSUME NEW j \in Order, NEW k \in Order, NEW p \in Page, NEW q \in Page,
         Away(p, j, q, k)
  PROVE  p # q
BY SizeFacts DEF Away, Page

-----------------------------------------------------------------------------
(* The steps: each keeps the invariant and is a step of Buddy              *)

LEMMA FreesAfter ==
  ASSUME NEW F, F = [k \in Order |-> F[k]],
         \A k \in Order : Holds(F[k], buddy_pages'[k], word')
  PROVE  Frees' = F /\ Lists'
<1>1. \A k \in Order : /\ Path(FreeList(k)', buddy_pages'[k], word')
                       /\ ToSet(FreeList(k)') = F[k]
  BY ListAfter
<1>2. Lists'
  BY <1>1 DEF Lists, Path
<1>3. Frees' = [k \in Order |-> ToSet(FreeList(k)')]
  BY DEF Frees
<1> QED BY <1>1, <1>2, <1>3

\* A list is empty if it begins with NULL.
LEMMA EmptyList ==
  ASSUME LInv, NEW k \in Order
  PROVE  /\ buddy_pages[k] = NULL <=> Frees[k] = {}
         /\ buddy_pages[k] # NULL => buddy_pages[k] \in FreeAt(k)
         /\ Frees[k] = FreeAt(k) /\ FreeAt(k) \subseteq Page
         /\ Holds(FreeAt(k), buddy_pages[k], word)
<1>1. Holds(FreeAt(k), buddy_pages[k], word)
  BY ListOf DEF FreeAt
<1> QED BY <1>1, HoldsFacts DEF Frees, FreeAt

\* Nothing happens to the lists.
LEMMA SameLists ==
  ASSUME LInv, UNCHANGED <<buddy_pages, word>>
  PROVE  /\ Frees' = Frees /\ Lists'
         /\ DOMAIN buddy_pages' = Order /\ word' = [p \in Page |-> word'[p]]
         /\ \A b : BlockOf(b)' = [page |-> b.page, order |-> word[b.page].count]
<1>1. \A k \in Order : Holds(Frees[k], buddy_pages'[k], word')
  BY EmptyList
<1>2. Frees = [k \in Order |-> Frees[k]]
  BY DEF Frees
<1>3. Frees' = Frees /\ Lists'
  BY <1>1, <1>2, FreesAfter
<1> QED BY <1>3 DEF LInv, BlockOf

LEMMA AllocStep ==
  ASSUME LInv, BP!IInv, NEW k \in Order, NEW n,
         n = 0 \/ (n \in Requests /\ k = KmallocOrder(n)), StartAlloc(k, n)
  PROVE  LInv' /\ BP!Next
<1>1. /\ pc = "ready" /\ order' = k /\ size' = n
      /\ UNCHANGED <<buddy_pages, word, pages, buffers, page>>
  BY DEF StartAlloc
<1>2. /\ Frees' = Frees /\ Lists'
      /\ DOMAIN buddy_pages' = Order /\ word' = [p \in Page |-> word'[p]]
  BY <1>1, SameLists
<1>3. Owned' = Owned
  BY <1>1 DEF Owned, BlockOf
<1>4. \A j \in k..(MAX_ORDER - 1) :
        j \in Order /\ (buddy_pages[j] = NULL <=> Frees[j] = {})
  <2>1. \A j \in k..(MAX_ORDER - 1) : j \in Order
    BY LinksAssumption DEF Order
  <2> QED BY <2>1, EmptyList
<1>5. CASE \A j \in k..(MAX_ORDER - 1) : buddy_pages[j] = NULL
  <2>1. pc' = "panic" /\ UNCHANGED promoted_order
    BY <1>5 DEF StartAlloc
  <2>2. BP!alloc_pages(k)
    BY <1>1, <1>2, <1>3, <1>4, <1>5, <2>1 DEF BP!alloc_pages, BP!Search
  <2>3. BP!Next
    BY <2>2 DEF BP!Next, BP!Order, Order
  <2> QED BY <1>1, <1>2, <2>1, <2>3
          DEF LInv, Sized, OneOwner, BlockOf, BuffersFit
<1>6. CASE ~(\A j \in k..(MAX_ORDER - 1) : buddy_pages[j] = NULL)
  <2>1. PICK j \in k..(MAX_ORDER - 1) :
          /\ buddy_pages[j] # NULL
          /\ \A i \in k..(j - 1) : buddy_pages[i] = NULL
          /\ promoted_order' = j
          /\ pc' = "split"
    BY <1>6 DEF StartAlloc
  <2>2. \A i \in k..(j - 1) : i \in k..(MAX_ORDER - 1)
    BY LinksAssumption DEF Order
  <2>3. BP!alloc_pages(k)
    BY <1>1, <1>2, <1>3, <1>4, <2>1, <2>2 DEF BP!alloc_pages, BP!Search
  <2>4. BP!Next
    BY <2>3 DEF BP!Next, BP!Order, Order
  <2> QED BY <1>1, <1>2, <2>1, <2>4
          DEF LInv, Sized, OneOwner, BlockOf, BuffersFit
<1> QED BY <1>5, <1>6

\* free_pages and kfree hand a block back that had one owner.
LEMMA FreePagesStep ==
  ASSUME LInv, BP!IInv, free_pages
  PROVE  LInv' /\ BP!Next
<1>1. PICK b \in pages : /\ StartFree(b.page, b.order)
                         /\ pages' = pages \ {b}
                         /\ UNCHANGED buffers
  BY DEF free_pages
<1>2. /\ pc = "ready" /\ pc' = "merge" /\ page' = b.page /\ order' = b.order
      /\ UNCHANGED <<buddy_pages, word, promoted_order, size>>
  BY <1>1 DEF StartFree
<1>3. /\ Frees' = Frees /\ Lists'
      /\ DOMAIN buddy_pages' = Order /\ word' = [p \in Page |-> word'[p]]
  BY <1>2, SameLists
<1>4. b \in Owned /\ \A c \in buffers : BlockOf(c) # b
  BY DEF LInv, OneOwner, Owned
<1>5. Owned' = Owned \ {b}
  <2>1. Owned' = (pages \ {b}) \cup {BlockOf(c) : c \in buffers}
    BY <1>1, <1>2 DEF Owned, BlockOf
  <2> QED BY <1>4, <2>1 DEF Owned
<1>6. b \in BP!Block
  BY <1>4 DEF BP!IInv, BP!TypeOK
<1>7. BP!free_pages(b)
  BY <1>2, <1>3, <1>4, <1>5 DEF BP!free_pages
<1>8. BP!Next
  BY <1>6, <1>7 DEF BP!Next
<1>9. OneOwner'
  BY <1>1, <1>2 DEF LInv, OneOwner, BlockOf
<1> QED BY <1>1, <1>2, <1>3, <1>8, <1>9 DEF LInv, Sized, BuffersFit

LEMMA KfreeStep ==
  ASSUME LInv, BP!IInv, kfree
  PROVE  LInv' /\ BP!Next
<1>1. PICK b \in buffers : /\ StartFree(b.page, word[b.page].count)
                           /\ buffers' = buffers \ {b}
                           /\ UNCHANGED pages
  BY DEF kfree
<1> DEFINE x == BlockOf(b)
<1>2. /\ pc = "ready" /\ pc' = "merge" /\ page' = x.page /\ order' = x.order
      /\ UNCHANGED <<buddy_pages, word, promoted_order, size>>
  BY <1>1 DEF StartFree, BlockOf
<1>3. /\ Frees' = Frees /\ Lists'
      /\ DOMAIN buddy_pages' = Order /\ word' = [p \in Page |-> word'[p]]
  BY <1>2, SameLists
<1>4. x \in Owned /\ x \notin pages /\ \A c \in buffers : c # b => BlockOf(c) # x
  <2>1. \A c \in buffers : BlockOf(c).page = c.page
    BY DEF BlockOf
  <2> QED BY <2>1 DEF LInv, OneOwner, Owned
<1>5. Owned' = Owned \ {x}
  <2>1. Owned' = pages \cup {BlockOf(c) : c \in buffers \ {b}}
    BY <1>1, <1>2 DEF Owned, BlockOf
  <2> HIDE DEF x
  <2> QED BY <1>4, <2>1 DEF Owned, x
<1> HIDE DEF x
<1>6. x \in BP!Block
  BY <1>4 DEF BP!IInv, BP!TypeOK
<1>7. BP!free_pages(x)
  BY <1>2, <1>3, <1>4, <1>5 DEF BP!free_pages
<1>8. BP!Next
  BY <1>6, <1>7 DEF BP!Next
<1>9. OneOwner'
  BY <1>1, <1>2 DEF LInv, OneOwner, BlockOf
<1> QED BY <1>1, <1>2, <1>3, <1>8, <1>9 DEF LInv, Sized, BuffersFit

\* A page inside a block is not where another block begins.
LEMMA Outside ==
  ASSUME NEW i \in Order, NEW j \in Order, NEW p \in Page, NEW a \in Page,
         Away(a, j, p, i) \/ Away(p, i, a, j), NEW q \in a..(a + Size[j] - 1)
  PROVE  p # q
<1>1. Size[i] \in Nat /\ Size[i] >= 1 /\ Size[j] \in Nat /\ Size[j] >= 1
  BY SizeFacts
<1>2. p \in Nat /\ a \in Nat
  BY DEF Page
<1> QED BY <1>1, <1>2 DEF Away

LEMMA SplitListStep ==
  ASSUME LInv, BP!IInv, split_area
  PROVE  LInv' /\ BP!Next
<1> DEFINE j == promoted_order
           a == buddy_pages[j]
           c == a + Size[j - 1]
<1>1. /\ pc = "split" /\ j > order
      /\ buddy_pages' = [buddy_pages EXCEPT ![j] = word[a].link, ![j - 1] = a]
      /\ word' = [word EXCEPT ![a] = Link(c), ![c] = Link(buddy_pages[j - 1])]
      /\ promoted_order' = j - 1
      /\ UNCHANGED <<pages, buffers, pc, order, page, size>>
  BY DEF split_area, Next_of
<1>2. /\ j \in Order /\ j - 1 \in Order /\ (j - 1) + 1 = j /\ j # j - 1
      /\ order \in Order
  <2>1. j \in Order /\ order \in Order
    BY Types
  <2>2. j \in Int /\ order \in Int /\ MAX_ORDER \in Int
    BY <2>1, LinksAssumption DEF Order
  <2> HIDE DEF j
  <2> QED BY <1>1, <2>1, <2>2 DEF Order
<1>3. /\ Size[j - 1] \in Nat /\ Size[j - 1] >= 1
      /\ Size[j] = Size[j - 1] + Size[j - 1]
  BY <1>2, SizeFacts
<1>4. a # NULL /\ a \in FreeAt(j)
  BY <1>1, <1>2, EmptyList DEF LInv
<1>5. a \in Page /\ a + Size[j] <= PHYSIZE
  BY <1>2, <1>4, FreeBlock
<1>6. /\ c \in Page /\ a # c
      /\ a \in a..(a + Size[j] - 1) /\ c \in a..(a + Size[j] - 1)
  <2> DEFINE s == Size[j - 1]
  <2>1. /\ s \in Nat /\ s >= 1 /\ Size[j] = s + s /\ c = a + s
        /\ a \in Nat /\ PHYSIZE \in Nat
    BY <1>3, <1>5, LinksAssumption DEF Page
  <2> HIDE DEF s, a, j, c
  <2> QED BY <1>5, <2>1 DEF Page
<1> HIDE DEF j, a, c
<1>7. ASSUME NEW k \in Order, NEW p \in FreeAt(k), k # j \/ p # a
      PROVE  p # a /\ p # c /\ p \in Page
  <2>1. Away(p, k, a, j) /\ p \in Page
    BY <1>2, <1>4, <1>7, FreeApart, FreeBlock
  <2> QED BY <1>2, <1>5, <1>6, <2>1, Outside
<1>8. ASSUME NEW b \in Owned
      PROVE  b.page # a /\ b.page # c /\ b.page \in Page
  <2>1. Away(b.page, b.order, a, j) /\ b.page \in Page /\ b.order \in Order
    BY <1>2, <1>4, OwnedApart, OwnedBlock
  <2> QED BY <1>2, <1>5, <1>6, <2>1, Outside
<1>9. DOMAIN word = Page /\ DOMAIN buddy_pages = Order
  BY DEF LInv
<1>10. /\ word'[a] = Link(c) /\ word'[c] = Link(buddy_pages[j - 1])
       /\ \A p \in Page : p # a /\ p # c => word'[p] = word[p]
       /\ DOMAIN word' = Page /\ word' = [p \in Page |-> word'[p]]
  BY <1>1, <1>5, <1>6, <1>9
<1>11. /\ buddy_pages'[j] = word[a].link /\ buddy_pages'[j - 1] = a
       /\ \A k \in Order : k # j /\ k # j - 1 => buddy_pages'[k] = buddy_pages[k]
       /\ DOMAIN buddy_pages' = Order
  BY <1>1, <1>2, <1>9
<1> DEFINE F == [Frees EXCEPT ![j] = @ \ {a}, ![j - 1] = @ \cup {a, c}]
<1>12. /\ F = [k \in Order |-> F[k]]
       /\ F[j] = FreeAt(j) \ {a} /\ F[j - 1] = (FreeAt(j - 1) \cup {c}) \cup {a}
       /\ \A k \in Order : k # j /\ k # j - 1 => F[k] = FreeAt(k)
  BY <1>2 DEF Frees, FreeAt
<1> HIDE DEF F
<1>13. ASSUME NEW k \in Order PROVE Holds(F[k], buddy_pages'[k], word')
  <2>1. Holds(FreeAt(k), buddy_pages[k], word)
    BY EmptyList
  <2>2. CASE k = j
    <3>1. Holds(FreeAt(j) \ {a}, word[a].link, word)
      BY <1>4, <2>1, <2>2, HoldsTail DEF a
    <3>2. \A p \in FreeAt(j) \ {a} : word'[p] = word[p]
      BY <1>2, <1>7, <1>10
    <3>3. Holds(FreeAt(j) \ {a}, word[a].link, word')
      BY <3>1, <3>2, HoldsElsewhere
    <3> QED BY <1>11, <1>12, <2>2, <3>3
  <2>3. CASE k = j - 1
    <3> DEFINE S == FreeAt(j - 1)
    <3>1. a \notin S /\ c \notin S /\ \A p \in S : word'[p] = word[p]
      BY <1>2, <1>7, <1>10
    <3>2. Holds(S, buddy_pages[j - 1], word)
      BY <2>1, <2>3
    <3> HIDE DEF S
    <3>3. Holds(S \cup {c}, c, word')
      BY <1>6, <1>10, <3>1, <3>2, HoldsCons
    <3>4. a \notin S \cup {c} /\ \A p \in S \cup {c} : word'[p] = word'[p]
      BY <1>6, <3>1
    <3>5. Holds((S \cup {c}) \cup {a}, a, word')
      BY <1>5, <1>10, <3>3, <3>4, HoldsCons
    <3> QED BY <1>11, <1>12, <2>3, <3>5 DEF S
  <2>4. CASE k # j /\ k # j - 1
    <3>1. \A p \in FreeAt(k) : word'[p] = word[p]
      BY <1>7, <1>10, <2>4
    <3>2. Holds(FreeAt(k), buddy_pages[k], word')
      BY <2>1, <3>1, HoldsElsewhere
    <3> QED BY <1>11, <1>12, <2>4, <3>2
  <2> QED BY <2>2, <2>3, <2>4
<1>14. Frees' = F /\ Lists'
  BY <1>12, <1>13, FreesAfter
<1>15. \A b \in buffers : word'[b.page] = word[b.page]
  <2> TAKE b \in buffers
  <2>1. BlockOf(b) \in Owned /\ BlockOf(b).page = b.page
    BY DEF Owned, BlockOf
  <2> QED BY <1>8, <1>10, <2>1
<1>16. \A b \in buffers : BlockOf(b)' = BlockOf(b)
  BY <1>15 DEF BlockOf
<1>17. Owned' = Owned
  BY <1>1, <1>16 DEF Owned
<1>18. BP!split_area
  <2>1. Frees' = [Frees EXCEPT
                    ![promoted_order] = @ \ {a},
                    ![promoted_order - 1] =
                       @ \cup {a, a + Size[promoted_order - 1]}]
    BY <1>14 DEF F, c, j
  <2>2. a \in Frees[promoted_order]
    BY <1>2, <1>4, EmptyList DEF j
  <2> QED BY <1>1, <1>17, <2>1, <2>2 DEF BP!split_area, j
<1>19. BP!Next
  BY <1>18 DEF BP!Next
<1>20. (pc = "split" => buddy_pages[promoted_order] # NULL)'
  BY <1>1, <1>4, <1>11
<1>21. Sized' /\ OneOwner' /\ BuffersFit'
  BY <1>1, <1>15, <1>16 DEF LInv, Sized, OneOwner, BuffersFit
<1> QED BY <1>10, <1>11, <1>14, <1>19, <1>20, <1>21 DEF LInv

\* The first area of the list becomes the owner's, with the order in front of
\* a buffer of kmalloc.
LEMMA TakeListStep ==
  ASSUME LInv, BP!IInv, take
  PROVE  LInv' /\ BP!Next
<1> DEFINE a == buddy_pages[order]
<1>0. PICK x, y : /\ x = [page |-> a, order |-> order]
                 /\ y = [page |-> a, size |-> size]
  OBVIOUS
<1>1. /\ pc = "split" /\ promoted_order = order
      /\ buddy_pages' = [buddy_pages EXCEPT ![order] = word[a].link]
      /\ word' = [q \in Page |->
                    IF q = a /\ size # 0 THEN Count(order)
                    ELSE IF q \in a..(a + Size[order] - 1) THEN Other
                    ELSE word[q]]
      /\ \/ size = 0 /\ pages' = pages \cup {x} /\ UNCHANGED buffers
         \/ size # 0 /\ buffers' = buffers \cup {y} /\ UNCHANGED pages
      /\ Return
  BY <1>0 DEF take, Next_of
<1>2. order \in Order
  BY Types
<1>3. Size[order] \in Nat /\ Size[order] >= 1
  BY <1>2, SizeFacts
<1>4. a # NULL /\ a \in FreeAt(order)
  BY <1>1, <1>2, EmptyList DEF LInv
<1>5. a \in Page /\ a + Size[order] <= PHYSIZE /\ a \in a..(a + Size[order] - 1)
  <2>1. a \in Page /\ a + Size[order] <= PHYSIZE
    BY <1>2, <1>4, FreeBlock
  <2> QED BY <1>3, <2>1 DEF Page
<1>6. x.page = a /\ x.order = order /\ y.page = a /\ y.size = size
  BY <1>0
<1> HIDE DEF a
<1>7. ASSUME NEW k \in Order, NEW p \in FreeAt(k), k # order \/ p # a
      PROVE  word'[p] = word[p]
  <2>1. Away(p, k, a, order) /\ p \in Page
    BY <1>2, <1>4, <1>7, FreeApart, FreeBlock
  <2>2. p \notin a..(a + Size[order] - 1)
    BY <1>2, <1>5, <2>1, Outside
  <2> QED BY <1>1, <1>5, <2>1, <2>2
<1>8. ASSUME NEW b \in Owned PROVE word'[b.page] = word[b.page] /\ b.page # a
  <2>1. Away(b.page, b.order, a, order) /\ b.page \in Page /\ b.order \in Order
    BY <1>2, <1>4, OwnedApart, OwnedBlock
  <2>2. b.page \notin a..(a + Size[order] - 1)
    BY <1>2, <1>5, <2>1, Outside
  <2> QED BY <1>1, <1>5, <2>1, <2>2
<1>9. /\ DOMAIN word' = Page /\ word' = [p \in Page |-> word'[p]]
      /\ size # 0 => word'[a] = Count(order)
  BY <1>1, <1>5
<1>10. /\ buddy_pages'[order] = word[a].link
       /\ \A k \in Order : k # order => buddy_pages'[k] = buddy_pages[k]
       /\ DOMAIN buddy_pages' = Order
  BY <1>1, <1>2 DEF LInv
<1> DEFINE F == [Frees EXCEPT ![order] = @ \ {a}]
<1>11. /\ F = [k \in Order |-> F[k]]
       /\ F[order] = FreeAt(order) \ {a}
       /\ \A k \in Order : k # order => F[k] = FreeAt(k)
  BY <1>2 DEF Frees, FreeAt
<1> HIDE DEF F
<1>12. ASSUME NEW k \in Order PROVE Holds(F[k], buddy_pages'[k], word')
  <2>1. Holds(FreeAt(k), buddy_pages[k], word)
    BY EmptyList
  <2>2. CASE k = order
    <3>1. Holds(FreeAt(order) \ {a}, word[a].link, word)
      BY <1>4, <2>1, <2>2, HoldsTail DEF a
    <3>2. \A p \in FreeAt(order) \ {a} : word'[p] = word[p]
      BY <1>2, <1>7
    <3>3. Holds(FreeAt(order) \ {a}, word[a].link, word')
      BY <3>1, <3>2, HoldsElsewhere
    <3> QED BY <1>10, <1>11, <2>2, <3>3
  <2>3. CASE k # order
    <3>1. \A p \in FreeAt(k) : word'[p] = word[p]
      BY <1>7, <2>3
    <3>2. Holds(FreeAt(k), buddy_pages[k], word')
      BY <2>1, <3>1, HoldsElsewhere
    <3> QED BY <1>10, <1>11, <2>3, <3>2
  <2> QED BY <2>2, <2>3
<1>13. Frees' = F /\ Lists'
  BY <1>11, <1>12, FreesAfter
<1>14. ASSUME NEW b \in buffers
       PROVE  /\ word'[b.page] = word[b.page] /\ b.page # a
              /\ BlockOf(b)' = BlockOf(b) /\ BlockOf(b).page = b.page
  <2>1. BlockOf(b) \in Owned /\ BlockOf(b).page = b.page
    BY DEF Owned, BlockOf
  <2>2. word'[b.page] = word[b.page] /\ b.page # a
    BY <1>8, <2>1
  <2> QED BY <2>1, <2>2 DEF BlockOf
<1>15. \A b \in pages : b.page # a
  BY <1>8 DEF Owned
<1>16. ASSUME size = 0
       PROVE  Owned' = Owned \cup {x} /\ OneOwner' /\ BuffersFit'
  <2>1. pages' = pages \cup {x} /\ buffers' = buffers
    BY <1>1, <1>16
  <2>2. Owned' = Owned \cup {x}
    <3>1. \A b \in buffers : BlockOf(b)' = BlockOf(b)
      BY <1>14
    <3>2. Owned' = pages' \cup {BlockOf(b)' : b \in buffers'}
      BY DEF Owned
    <3>3. {BlockOf(b)' : b \in buffers'} = {BlockOf(b) : b \in buffers}
      BY <2>1, <3>1
    <3> QED BY <2>1, <3>2, <3>3 DEF Owned
  <2>3. OneOwner'
    <3>1. \A b \in buffers : BlockOf(b)' \notin pages'
      <4> TAKE b \in buffers
      <4>1. BlockOf(b)' = BlockOf(b) /\ BlockOf(b) \notin pages
        BY <1>14 DEF LInv, OneOwner
      <4>2. BlockOf(b) # x
        BY <1>6, <1>14
      <4> QED BY <2>1, <4>1, <4>2
    <3> QED BY <2>1, <3>1 DEF LInv, OneOwner
  <2>4. BuffersFit'
    BY <1>14, <2>1 DEF LInv, BuffersFit
  <2> QED BY <2>2, <2>3, <2>4
<1>17. ASSUME size # 0
       PROVE  Owned' = Owned \cup {x} /\ OneOwner' /\ BuffersFit'
  <2>1. buffers' = buffers \cup {y} /\ pages' = pages
    BY <1>1, <1>17
  <2>2. word'[y.page] = Count(order) /\ BlockOf(y)' = x
    BY <1>0, <1>6, <1>9, <1>17 DEF BlockOf, Count
  <2>3. Owned' = Owned \cup {x}
    <3>1. \A b \in buffers : BlockOf(b)' = BlockOf(b)
      BY <1>14
    <3>2. Owned' = pages' \cup {BlockOf(b)' : b \in buffers'}
      BY DEF Owned
    <3>3. {BlockOf(b)' : b \in buffers'} = {BlockOf(b) : b \in buffers} \cup {x}
      BY <2>1, <2>2, <3>1
    <3> QED BY <2>1, <3>2, <3>3 DEF Owned
  <2>4. OneOwner'
    <3>1. \A b, c \in buffers' : b.page = c.page => b = c
      <4>1. \A b \in buffers : b.page # y.page
        BY <1>6, <1>14
      <4> QED BY <2>1, <4>1 DEF LInv, OneOwner
    <3>2. \A b \in buffers' : BlockOf(b)' \notin pages'
      <4> TAKE b \in buffers'
      <4>1. CASE b \in buffers
        BY <1>14, <2>1, <4>1 DEF LInv, OneOwner
      <4>2. CASE b = y
        BY <1>6, <1>15, <2>1, <2>2, <4>2
      <4> QED BY <2>1, <4>1, <4>2
    <3> QED BY <3>1, <3>2 DEF OneOwner
  <2>5. BuffersFit'
    <3>1. size \in Requests /\ order = KmallocOrder(size)
      BY <1>17 DEF LInv, Sized
    <3>2. y.size + HEADER <= PAGE_SIZE * Size[order]
      BY <1>6, <3>1, RequestOrder
    <3>3. word'[y.page].count = order
      BY <2>2 DEF Count
    <3>4. \A b \in buffers :
            b.size + HEADER <= PAGE_SIZE * Size[word'[b.page].count]
      BY <1>14 DEF LInv, BuffersFit
    <3> QED BY <2>1, <3>2, <3>3, <3>4 DEF BuffersFit
  <2> QED BY <2>3, <2>4, <2>5
<1>18. Owned' = Owned \cup {x} /\ OneOwner' /\ BuffersFit'
  BY <1>16, <1>17
<1>19. BP!take
  <2>1. a \in Frees[order]
    BY <1>2, <1>4, EmptyList
  <2>2. Frees' = [Frees EXCEPT ![order] = @ \ {a}]
    BY <1>13 DEF F
  <2>3. Owned' = Owned \cup {[page |-> a, order |-> order]}
    BY <1>0, <1>18
  <2>4. BP!Return
    BY <1>1 DEF Return, BP!Return
  <2> QED BY <1>1, <2>1, <2>2, <2>3, <2>4 DEF BP!take
<1>20. BP!Next
  BY <1>19 DEF BP!Next
<1>21. pc' = "ready" /\ size' = 0
  BY <1>1 DEF Return
<1>22. Sized'
  BY <1>21 DEF Sized
<1> QED BY <1>9, <1>10, <1>13, <1>18, <1>20, <1>21, <1>22 DEF LInv

LEMMA MergeListStep ==
  ASSUME LInv, BP!IInv, merge
  PROVE  LInv' /\ BP!Next
<1>0. PICK d : d = BuddyOf(page, order)
  OBVIOUS
<1>1. /\ pc = "merge" /\ order # MAX_ORDER - 1 /\ d \in FreeAt(order)
      /\ page' = ParentOf(page, order) /\ order' = order + 1
      /\ UNCHANGED <<pages, buffers, pc, promoted_order, size>>
  BY <1>0 DEF merge, CanMerge, FreeAt
<1>2. order \in Order
  BY Types
<1>3. \/ /\ buddy_pages[order] = d
         /\ buddy_pages' = [buddy_pages EXCEPT ![order] = word[d].link]
         /\ UNCHANGED word
      \/ \E prev \in FreeAt(order) :
           /\ word[prev].link = d
           /\ word' = [word EXCEPT ![prev] = word[d]]
           /\ UNCHANGED buddy_pages
  BY <1>0, Zenon DEF merge, Next_of, FreeAt
<1>4. DOMAIN word = Page /\ DOMAIN buddy_pages = Order
  BY DEF LInv
<1> DEFINE F == [Frees EXCEPT ![order] = @ \ {d}]
<1>5. /\ F = [k \in Order |-> F[k]]
      /\ F[order] = FreeAt(order) \ {d}
      /\ \A k \in Order : k # order => F[k] = FreeAt(k)
  BY <1>2 DEF Frees, FreeAt
<1> HIDE DEF F
<1>6. /\ \A k \in Order : Holds(F[k], buddy_pages'[k], word')
      /\ DOMAIN buddy_pages' = Order
      /\ DOMAIN word' = Page /\ word' = [p \in Page |-> word'[p]]
      /\ \A b \in Owned : word'[b.page] = word[b.page]
  <2>1. CASE /\ buddy_pages[order] = d
             /\ buddy_pages' = [buddy_pages EXCEPT ![order] = word[d].link]
             /\ UNCHANGED word
    <3>1. \A k \in Order : k # order => buddy_pages'[k] = buddy_pages[k]
      BY <2>1
    <3>2. buddy_pages'[order] = word[d].link /\ DOMAIN buddy_pages' = Order
      BY <1>2, <1>4, <2>1
    <3>3. d # NULL
      BY <1>1, <1>2, FreeBlock, LinksAssumption
    <3>4. Holds(FreeAt(order) \ {d}, word[d].link, word)
      BY <1>2, <2>1, <3>3, EmptyList, HoldsTail
    <3>5. \A k \in Order : Holds(F[k], buddy_pages'[k], word')
      BY <1>5, <2>1, <3>1, <3>2, <3>4, EmptyList
    <3> QED BY <2>1, <3>2, <3>5 DEF LInv
  <2>2. CASE \E prev \in FreeAt(order) :
               /\ word[prev].link = d
               /\ word' = [word EXCEPT ![prev] = word[d]]
               /\ UNCHANGED buddy_pages
    <3>1. PICK prev \in FreeAt(order) :
               /\ word[prev].link = d
               /\ word' = [word EXCEPT ![prev] = word[d]]
               /\ UNCHANGED buddy_pages
      BY <2>2
    <3>2. prev \in Page
      BY <1>2, FreeBlock
    <3>3. /\ word'[prev] = word[d]
          /\ \A p \in Page : p # prev => word'[p] = word[p]
          /\ DOMAIN word' = Page /\ word' = [p \in Page |-> word'[p]]
      BY <1>4, <3>1, <3>2
    <3>4. \A p \in FreeAt(order) : p # prev => word'[p] = word[p]
      BY <1>2, <3>3, FreeBlock
    <3>5. Holds(FreeAt(order), buddy_pages[order], word)
      BY <1>2, EmptyList
    <3>6. Holds(FreeAt(order) \ {d}, buddy_pages[order], word')
      <4> DEFINE S == FreeAt(order)
      <4>1. d \in S /\ prev \in S /\ word[prev].link = d
        BY <1>1, <3>1
      <4>2. word'[prev] = word[d]
        BY <3>3
      <4>3. Holds(S, buddy_pages[order], word)
        BY <3>5
      <4>4. \A q \in S : q # prev => word'[q] = word[q]
        BY <3>4
      <4> HIDE DEF S
      <4>5. Holds(S \ {d}, buddy_pages[order], word')
        BY <4>1, <4>2, <4>3, <4>4, HoldsUnlink
      <4> QED BY <4>5 DEF S
    <3>7. ASSUME NEW k \in Order, k # order
          PROVE  Holds(FreeAt(k), buddy_pages[k], word')
      <4>1. ASSUME NEW p \in FreeAt(k) PROVE word'[p] = word[p]
        <5>1. Away(p, k, prev, order) /\ p \in Page
          BY <1>2, <3>7, FreeBlock, FreeApart
        <5>2. p # prev
          BY <1>2, <3>2, <5>1, AwayDiffers
        <5> QED BY <3>3, <5>1, <5>2
      <4>2. Holds(FreeAt(k), buddy_pages[k], word)
        BY EmptyList
      <4> QED BY <4>1, <4>2, HoldsElsewhere
    <3>8. \A k \in Order : Holds(F[k], buddy_pages'[k], word')
      BY <1>5, <3>1, <3>6, <3>7
    <3>9. ASSUME NEW b \in Owned PROVE word'[b.page] = word[b.page]
      <4>1. b.page \in Page /\ b.page # prev
        BY <1>2, <3>2, OwnedBlock, OwnedApart, AwayDiffers
      <4> QED BY <3>3, <4>1
    <3> QED BY <1>4, <3>1, <3>3, <3>8, <3>9
  <2> QED BY <1>3, <2>1, <2>2
<1>7. Frees' = F /\ Lists'
  BY <1>5, <1>6, FreesAfter
<1>8. \A b \in buffers : word'[b.page] = word[b.page] /\ BlockOf(b)' = BlockOf(b)
  <2> TAKE b \in buffers
  <2>1. BlockOf(b) \in Owned /\ BlockOf(b).page = b.page
    BY DEF Owned, BlockOf
  <2>2. word'[b.page] = word[b.page]
    BY <1>6, <2>1
  <2> QED BY <2>2 DEF BlockOf
<1>9. Owned' = Owned
  BY <1>1, <1>8 DEF Owned
<1>10. BP!merge
  <2>1. d = BP!BuddyOf(page, order)
    BY <1>0, Zenon DEF BuddyOf, BP!BuddyOf, Upper, BP!Upper
  <2>2. page' = BP!ParentOf(page, order)
    BY <1>1, Zenon DEF ParentOf, BP!ParentOf, Upper, BP!Upper
  <2>3. d \in Frees[order]
    BY <1>1, <1>2, EmptyList
  <2>4. BP!CanMerge
    BY <1>1, <2>1, <2>3 DEF BP!CanMerge
  <2>5. Frees' = [Frees EXCEPT ![order] = @ \ {BP!BuddyOf(page, order)}]
    BY <1>7, <2>1 DEF F
  <2> QED BY <1>1, <1>9, <2>2, <2>4, <2>5 DEF BP!merge
<1>11. BP!Next
  BY <1>10 DEF BP!Next
<1>12. size = 0
  BY <1>1 DEF LInv, Sized
<1>13. Sized' /\ OneOwner' /\ BuffersFit'
  BY <1>1, <1>8, <1>12 DEF LInv, Sized, OneOwner, BuffersFit
<1> QED BY <1>1, <1>6, <1>7, <1>11, <1>13 DEF LInv

LEMMA PutListStep ==
  ASSUME LInv, BP!IInv, put
  PROVE  LInv' /\ BP!Next
<1>1. /\ pc = "merge" /\ ~CanMerge
      /\ word' = [word EXCEPT ![page] = Link(buddy_pages[order])]
      /\ buddy_pages' = [buddy_pages EXCEPT ![order] = page]
      /\ Return /\ UNCHANGED <<pages, buffers>>
  BY DEF put
<1>2. order \in Order /\ page \in Page
  BY Types
<1>3. DOMAIN word = Page /\ DOMAIN buddy_pages = Order
  BY DEF LInv
<1>4. /\ word'[page] = Link(buddy_pages[order])
      /\ \A p \in Page : p # page => word'[p] = word[p]
      /\ DOMAIN word' = Page /\ word' = [p \in Page |-> word'[p]]
  BY <1>1, <1>2, <1>3
<1>5. /\ buddy_pages'[order] = page
      /\ \A k \in Order : k # order => buddy_pages'[k] = buddy_pages[k]
      /\ DOMAIN buddy_pages' = Order
  BY <1>1, <1>2, <1>3
<1>6. ASSUME NEW k \in Order, NEW p \in FreeAt(k)
      PROVE  p # page /\ word'[p] = word[p]
  <2>1. p \in Page /\ page # p
    BY <1>1, <1>2, FreeBlock, HeldApart, AwayDiffers
  <2> QED BY <1>4, <2>1
<1>7. ASSUME NEW b \in Owned PROVE word'[b.page] = word[b.page]
  <2>1. b.page \in Page /\ page # b.page
    BY <1>1, <1>2, OwnedBlock, HeldApart, AwayDiffers
  <2> QED BY <1>4, <2>1
<1> DEFINE F == [Frees EXCEPT ![order] = @ \cup {page}]
<1>8. /\ F = [k \in Order |-> F[k]]
      /\ F[order] = FreeAt(order) \cup {page}
      /\ \A k \in Order : k # order => F[k] = FreeAt(k)
  BY <1>2 DEF Frees, FreeAt
<1> HIDE DEF F
<1>9. ASSUME NEW k \in Order PROVE Holds(F[k], buddy_pages'[k], word')
  <2>1. Holds(FreeAt(k), buddy_pages[k], word)
    BY EmptyList
  <2>2. CASE k = order
    <3>1. /\ page \notin FreeAt(order)
          /\ \A p \in FreeAt(order) : word[p] = word'[p] /\ word'[p] = word[p]
      BY <1>2, <1>6
    <3>2. Holds(FreeAt(order), buddy_pages[order], word)
      BY <2>1, <2>2
    <3>3. Holds(FreeAt(order) \cup {page}, page, word')
      BY <1>2, <1>4, <3>1, <3>2, HoldsCons
    <3> QED BY <1>5, <1>8, <2>2, <3>3
  <2>3. CASE k # order
    <3>1. Holds(FreeAt(k), buddy_pages[k], word')
      BY <1>6, <2>1, HoldsElsewhere
    <3> QED BY <1>5, <1>8, <2>3, <3>1
  <2> QED BY <2>2, <2>3
<1>10. Frees' = F /\ Lists'
  BY <1>8, <1>9, FreesAfter
<1>11. \A b \in buffers : word'[b.page] = word[b.page] /\ BlockOf(b)' = BlockOf(b)
  <2> TAKE b \in buffers
  <2>1. BlockOf(b) \in Owned /\ BlockOf(b).page = b.page
    BY DEF Owned, BlockOf
  <2>2. word'[b.page] = word[b.page]
    BY <1>7, <2>1
  <2> QED BY <2>2 DEF BlockOf
<1>12. Owned' = Owned
  BY <1>1, <1>11 DEF Owned
<1>13. BP!put
  <2>1. BuddyOf(page, order) = BP!BuddyOf(page, order)
    BY Zenon DEF BuddyOf, BP!BuddyOf, Upper, BP!Upper
  <2>2. Frees[order] = ToSet(FreeList(order))
    BY <1>2 DEF Frees
  <2>3. ~BP!CanMerge
    BY <1>1, <2>1, <2>2 DEF CanMerge, BP!CanMerge
  <2>4. BP!Return
    BY <1>1 DEF Return, BP!Return
  <2>5. Frees' = [Frees EXCEPT ![order] = @ \cup {page}]
    BY <1>10 DEF F
  <2> QED BY <1>1, <1>12, <2>3, <2>4, <2>5 DEF BP!put
<1>14. BP!Next
  BY <1>13 DEF BP!Next
<1>15. pc' = "ready" /\ size' = 0
  BY <1>1 DEF Return
<1>16. Sized'
  BY <1>15 DEF Sized
<1>17. OneOwner' /\ BuffersFit'
  BY <1>1, <1>11 DEF LInv, OneOwner, BuffersFit
<1> QED BY <1>4, <1>5, <1>10, <1>14, <1>15, <1>16, <1>17 DEF LInv

-----------------------------------------------------------------------------
(* The theorems                                                            *)

LEMMA InitLInv == Init => LInv /\ BP!Init
<1> SUFFICES ASSUME Init PROVE LInv /\ BP!Init
  OBVIOUS
<1> DEFINE area  == Size[MAX_ORDER - 1]
           kept  == {Size[k] : k \in SKIP_ORDER..(MAX_ORDER - 1)}
           areas == {p \in Page : p >= area /\ p % area = 0}
<1>1. /\ buddy_pages = [k \in Order |-> IF k >= SKIP_ORDER THEN Size[k] ELSE NULL]
      /\ word = [p \in Page |->
                   IF p \in kept \/ p = PHYSIZE - area THEN Link(NULL)
                   ELSE IF p \in areas THEN Link(p + area)
                   ELSE Other]
      /\ pages = {} /\ buffers = {} /\ pc = "ready"
      /\ order = 0 /\ promoted_order = 0 /\ page = 0 /\ size = 0
  BY DEF Init
<1> HIDE DEF area, areas
<1>2. \A k \in Order : Size[k] \in Page
  <2> TAKE k \in Order
  <2>1. Size[k] \in Nat /\ Size[k] >= 1 /\ Size[k] + Size[k] <= PHYSIZE /\ PHYSIZE \in Nat
    BY SizeFacts, LinksAssumption
  <2> QED BY <2>1 DEF Page
<1>3. \A k \in Order : k >= SKIP_ORDER => word[Size[k]] = Link(NULL)
  <2>1. \A k \in Order : k >= SKIP_ORDER => k \in SKIP_ORDER..(MAX_ORDER - 1)
    BY LinksAssumption DEF Order
  <2>2. \A k \in Order : k >= SKIP_ORDER => Size[k] \in kept
    BY <2>1
  <2> HIDE DEF kept
  <2> QED BY <1>1, <1>2, <2>2
<1> DEFINE F(k) == IF k >= SKIP_ORDER THEN {Size[k]} ELSE {}
<1>4. ASSUME NEW k \in Order PROVE Holds(F(k), buddy_pages[k], word)
  <2>1. Holds({}, NULL, word)
    <3> DEFINE l == << >>
    <3>1. l \in Seq(Page) /\ Len(l) = 0 /\ DOMAIN l = {}
      OBVIOUS
    <3>2. Path(l, NULL, word)
      BY <3>1 DEF Path, IsInjective
    <3>3. ToSet(l) = {}
      BY <3>1 DEF ToSet
    <3> QED BY <3>2, <3>3 DEF Holds
  <2>2. CASE k >= SKIP_ORDER
    <3>1. Holds({} \cup {Size[k]}, Size[k], word)
      BY <1>2, <1>3, <2>1, <2>2, HoldsCons
    <3>2. buddy_pages[k] = Size[k] /\ F(k) = {} \cup {Size[k]}
      BY <1>1, <2>2
    <3> QED BY <3>1, <3>2
  <2>3. CASE ~(k >= SKIP_ORDER)
    BY <1>1, <2>1, <2>3
  <2> QED BY <2>2, <2>3
<1>5. \A k \in Order : /\ Path(FreeList(k), buddy_pages[k], word)
                       /\ ToSet(FreeList(k)) = F(k)
  <2> TAKE k \in Order
  <2>1. PICK l : Path(l, buddy_pages[k], word) /\ ToSet(l) = F(k)
    BY <1>4 DEF Holds
  <2>2. FreeList(k) = l
    BY <2>1, WalkPath, WalkIsWalkIn
  <2> QED BY <2>1, <2>2
<1>6. Frees = [k \in Order |-> IF k >= SKIP_ORDER THEN {Size[k]} ELSE {}]
  BY <1>5 DEF Frees
<1>7. Owned = {}
  BY <1>1 DEF Owned
<1>8. BP!Init
  BY <1>1, <1>6, <1>7 DEF BP!Init, BP!Order, Order
<1>9. DOMAIN buddy_pages = Order /\ word = [p \in Page |-> word[p]]
  BY <1>1
<1> QED BY <1>1, <1>5, <1>8, <1>9
        DEF LInv, Lists, Sized, OneOwner, BuffersFit

LEMMA StepLInv ==
  LInv /\ BP!IInv /\ [Next]_vars => LInv' /\ [BP!Next]_(BP!vars)
<1> SUFFICES ASSUME LInv, BP!IInv, [Next]_vars
             PROVE  LInv' /\ [BP!Next]_(BP!vars)
  OBVIOUS
<1>1. ASSUME NEW k \in Orders, alloc_pages(k) PROVE LInv' /\ BP!Next
  <2>1. k \in Order
    BY LinksAssumption
  <2>2. StartAlloc(k, 0)
    BY <1>1 DEF alloc_pages
  <2> QED BY <2>1, <2>2, AllocStep
<1>2. ASSUME NEW n \in Requests, kmalloc(n) PROVE LInv' /\ BP!Next
  <2>1. StartAlloc(KmallocOrder(n), n) /\ KmallocOrder(n) \in Order
    BY <1>2, RequestOrder DEF kmalloc
  <2> QED BY <2>1, AllocStep
<1>3. CASE Halted \/ UNCHANGED vars
  <2>1. UNCHANGED vars
    BY <1>3 DEF Halted
  <2>2. UNCHANGED <<buddy_pages, word, pages, buffers, pc, order,
                    promoted_order, page, size>>
    BY <2>1 DEF vars
  <2>3. /\ Frees' = Frees /\ Lists'
        /\ DOMAIN buddy_pages' = Order /\ word' = [p \in Page |-> word'[p]]
    BY <2>2, SameLists
  <2>4. Owned' = Owned
    BY <2>2 DEF Owned, BlockOf
  <2>5. LInv'
    BY <2>2, <2>3 DEF LInv, Sized, OneOwner, BlockOf, BuffersFit
  <2>6. UNCHANGED BP!vars
    BY <2>2, <2>3, <2>4 DEF BP!vars
  <2> QED BY <2>5, <2>6
<1>4. CASE split_area
  BY <1>4, SplitListStep
<1>5. CASE take
  BY <1>5, TakeListStep
<1>6. CASE free_pages
  BY <1>6, FreePagesStep
<1>7. CASE kfree
  BY <1>7, KfreeStep
<1>8. CASE merge
  BY <1>8, MergeListStep
<1>9. CASE put
  BY <1>9, PutListStep
<1> QED BY <1>1, <1>2, <1>3, <1>4, <1>5, <1>6, <1>7, <1>8, <1>9 DEF Next

\* The lists cannot be reasoned about alone: that a page written by its owner
\* is not in a list is what Buddy's invariant says of the blocks.
LBInv == LInv /\ BP!IInv /\ BP!Conserved

LEMMA InitLBInv == Init => LBInv
<1>1. BP!Init => BP!IInv /\ BP!Conserved
  BY Sizes, BP!InitIInv, BP!InitConserved
<1> QED BY <1>1, InitLInv DEF LBInv

LEMMA StepLBInv == LBInv /\ [Next]_vars => LBInv'
<1>1. BP!IInv /\ BP!Conserved /\ [BP!Next]_(BP!vars) => BP!IInv' /\ BP!Conserved'
  BY Sizes, BP!StepIInv, BP!StepConserved
<1> QED BY <1>1, StepLInv DEF LBInv

\* kmalloc hands out enough: whatever was asked for, the buffer and its header
\* fit into the block whose order the header names, which is the block kfree
\* gives back.
THEOREM BuffersStayInside == Spec => []BuffersFit
<1>1. LBInv => BuffersFit
  BY DEF LBInv, LInv
<1> QED BY InitLBInv, StepLBInv, <1>1, PTL DEF Spec

\* The loops of alloc_pages and free_pages along the lists end: no list comes
\* back to an area it has passed, and none is as long as RAM has pages.
THEOREM ListsAreFinite == Spec => []ListsEnd
<1>1. LBInv => ListsEnd
  <2> SUFFICES ASSUME LBInv, NEW k \in Order
               PROVE  IsInjective(FreeList(k)) /\ Len(FreeList(k)) < PHYSIZE
    BY DEF ListsEnd
  <2> DEFINE l == FreeList(k)
  <2>1. Path(l, buddy_pages[k], word)
    BY DEF LBInv, LInv, Lists
  <2>2. ~(0 \in FreeAt(k))
    <3> SUFFICES ASSUME 0 \in FreeAt(k) PROVE FALSE
      OBVIOUS
    <3> DEFINE b == [page |-> 0, order |-> k]
    <3>1. b \in BP!Blocks /\ 0 \in Page
      BY FreeBlock DEF LBInv
    <3>2. BP!Covers(b, 0)
      BY SizeFacts DEF BP!Covers
    <3> HIDE DEF b
    <3>3. 0 \in BP!Managed
      BY <3>1, <3>2 DEF LBInv, BP!Conserved, BP!Page, Page
    <3>4. PICK i \in Order : BP!Covers([page |-> Size[i], order |-> i], 0)
      BY <3>3 DEF BP!Managed, BP!Order, Order
    <3> QED BY <3>4, SizeFacts DEF BP!Covers
  <2>3. \A i \in 1..Len(l) : l[i] \in 1..(PHYSIZE - 1)
    <3>1. \A i \in 1..Len(l) : l[i] \in Page /\ l[i] \in FreeAt(k)
      BY <2>1, PathFacts DEF FreeAt
    <3> QED BY <2>2, <3>1 DEF Page
  <2>4. l \in Seq(Page) /\ Len(l) \in Nat /\ IsInjective(l)
    BY <2>1 DEF Path
  <2> HIDE DEF l
  <2>5. l \in Seq(1..(PHYSIZE - 1))
    <3> DEFINE S == 1..(PHYSIZE - 1)
    <3>1. l = [i \in 1..Len(l) |-> l[i]]
      BY <2>4
    <3>2. \A i \in 1..Len(l) : l[i] \in S
      BY <2>3
    <3> HIDE DEF S
    <3>3. l \in Seq(S)
      BY <2>4, <3>1, <3>2
    <3> QED BY <3>3 DEF S
  <2>6. PHYSIZE \in Nat /\ PHYSIZE >= 1
    <3>1. 0 \in Order
      BY LinksAssumption DEF Order
    <3> QED BY <3>1, SizeFacts, LinksAssumption
  <2>7. Len(l) <= ((PHYSIZE - 1) - 1) + 1
    BY <2>4, <2>5, <2>6, PathLength
  <2> QED BY <2>4, <2>6, <2>7 DEF l
<1> QED BY InitLBInv, StepLBInv, <1>1, PTL DEF Spec

\* The allocator in memory does what the allocator on sets does: whatever the
\* owners write into their pages, alloc_pages, free_pages, kmalloc and kfree
\* are steps of Buddy.
THEOREM ListsImplementBuddy == Spec => ImplementsBuddy
<1>1. Init => B!Init
  <2>1. BP!Init => B!Init
    BY Zenon DEF BP!Init, B!Init, Frees, Owned, BlockOf, BP!Order, B!Order
  <2> QED BY <2>1, InitLInv
<1>2. BP!vars = B!vars
  BY Zenon DEF BP!vars, B!vars, Frees, Owned, BlockOf
<1>3. BP!vars' = B!vars'
  BY Zenon DEF BP!vars, B!vars, Frees, Owned, BlockOf
<1>4. BP!Next => B!Next
  BY Zenon DEF BP!Next, B!Next, BP!alloc_pages, B!alloc_pages, BP!Search,
     B!Search, BP!split_area, B!split_area, BP!take, B!take, BP!free_pages,
     B!free_pages, BP!merge, B!merge, BP!put, B!put, BP!CanMerge, B!CanMerge,
     BP!BuddyOf, B!BuddyOf, BP!ParentOf, B!ParentOf, BP!Upper, B!Upper,
     BP!Return, B!Return, BP!Halted, B!Halted, BP!vars, B!vars, BP!Block,
     B!Block, BP!Page, B!Page, BP!Order, B!Order, Frees, Owned, BlockOf
<1>5. LBInv /\ [Next]_vars => [B!Next]_(B!vars)
  BY <1>2, <1>3, <1>4, StepLInv DEF LBInv
<1> QED BY InitLBInv, StepLBInv, <1>1, <1>5, PTL DEF Spec, ImplementsBuddy, B!Spec

=============================================================================
