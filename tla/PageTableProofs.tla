-------------------------- MODULE PageTableProofs --------------------------
(***************************************************************************)
(* Proofs about the page tables of PageTable.tla, for any number of        *)
(* address spaces, tables of any size and any pages mapped.                *)
(***************************************************************************)
EXTENDS PageTableProps, FiniteSetTheorems, TLAPS

-----------------------------------------------------------------------------

(***************************************************************************)
(* Entries.                                                                *)
(***************************************************************************)

LEMMA EntryKinds ==
  /\ ~IsTable(Invalid)
  /\ \A p : IsTable(Table(p)) /\ Table(p).page = p /\ Table(p) # Invalid
  /\ \A ppn, f : /\ ~IsTable(Leaf(ppn, f)) /\ Leaf(ppn, f) # Invalid
                 /\ Leaf(ppn, f).ppn = ppn
  /\ \A ppn, f, q, h : Leaf(ppn, f) = Leaf(q, h) => ppn = q /\ f = h
  /\ Invalid \in Entry
  /\ \A p \in Page : Table(p) \in Entry
  /\ \A ppn \in VPage, f \in {"user", "kernel", "device"} : Leaf(ppn, f) \in Entry
<1>1. ~IsTable(Invalid)
  BY DEF IsTable, Invalid
<1>2. \A p : IsTable(Table(p)) /\ Table(p).page = p
  BY DEF IsTable, Table
<1>3. \A ppn, f : ~IsTable(Leaf(ppn, f)) /\ Leaf(ppn, f).ppn = ppn
                  /\ Leaf(ppn, f).flags = f /\ Leaf(ppn, f).type = "leaf"
  BY DEF IsTable, Leaf
<1>4. Invalid.type = "invalid"
  BY DEF Invalid
<1>5. Invalid \in Entry /\ \A p \in Page : Table(p) \in Entry
  BY DEF Entry
<1>6. \A ppn \in VPage, f \in {"user", "kernel", "device"} : Leaf(ppn, f) \in Entry
  BY DEF Entry
<1> QED BY <1>1, <1>2, <1>3, <1>4, <1>5, <1>6

LEMMA EntryCases ==
  ASSUME NEW e \in Entry
  PROVE  \/ e = Invalid
         \/ IsTable(e) /\ e.page \in Page /\ e = Table(e.page)
         \/ /\ ~IsTable(e) /\ e # Invalid
            /\ \E ppn \in VPage, f \in {"user", "kernel", "device"} :
                 e = Leaf(ppn, f)
<1>1. CASE e = Invalid
  BY <1>1
<1>2. CASE e \in {Table(p) : p \in Page}
  <2>1. PICK p \in Page : e = Table(p)
    BY <1>2
  <2> QED BY <2>1, EntryKinds
<1>3. CASE e \in {Leaf(ppn, f) : ppn \in VPage, f \in {"user", "kernel", "device"}}
  <2>1. \E ppn \in VPage, f \in {"user", "kernel", "device"} : e = Leaf(ppn, f)
    BY <1>3
  <2> QED BY <2>1, EntryKinds
<1> QED BY <1>1, <1>2, <1>3 DEF Entry

LEMMA VPages ==
  \A va \in VPage : /\ va[1] \in Idx /\ va[2] \in Idx /\ va[3] \in Idx
                    /\ va = <<va[1], va[2], va[3]>>
BY DEF VPage

\* The leaf for the page with the fields a, b and c.
LeafOf(a, b, c, f) == Leaf(<<a, b, c>>, f)

LEMMA LeafCases ==
  ASSUME NEW e \in Entry, ~IsTable(e), e # Invalid
  PROVE  \E a, b, c \in Idx : \E f \in {"user", "kernel", "device"} :
           e = LeafOf(a, b, c, f)
<1>1. PICK ppn \in VPage, f \in {"user", "kernel", "device"} : e = Leaf(ppn, f)
  BY EntryCases
<1>2. PICK a \in Idx, b \in Idx, c \in Idx : ppn = <<a, b, c>>
  BY VPages
<1>3. e = LeafOf(a, b, c, f)
  BY <1>1, <1>2 DEF LeafOf
<1> QED BY <1>3

LEMMA LeafOfFacts ==
  \A a, b, c \in Idx :
    /\ \A f : LeafOf(a, b, c, f) # Invalid /\ ~IsTable(LeafOf(a, b, c, f))
    /\ \A f \in {"user", "kernel", "device"} : LeafOf(a, b, c, f) \in Entry
<1> TAKE a, b, c \in Idx
<1>1. <<a, b, c>> \in VPage
  BY DEF VPage
<1> QED BY <1>1, EntryKinds DEF LeafOf

\* What expand_superpage makes of a large page: the page number of each part.
LEMMA ExpandedLeaf ==
  \A a, b, c, i \in Idx : \A f :
    /\ Expanded(LeafOf(a, b, c, f), 1)[i] = LeafOf(a, i, c, f)
    /\ Expanded(LeafOf(a, b, c, f), 0)[i] = LeafOf(a, b, i, f)
<1> TAKE a, b, c, i \in Idx
<1> TAKE f
<1>1. LeafOf(a, b, c, f) # Invalid
  BY LeafOfFacts
<1>2. 3 - 1 = 2 /\ 3 - 0 = 3
  OBVIOUS
<1>3. [LeafOf(a, b, c, f) EXCEPT !.ppn[2] = i] = LeafOf(a, i, c, f)
  BY DEF Leaf, LeafOf
<1>4. [LeafOf(a, b, c, f) EXCEPT !.ppn[3] = i] = LeafOf(a, b, i, f)
  BY DEF Leaf, LeafOf
<1> QED BY <1>1, <1>2, <1>3, <1>4 DEF Expanded

LEMMA ExpandedType ==
  ASSUME NEW e \in Entry, ~IsTable(e), NEW level \in {0, 1}
  PROVE  /\ Expanded(e, level) \in [Idx -> Entry]
         /\ \A i \in Idx : ~IsTable(Expanded(e, level)[i])
         /\ e = Invalid => \A i \in Idx : Expanded(e, level)[i] = Invalid
<1>1. CASE e = Invalid
  BY <1>1, EntryKinds DEF Expanded, Empty
<1>2. CASE e # Invalid
  <2>1. PICK a, b, c \in Idx : \E f \in {"user", "kernel", "device"} :
          e = LeafOf(a, b, c, f)
    BY <1>2, LeafCases
  <2>2. PICK f \in {"user", "kernel", "device"} : e = LeafOf(a, b, c, f)
    BY <2>1
  <2>3. \A i \in Idx : Expanded(e, level)[i] \in Entry
                       /\ ~IsTable(Expanded(e, level)[i])
    <3> TAKE i \in Idx
    <3>1. LeafOf(a, i, c, f) \in Entry /\ ~IsTable(LeafOf(a, i, c, f))
      BY LeafOfFacts
    <3>2. LeafOf(a, b, i, f) \in Entry /\ ~IsTable(LeafOf(a, b, i, f))
      BY LeafOfFacts
    <3>3. CASE level = 1
      <4>1. Expanded(e, level)[i] = LeafOf(a, i, c, f)
        BY <2>2, <3>3, ExpandedLeaf
      <4> QED BY <3>1, <4>1
    <3>4. CASE level = 0
      <4>1. Expanded(e, level)[i] = LeafOf(a, b, i, f)
        BY <2>2, <3>4, ExpandedLeaf
      <4> QED BY <3>2, <4>1
    <3> QED BY <3>3, <3>4
  <2>4. Expanded(e, level) = [i \in Idx |-> Expanded(e, level)[i]]
    BY <1>2 DEF Expanded
  <2> QED BY <1>2, <2>3, <2>4
<1> QED BY <1>1, <1>2

\* Breaking up a large page changes no translation: what the walk makes of an
\* entry is what it makes of the part that the next field selects.
Part1(e, j, k) ==
  IF e = Invalid THEN Invalid ELSE [e EXCEPT !.ppn = <<@[1], j, k>>]
Part0(e, k) ==
  IF e = Invalid THEN Invalid ELSE [e EXCEPT !.ppn = <<@[1], @[2], k>>]

LEMMA PartOfLeaf ==
  \A a, b, c, j, k \in Idx : \A f :
    /\ Part1(LeafOf(a, b, c, f), j, k) = LeafOf(a, j, k, f)
    /\ Part0(LeafOf(a, b, c, f), k) = LeafOf(a, b, k, f)
<1> TAKE a, b, c, j, k \in Idx
<1> TAKE f
<1>1. LeafOf(a, b, c, f) # Invalid
  BY LeafOfFacts
<1>2. [LeafOf(a, b, c, f) EXCEPT !.ppn = <<@[1], j, k>>] = LeafOf(a, j, k, f)
  BY DEF Leaf, LeafOf
<1>3. [LeafOf(a, b, c, f) EXCEPT !.ppn = <<@[1], @[2], k>>]
        = LeafOf(a, b, k, f)
  BY DEF Leaf, LeafOf
<1> QED BY <1>1, <1>2, <1>3 DEF Part1, Part0

LEMMA SameParts ==
  \A e \in Entry : ~IsTable(e) =>
    \A j, k \in Idx : /\ Part0(Expanded(e, 1)[j], k) = Part1(e, j, k)
                      /\ Expanded(e, 0)[k] = Part0(e, k)
<1> TAKE e \in Entry
<1> HAVE ~IsTable(e)
<1> TAKE j, k \in Idx
<1>1. CASE e = Invalid
  BY <1>1 DEF Part0, Part1, Expanded, Empty
<1>2. CASE e # Invalid
  <2>1. PICK a, b, c \in Idx : \E f \in {"user", "kernel", "device"} :
          e = LeafOf(a, b, c, f)
    BY <1>2, LeafCases
  <2>2. PICK f \in {"user", "kernel", "device"} : e = LeafOf(a, b, c, f)
    BY <2>1
  <2> QED BY <2>2, ExpandedLeaf, PartOfLeaf
<1> QED BY <1>1, <1>2

\* The walk of the hardware through a given memory.
WalkIn(m, table, va) ==
  LET e2 == m[table][va[1]]
      e1 == m[e2.page][va[2]]
  IN  IF ~IsTable(e2) THEN Part1(e2, va[2], va[3])
      ELSE IF ~IsTable(e1) THEN Part0(e1, va[3])
      ELSE m[e1.page][va[3]]

LEMMA WalkIsWalkIn == \A table, va : Walk(table, va) = WalkIn(mem, table, va)
BY DEF Walk, WalkIn, Part1, Part0

-----------------------------------------------------------------------------

(***************************************************************************)
(* The tables of a space form a tree.  g says where in it a table hangs:   *)
(* in whose space, how many levels above the last, below which entry of    *)
(* the root (first), and which entry refers to it.                         *)
(***************************************************************************)

Mem == [Page \cup {Early} -> [Idx -> Entry]]

Place == [own : Space \cup {None}, depth : 0..2, first : Idx,
          parent : Page \cup {Early}, index : Idx]

Tables(u) == u \cup {Early}

\* The root index above entry i of table t.
First(g, t, i) == IF g[t].depth = 2 THEN i ELSE g[t].first

Shape(m, u, r, g) ==
  /\ m \in Mem
  /\ u \subseteq Page
  /\ r \in [Space -> Page \cup {None}]
  /\ g \in [Page \cup {Early} -> Place]

\* The entry refers to the table p that hangs below it.
Hangs(g, p, t, i) ==
  /\ g[p].parent = t /\ g[p].index = i
  /\ g[p].depth + 1 = g[t].depth
  /\ g[p].own = g[t].own
  /\ g[p].first = First(g, t, i)

Tree(m, u, r, g) ==
  /\ \A s \in Space : r[s] # None =>
       r[s] \in u /\ g[r[s]].depth = 2 /\ g[r[s]].own = s
  /\ g[Early].depth = 2 /\ g[Early].own = None
  /\ \A p \in u : g[p].depth = 2 => g[p].own \in Space /\ r[g[p].own] = p
  /\ \A p \in u : g[p].depth # 2 =>
       g[p].parent \in Tables(u) /\ m[g[p].parent][g[p].index] = Table(p)
  /\ \A t \in Tables(u), i \in Idx : IsTable(m[t][i]) =>
       m[t][i].page \in u /\ Hangs(g, m[t][i].page, t, i)

MappedFirst == {va[1] : va \in Mapped}

KernelRoot == map_kernel_pages(Empty)

\* In the user half no large page is mapped, and what is mapped is memory of
\* tasks.  A root entry below which nothing is mapped is as
\* map_kernel_pages left it.
Contents(m, u, g) ==
  \A t \in Tables(u), i \in Idx :
    /\ First(g, t, i) < SPLIT =>
         \/ m[t][i] = Invalid
         \/ g[t].depth # 0 /\ IsTable(m[t][i])
         \/ /\ g[t].depth = 0 /\ g[t].own # None
            /\ \E ppn \in Frame : m[t][i] = Leaf(ppn, "user")
    /\ g[t].depth = 2 /\ i >= SPLIT /\ i \notin MappedFirst =>
         m[t][i] = KernelRoot[i]

TreeOK(m, u, r, g) == Shape(m, u, r, g) /\ Tree(m, u, r, g) /\ Contents(m, u, g)

LEMMA KernelRootFacts ==
  /\ KernelRoot \in [Idx -> Entry]
  /\ \A i \in Idx : ~IsTable(KernelRoot[i])
  /\ \A i \in Idx : i < SPLIT => KernelRoot[i] = Invalid
  /\ KernelRoot[SPLIT] = Leaf(<<2, 0, 0>>, "kernel")
  /\ KernelRoot[MMIOBASE] = Leaf(<<0, 0, 0>>, "device")
  /\ \A i \in Idx \ {SPLIT, MMIOBASE} : KernelRoot[i] = Invalid
  /\ SPLIT \in Idx /\ MMIOBASE \in Idx /\ SPLIT # MMIOBASE /\ SPLIT < MMIOBASE
  /\ SPLIT \in Nat /\ 0 < SPLIT /\ 0 \in Idx
<1>1. /\ SPLIT \in Idx /\ MMIOBASE \in Idx /\ SPLIT # MMIOBASE
      /\ SPLIT < MMIOBASE /\ SPLIT \in Nat /\ 0 < SPLIT
      /\ 0 \in Idx /\ 2 \in Idx
  <2>1. N \in Nat /\ N > 2 /\ SPLIT \in Idx \ {0} /\ MMIOBASE \in Idx \ 0..SPLIT
    BY PageTableAssumption
  <2> QED BY <2>1 DEF Idx
<1>2. <<0, 0, 0>> \in VPage /\ <<2, 0, 0>> \in VPage
  BY <1>1 DEF VPage
<1>3. /\ Leaf(<<0, 0, 0>>, "device") \in Entry
      /\ Leaf(<<2, 0, 0>>, "kernel") \in Entry
      /\ ~IsTable(Leaf(<<0, 0, 0>>, "device"))
      /\ ~IsTable(Leaf(<<2, 0, 0>>, "kernel"))
      /\ Invalid \in Entry /\ ~IsTable(Invalid)
  BY <1>2, EntryKinds
<1>4. KernelRoot = [i \in Idx |-> IF i = SPLIT THEN Leaf(<<2, 0, 0>>, "kernel")
                                  ELSE IF i = MMIOBASE
                                  THEN Leaf(<<0, 0, 0>>, "device")
                                  ELSE Invalid]
  BY <1>1 DEF KernelRoot, map_kernel_pages, Empty
<1>5. \A i \in Idx : i < SPLIT => i # SPLIT /\ i # MMIOBASE
  BY <1>1 DEF Idx
<1> QED BY <1>1, <1>3, <1>4, <1>5

LEMMA DepthCases ==
  ASSUME NEW m, NEW u, NEW r, NEW g, TreeOK(m, u, r, g),
         NEW t \in Tables(u), NEW p \in u, NEW i \in Idx, Hangs(g, p, t, i)
  PROVE  \/ g[t].depth = 2 /\ g[p].depth = 1
         \/ g[t].depth = 1 /\ g[p].depth = 0
<1>1. g[t].depth \in 0..2 /\ g[p].depth \in 0..2
  BY DEF TreeOK, Shape, Place, Tables
<1>2. g[p].depth + 1 = g[t].depth
  BY DEF Hangs
<1> QED BY <1>1, <1>2

\* A walk depends on the root entry and on the tables below it alone.
PathKept(m, m2, u, g, t, va) ==
  /\ m2[t][va[1]] = m[t][va[1]]
  /\ \A p \in u : g[p].own = g[t].own /\ g[p].depth # 2 /\ g[p].first = va[1]
                    => m2[p] = m[p]

LEMMA WalkFrame ==
  ASSUME NEW m, NEW u, NEW r, NEW g, TreeOK(m, u, r, g),
         NEW m2, NEW t \in Tables(u), g[t].depth = 2, NEW va \in VPage,
         PathKept(m, m2, u, g, t, va)
  PROVE  WalkIn(m2, t, va) = WalkIn(m, t, va)
<1> DEFINE e2 == m[t][va[1]]
           e1 == m[e2.page][va[2]]
<1>1. va[1] \in Idx /\ va[2] \in Idx
  BY VPages
<1>2. CASE ~IsTable(e2)
  BY <1>2 DEF WalkIn, PathKept
<1>3. CASE IsTable(e2)
  <2>1. e2.page \in u /\ Hangs(g, e2.page, t, va[1])
    BY <1>1, <1>3 DEF TreeOK, Tree
  <2>2. m2[e2.page] = m[e2.page] /\ g[e2.page].depth = 1
        /\ g[e2.page].first = va[1] /\ g[e2.page].own = g[t].own
    BY <2>1 DEF Hangs, First, TreeOK, Shape, Place, PathKept
  <2>3. CASE ~IsTable(e1)
    BY <1>3, <2>2, <2>3 DEF WalkIn, PathKept
  <2>4. CASE IsTable(e1)
    <3>1. e1.page \in u /\ Hangs(g, e1.page, e2.page, va[2])
      BY <1>1, <2>1, <2>4 DEF TreeOK, Tree, Tables
    <3>2. e2.page \in Tables(u)
      BY <2>1 DEF Tables
    <3> HIDE DEF e1, e2
    <3>3. g[e1.page].depth = 0
      BY <1>1, <2>2, <3>1, <3>2, DepthCases
    <3>4. g[e1.page].own = g[t].own /\ g[e1.page].first = va[1]
      BY <2>2, <3>1 DEF Hangs, First
    <3>5. g[e1.page].depth # 2
      BY <3>3
    <3>6. m2[e1.page] = m[e1.page]
      BY <3>1, <3>4, <3>5 DEF PathKept
    <3> QED BY <1>3, <2>2, <2>4, <3>6 DEF WalkIn, PathKept, e1, e2
  <2> QED BY <2>3, <2>4
<1> QED BY <1>2, <1>3

-----------------------------------------------------------------------------

(***************************************************************************)
(* One level of set_page.                                                  *)
(***************************************************************************)

LEMMA AllocFacts ==
  ASSUME NEW u, u \subseteq Page, u # Page
  PROVE  alloc_pages(u) \in Page /\ alloc_pages(u) \notin u /\ alloc_pages(u) # Early
<1>1. \E p \in Page \ u : TRUE
  OBVIOUS
<1>2. alloc_pages(u) \in Page \ u
  BY <1>1 DEF alloc_pages
<1> QED BY <1>2, PageTableAssumption

\* The new table p below entry i of the table t, which has depth d.
NewTable(m, u, r, g, t, d, i, p, m2, u2, g2) ==
  /\ p \in Page /\ p \notin u /\ p # Early /\ p # t
  /\ m2[p] = Expanded(m[t][i], d - 1)
  /\ m2[t] = [m[t] EXCEPT ![i] = Table(p)]
  /\ \A q \in Page \cup {Early} : q # t /\ q # p => m2[q] = m[q]
  /\ u2 = u \cup {p}
  /\ g2[p] = [own |-> g[t].own, depth |-> d - 1, first |-> First(g, t, i),
              parent |-> t, index |-> i]
  /\ \A q \in Page \cup {Early} : q # p => g2[q] = g[q]
  /\ Shape(m2, u2, r, g2)

\* Where set_page may descend: to the pages that callers map.
MayDescend(g, t, i) == First(g, t, i) < SPLIT \/ First(g, t, i) \in MappedFirst

LEMMA DepthFacts ==
  \A d \in {1, 2} : d - 1 \in {0, 1} /\ d - 1 # 2 /\ d - 1 + 1 = d /\ d - 1 \in 0..2
OBVIOUS

LEMMA SplitFacts ==
  ASSUME NEW m, NEW u, NEW r, NEW g, TreeOK(m, u, r, g),
         NEW t \in Tables(u), NEW d \in {1, 2}, g[t].depth = d,
         NEW i \in Idx, ~IsTable(m[t][i]), u # Page
  PROVE  \E g2 : NewTable(m, u, r, g, t, d, i, alloc_pages(u),
                          [m EXCEPT ![alloc_pages(u)] = Expanded(m[t][i], d - 1),
                                    ![t][i] = Table(alloc_pages(u))],
                          u \cup {alloc_pages(u)}, g2)
<1> DEFINE p  == alloc_pages(u)
           at == [own |-> g[t].own, depth |-> d - 1, first |-> First(g, t, i),
                  parent |-> t, index |-> i]
           m2 == [m EXCEPT ![p] = Expanded(m[t][i], d - 1), ![t][i] = Table(p)]
           g2 == [g EXCEPT ![p] = at]
<1>1. /\ m \in Mem /\ u \subseteq Page /\ r \in [Space -> Page \cup {None}]
      /\ g \in [Page \cup {Early} -> Place] /\ t \in Page \cup {Early}
  BY DEF TreeOK, Shape, Tables
<1>2. p \in Page /\ p \notin u /\ p # Early
  BY <1>1, AllocFacts
<1>3. p # t
  BY <1>2 DEF Tables
<1>4. m[t] \in [Idx -> Entry] /\ m[t][i] \in Entry
  BY <1>1 DEF Mem
<1>5. d - 1 \in {0, 1} /\ d - 1 # 2 /\ d - 1 + 1 = d /\ d - 1 \in 0..2
  BY DepthFacts
<1>6. Expanded(m[t][i], d - 1) \in [Idx -> Entry]
  BY <1>4, <1>5, ExpandedType
<1>7. Table(p) \in Entry
  BY <1>2, EntryKinds
<1>8. First(g, t, i) \in Idx /\ g[t].own \in Space \cup {None}
  BY <1>1 DEF First, Place
<1>9. at \in Place
  BY <1>1, <1>5, <1>8 DEF Place
<1> HIDE DEF p, at
<1>10. /\ m2[p] = Expanded(m[t][i], d - 1)
       /\ m2[t] = [m[t] EXCEPT ![i] = Table(p)]
       /\ \A x \in Page \cup {Early} : x # t /\ x # p => m2[x] = m[x]
  BY <1>1, <1>2, <1>3 DEF Mem
<1>11. m2 \in Mem
  <2>1. [m[t] EXCEPT ![i] = Table(p)] \in [Idx -> Entry]
    BY <1>4, <1>7
  <2>2. \A x \in Page \cup {Early} : m2[x] \in [Idx -> Entry]
    <3> HIDE DEF m2
    <3> QED BY <1>1, <1>6, <1>10, <2>1 DEF Mem
  <2>3. m2 = [x \in Page \cup {Early} |-> m2[x]]
    BY <1>1 DEF Mem
  <2> HIDE DEF m2
  <2> QED BY <2>2, <2>3 DEF Mem
<1>12. /\ g2[p] = at
       /\ \A q \in Page \cup {Early} : q # p => g2[q] = g[q]
       /\ g2 \in [Page \cup {Early} -> Place]
  BY <1>1, <1>2, <1>9
<1> HIDE DEF m2, g2
<1>13. Shape(m2, u \cup {p}, r, g2)
  BY <1>1, <1>2, <1>11, <1>12 DEF Shape
<1>14. NewTable(m, u, r, g, t, d, i, p, m2, u \cup {p}, g2)
  BY <1>2, <1>3, <1>10, <1>12, <1>13 DEF NewTable, at
<1> QED BY <1>14 DEF p, m2

LEMMA SplitTree ==
  ASSUME NEW m, NEW u, NEW r, NEW g, TreeOK(m, u, r, g),
         NEW t \in Tables(u), NEW d \in {1, 2}, g[t].depth = d,
         NEW i \in Idx, ~IsTable(m[t][i]), MayDescend(g, t, i),
         NEW p, NEW m2, NEW u2, NEW g2,
         NewTable(m, u, r, g, t, d, i, p, m2, u2, g2)
  PROVE  TreeOK(m2, u2, r, g2)
<1> DEFINE e == Expanded(m[t][i], d - 1)
<1>a. Tables(u) \subseteq Page \cup {Early} /\ m[t][i] \in Entry
  BY DEF TreeOK, Shape, Mem, Tables
<1>b. d - 1 \in {0, 1} /\ d - 1 # 2 /\ d - 1 + 1 = d
  BY DepthFacts
<1>1. /\ p \in Page /\ p \notin u /\ p # Early /\ p # t
      /\ m[t][i] \in Entry /\ d - 1 \in {0, 1} /\ d - 1 # 2 /\ d - 1 + 1 = d
      /\ m2[p] = e
      /\ m2[t] = [m[t] EXCEPT ![i] = Table(p)]
      /\ \A q \in Tables(u) : q # t => m2[q] = m[q]
      /\ g2[p] = [own |-> g[t].own, depth |-> d - 1, first |-> First(g, t, i),
                  parent |-> t, index |-> i]
      /\ \A q \in Tables(u) : g2[q] = g[q] /\ q # p
      /\ Shape(m2, u2, r, g2)
  BY <1>a, <1>b DEF NewTable, Tables
<1>2. \A j \in Idx : ~IsTable(e[j])
  BY <1>1, ExpandedType
<1>3. u2 = u \cup {p} /\ Tables(u2) = Tables(u) \cup {p} /\ Early \in Tables(u)
      /\ u \subseteq Tables(u)
  BY DEF NewTable, Tables
<1> HIDE DEF e
<1>4. m[t] \in [Idx -> Entry]
  BY DEF TreeOK, Shape, Mem, Tables
<1>5. /\ m2[t][i] = Table(p)
      /\ \A j \in Idx : j # i => m2[t][j] = m[t][j]
  BY <1>1, <1>4
<1>6. Tree(m, u, r, g) /\ Contents(m, u, g)
  BY DEF TreeOK
<1>7. \A s \in Space : r[s] # None =>
        r[s] \in u2 /\ g2[r[s]].depth = 2 /\ g2[r[s]].own = s
  BY <1>1, <1>3, <1>6 DEF Tree
<1>8. g2[Early].depth = 2 /\ g2[Early].own = None
  BY <1>1, <1>3, <1>6 DEF Tree
<1>9. \A q \in u2 : g2[q].depth = 2 => g2[q].own \in Space /\ r[g2[q].own] = q
  BY <1>1, <1>3, <1>6 DEF Tree
<1>10. \A q \in u2 : g2[q].depth # 2 =>
         /\ g2[q].parent \in Tables(u2)
         /\ m2[g2[q].parent][g2[q].index] = Table(q)
  <2> SUFFICES ASSUME NEW q \in u2, g2[q].depth # 2
               PROVE  /\ g2[q].parent \in Tables(u2)
                      /\ m2[g2[q].parent][g2[q].index] = Table(q)
    OBVIOUS
  <2>1. CASE q = p
    <3>1. g2[p].parent = t /\ g2[p].index = i
      BY <1>1
    <3> QED BY <1>3, <1>5, <2>1, <3>1
  <2>2. CASE q # p
    <3>1. q \in u /\ g2[q] = g[q]
      BY <1>1, <1>3, <2>2
    <3>2. /\ g[q].parent \in Tables(u)
          /\ m[g[q].parent][g[q].index] = Table(q)
      BY <1>6, <3>1 DEF Tree
    <3>3. g[q].index \in Idx
      BY <3>1 DEF TreeOK, Shape, Place
    <3>4. CASE g[q].parent = t
      <4>1. g[q].index # i
        BY <3>2, <3>4, EntryKinds
      <4> QED BY <1>3, <1>5, <3>1, <3>2, <3>3, <3>4, <4>1
    <3>5. CASE g[q].parent # t
      BY <1>1, <1>3, <3>1, <3>2, <3>5, ZenonT(40)
    <3> QED BY <3>4, <3>5
  <2> QED BY <2>1, <2>2
<1>11. \A x \in Tables(u2), j \in Idx : IsTable(m2[x][j]) =>
         m2[x][j].page \in u2 /\ Hangs(g2, m2[x][j].page, x, j)
  <2> SUFFICES ASSUME NEW x \in Tables(u2), NEW j \in Idx, IsTable(m2[x][j])
               PROVE  m2[x][j].page \in u2 /\ Hangs(g2, m2[x][j].page, x, j)
    OBVIOUS
  <2>1. x # p
    BY <1>1, <1>2
  <2>2. x \in Tables(u) /\ g2[x] = g[x]
    BY <1>1, <1>3, <2>1
  <2>3. First(g2, x, j) = First(g, x, j)
    BY <2>2 DEF First
  <2>4. CASE x = t /\ j = i
    <3>1. m2[x][j].page = p
      BY <1>5, <2>4, EntryKinds
    <3>2. Hangs(g2, p, t, i)
      BY <1>1, <2>2, <2>3, <2>4 DEF Hangs
    <3> QED BY <1>3, <2>4, <3>1, <3>2
  <2>5. CASE ~(x = t /\ j = i)
    <3>1. m2[x][j] = m[x][j]
      BY <1>1, <1>5, <2>2, <2>5
    <3>2. m[x][j].page \in u /\ Hangs(g, m[x][j].page, x, j)
      BY <1>6, <2>2, <3>1 DEF Tree
    <3>3. g2[m[x][j].page] = g[m[x][j].page]
      BY <1>1, <1>3, <3>2
    <3> QED BY <1>3, <2>2, <2>3, <3>1, <3>2, <3>3 DEF Hangs
  <2> QED BY <2>4, <2>5
<1>12. Tree(m2, u2, r, g2)
  BY <1>7, <1>8, <1>9, <1>10, <1>11 DEF Tree
<1>13. Contents(m2, u2, g2)
  <2> SUFFICES ASSUME NEW x \in Tables(u2), NEW j \in Idx
               PROVE  /\ First(g2, x, j) < SPLIT =>
                           \/ m2[x][j] = Invalid
                           \/ g2[x].depth # 0 /\ IsTable(m2[x][j])
                           \/ /\ g2[x].depth = 0 /\ g2[x].own # None
                              /\ \E ppn \in Frame :
                                   m2[x][j] = Leaf(ppn, "user")
                      /\ g2[x].depth = 2 /\ j >= SPLIT /\ j \notin MappedFirst =>
                           m2[x][j] = KernelRoot[j]
    BY DEF Contents
  <2>1. CASE x = p
    <3>1. First(g2, x, j) = First(g, t, i) /\ g2[x].depth # 2
      BY <1>1, <2>1 DEF First
    <3>2. First(g, t, i) < SPLIT => m[t][i] = Invalid
      BY <1>6 DEF Contents
    <3>3. m[t][i] = Invalid => e[j] = Invalid
      BY <1>1, ExpandedType DEF e
    <3> QED BY <1>1, <2>1, <3>1, <3>2, <3>3
  <2>2. CASE x # p
    <3>1. x \in Tables(u) /\ g2[x] = g[x] /\ First(g2, x, j) = First(g, x, j)
      BY <1>1, <1>3, <2>2 DEF First
    <3>2. CASE x = t /\ j = i
      <4>1. IsTable(m2[x][j])
        BY <1>5, <3>2, EntryKinds
      <4>2. g2[x].depth # 0
        BY <3>1, <3>2
      <4>3. g2[x].depth = 2 => j < SPLIT \/ j \in MappedFirst
        BY <3>1, <3>2 DEF MayDescend, First
      <4>4. j < SPLIT => ~(j >= SPLIT)
        BY KernelRootFacts DEF Idx
      <4> QED BY <4>1, <4>2, <4>3, <4>4
    <3>3. CASE ~(x = t /\ j = i)
      <4>1. m2[x][j] = m[x][j]
        BY <1>1, <1>5, <3>1, <3>3
      <4> QED BY <1>6, <3>1, <4>1 DEF Contents
    <3> QED BY <3>2, <3>3
  <2> QED BY <2>1, <2>2
<1> QED BY <1>1, <1>12, <1>13 DEF TreeOK

LEMMA SplitWalk ==
  ASSUME NEW m, NEW u, NEW r, NEW g, TreeOK(m, u, r, g),
         NEW t \in Tables(u), NEW d \in {1, 2}, g[t].depth = d,
         NEW i \in Idx, ~IsTable(m[t][i]),
         NEW p, NEW m2, NEW u2, NEW g2,
         NewTable(m, u, r, g, t, d, i, p, m2, u2, g2),
         NEW x \in Tables(u), g[x].depth = 2, NEW va \in VPage
  PROVE  WalkIn(m2, x, va) = WalkIn(m, x, va)
<1> DEFINE e2 == m[x][va[1]]
           e1 == m[e2.page][va[2]]
<1>a. Tables(u) \subseteq Page \cup {Early} /\ m[t][i] \in Entry
  BY DEF TreeOK, Shape, Mem, Tables
<1>1. /\ p \in Page /\ p \notin u /\ p # Early /\ p # t
      /\ m[t][i] \in Entry
      /\ m2[p] = Expanded(m[t][i], d - 1)
      /\ m2[t] = [m[t] EXCEPT ![i] = Table(p)]
      /\ \A q \in Tables(u) : q # t => m2[q] = m[q]
      /\ \A q \in Tables(u) : q # p
  BY <1>a DEF NewTable, Tables
<1>2. va[1] \in Idx /\ va[2] \in Idx /\ va[3] \in Idx
  BY VPages
<1>3. m[t] \in [Idx -> Entry]
  BY DEF TreeOK, Shape, Mem, Tables
<1>4. /\ m2[t][i] = Table(p)
      /\ \A j \in Idx : j # i => m2[t][j] = m[t][j]
  BY <1>1, <1>3
<1>5. u \subseteq Tables(u)
  BY DEF Tables
\* The entry that is broken up is an entry of this root.
<1>6. CASE x = t /\ va[1] = i
  <2>1. d = 2 /\ WalkIn(m, x, va) = Part1(m[t][i], va[2], va[3])
    BY <1>6 DEF WalkIn
  <2>2. m2[p] = Expanded(m[t][i], 1)
    <3>1. d - 1 = 1
      BY <2>1
    <3> QED BY <1>1, <3>1
  <2>3. ~IsTable(m2[p][va[2]])
    BY <1>1, <1>2, <2>2, ExpandedType
  <2>4. WalkIn(m2, x, va) = Part0(m2[p][va[2]], va[3])
    BY <1>4, <1>6, <2>3, EntryKinds DEF WalkIn
  <2> QED BY <1>1, <1>2, <2>1, <2>2, <2>4, SameParts
<1>7. CASE ~(x = t /\ va[1] = i)
  <2>1. m2[x][va[1]] = e2
    BY <1>1, <1>2, <1>4, <1>7
  <2>2. CASE ~IsTable(e2)
    BY <2>1, <2>2 DEF WalkIn
  <2>3. CASE IsTable(e2)
    <3>1. e2.page \in u /\ Hangs(g, e2.page, x, va[1])
      BY <1>2, <2>3 DEF TreeOK, Tree
    <3>2. g[e2.page].depth = 1
      BY <3>1 DEF Hangs, TreeOK, Shape, Place
    <3>3. IsTable(e1) => /\ e1.page \in u /\ g[e1.page].depth = 0
      <4>1. IsTable(e1) => e1.page \in u /\ Hangs(g, e1.page, e2.page, va[2])
        BY <1>2, <1>5, <3>1 DEF TreeOK, Tree
      <4>2. \A q \in u : g[q].depth \in 0..2
        BY DEF TreeOK, Shape, Place
      <4>3. IsTable(e1) => g[e1.page].depth + 1 = 1 /\ g[e1.page].depth \in 0..2
        BY <3>2, <4>1, <4>2 DEF Hangs
      <4>4. \A n \in 0..2 : n + 1 = 1 => n = 0
        OBVIOUS
      <4> HIDE DEF e1
      <4> QED BY <4>1, <4>3, <4>4
    <3>4. IsTable(e1) => m2[e1.page] = m[e1.page]
      <4>1. IsTable(e1) => e1.page # t
        <5>1. d # 0
          OBVIOUS
        <5> HIDE DEF e1
        <5> QED BY <3>3, <5>1
      <4> QED BY <1>1, <1>5, <3>3, <4>1
    <3>5. CASE e2.page = t /\ va[2] = i
      <4>1. ~IsTable(e1) /\ d = 1 /\ e1 = m[t][i]
        BY <3>2, <3>5
      <4>2. WalkIn(m, x, va) = Part0(m[t][i], va[3])
        BY <2>3, <4>1 DEF WalkIn
      <4>3. m2[p] = Expanded(m[t][i], 0)
        <5>1. d - 1 = 0
          BY <4>1
        <5> QED BY <1>1, <5>1
      <4>4. WalkIn(m2, x, va) = m2[p][va[3]]
        BY <1>4, <2>1, <2>3, <3>5, EntryKinds DEF WalkIn
      <4> QED BY <1>1, <1>2, <4>2, <4>3, <4>4, SameParts
    <3>6. CASE ~(e2.page = t /\ va[2] = i)
      <4>1. m2[e2.page][va[2]] = e1
        BY <1>1, <1>2, <1>4, <1>5, <3>1, <3>6
      <4> QED BY <2>1, <2>3, <3>4, <4>1 DEF WalkIn
    <3> QED BY <3>5, <3>6
  <2> QED BY <2>2, <2>3
<1> QED BY <1>6, <1>7

\* What a descent from the root tables x to the table c below entry i of t
\* leaves behind: a tree with every table where it was and c in its place,
\* and no translation changed.
Below(m, u, r, g, t, i, c, m2, u2, g2) ==
  /\ TreeOK(m2, u2, r, g2)
  /\ u \subseteq u2
  /\ \A q \in Tables(u) : g2[q] = g[q]
  /\ c \in u2
  /\ m2[t][i] = Table(c)
  /\ Hangs(g2, c, t, i)
  /\ \A x \in Tables(u) : g[x].depth = 2 =>
       \A va \in VPage : WalkIn(m2, x, va) = WalkIn(m, x, va)

\* No table is None, which stands for a descent that ran out of memory.
LEMMA NotNone == \A u : u \subseteq Page => \A t \in Tables(u) : t # None
BY PageTableAssumption DEF Tables

LEMMA DescendFacts ==
  ASSUME NEW m, NEW u, NEW r, NEW g, TreeOK(m, u, r, g),
         NEW t \in Tables(u), NEW d \in {1, 2}, g[t].depth = d,
         NEW i \in Idx, MayDescend(g, t, i),
         NEW st, st = [mem |-> m, used |-> u, at |-> t]
  PROVE  \/ Descend(st, i, d - 1).at = None
         \/ \E g2 : Below(m, u, r, g, t, i, Descend(st, i, d - 1).at,
                          Descend(st, i, d - 1).mem,
                          Descend(st, i, d - 1).used, g2)
<1>1. st.mem = m /\ st.used = u /\ st.at = t
  OBVIOUS
<1>2. t # None
  BY NotNone DEF TreeOK, Shape
<1>3. CASE IsTable(m[t][i])
  <2>1. m[t][i].page \in u /\ Hangs(g, m[t][i].page, t, i)
    BY <1>3 DEF TreeOK, Tree
  <2>2. m[t][i] = Table(m[t][i].page)
    <3>1. m[t][i] \in Entry
      BY DEF TreeOK, Shape, Mem, Tables
    <3> QED BY <1>3, <3>1, EntryCases, EntryKinds
  <2>3. Below(m, u, r, g, t, i, m[t][i].page, m, u, g)
    BY <2>1, <2>2 DEF Below
  <2>4. Descend(st, i, d - 1) = [st EXCEPT !.at = m[t][i].page]
    BY <1>1, <1>2, <1>3 DEF Descend
  <2>5. /\ Descend(st, i, d - 1).at = m[t][i].page
        /\ Descend(st, i, d - 1).mem = m
        /\ Descend(st, i, d - 1).used = u
    BY <2>4
  <2> QED BY <2>3, <2>5
<1>4. CASE ~IsTable(m[t][i]) /\ u = Page
  <2>1. Descend(st, i, d - 1) = [st EXCEPT !.at = None]
    BY <1>1, <1>2, <1>4 DEF Descend
  <2>2. Descend(st, i, d - 1).at = None
    BY <2>1
  <2> QED BY <2>2
<1>5. CASE ~IsTable(m[t][i]) /\ u # Page
  <2> DEFINE p  == alloc_pages(u)
             m2 == [m EXCEPT ![p] = Expanded(m[t][i], d - 1), ![t][i] = Table(p)]
             u2 == u \cup {p}
  <2>1. PICK g2 : NewTable(m, u, r, g, t, d, i, p, m2, u2, g2)
    BY <1>5, SplitFacts
  <2>2. Descend(st, i, d - 1) = [mem |-> m2, used |-> u2, at |-> p]
    BY <1>1, <1>2, <1>5 DEF Descend
  <2> HIDE DEF p, m2, u2
  <2>3. TreeOK(m2, u2, r, g2)
    BY <1>5, <2>1, SplitTree
  <2>4. \A x \in Tables(u) : g[x].depth = 2 =>
          \A va \in VPage : WalkIn(m2, x, va) = WalkIn(m, x, va)
    BY <1>5, <2>1, SplitWalk
  <2>5. m[t] \in [Idx -> Entry]
    BY DEF TreeOK, Shape, Mem, Tables
  <2>6. /\ u2 = u \cup {p} /\ p \notin u /\ p # Early /\ p # t /\ t \in Page \cup {Early}
        /\ m2[t][i] = Table(p)
        /\ \A q \in Tables(u) : g2[q] = g[q]
    <3>1. Tables(u) \subseteq Page \cup {Early}
      BY DEF TreeOK, Shape, Tables
    <3> QED BY <2>1, <2>5, <3>1 DEF NewTable, Tables
  <2>7. Hangs(g2, p, t, i)
    <3>1. g2[p] = [own |-> g[t].own, depth |-> d - 1, first |-> First(g, t, i),
                   parent |-> t, index |-> i]
      BY <2>1 DEF NewTable
    <3>2. d - 1 + 1 = d
      BY DepthFacts
    <3>3. g2[t] = g[t] /\ First(g2, t, i) = First(g, t, i)
      BY <2>6 DEF First
    <3> QED BY <3>1, <3>2, <3>3 DEF Hangs
  <2>8. Below(m, u, r, g, t, i, p, m2, u2, g2)
    BY <2>3, <2>4, <2>6, <2>7 DEF Below
  <2> QED BY <2>2, <2>8
<1> QED BY <1>3, <1>4, <1>5

\* A table in the last level is written.
Written(m, t, i, e, m2) ==
  /\ m2[t] = [m[t] EXCEPT ![i] = e]
  /\ \A q \in Page \cup {Early} : q # t => m2[q] = m[q]
  /\ m2 \in Mem

\* An entry that may be written there.
Fits(g, t, i, e) ==
  /\ e \in Entry /\ ~IsTable(e)
  /\ First(g, t, i) < SPLIT =>
       \/ e = Invalid
       \/ g[t].own # None /\ \E ppn \in Frame : e = Leaf(ppn, "user")

LEMMA WriteTree ==
  ASSUME NEW m, NEW u, NEW r, NEW g, TreeOK(m, u, r, g),
         NEW t \in u, g[t].depth = 0, NEW i \in Idx, NEW e, Fits(g, t, i, e),
         NEW m2, Written(m, t, i, e, m2)
  PROVE  TreeOK(m2, u, r, g)
<1>1. /\ Tables(u) \subseteq Page \cup {Early} /\ u \subseteq Tables(u)
      /\ m[t] \in [Idx -> Entry]
  BY DEF TreeOK, Shape, Mem, Tables
<1>2. /\ m2[t][i] = e
      /\ \A x \in Tables(u), j \in Idx : ~(x = t /\ j = i) => m2[x][j] = m[x][j]
  BY <1>1 DEF Written
<1>3. ~IsTable(m[t][i])
  <2> SUFFICES ASSUME IsTable(m[t][i]) PROVE FALSE
    OBVIOUS
  <2>1. m[t][i].page \in u /\ Hangs(g, m[t][i].page, t, i)
    BY <1>1 DEF TreeOK, Tree
  <2>2. g[m[t][i].page].depth \in 0..2 /\ g[m[t][i].page].depth + 1 = 0
    BY <2>1 DEF TreeOK, Shape, Place, Hangs
  <2>3. \A n \in 0..2 : n + 1 # 0
    OBVIOUS
  <2> QED BY <2>2, <2>3
<1>4. Tree(m, u, r, g) /\ Contents(m, u, g) /\ ~IsTable(e)
  BY DEF TreeOK, Fits
<1>5. \A p \in u : g[p].depth # 2 =>
         g[p].parent \in Tables(u) /\ m2[g[p].parent][g[p].index] = Table(p)
  <2> SUFFICES ASSUME NEW p \in u, g[p].depth # 2
               PROVE  g[p].parent \in Tables(u)
                      /\ m2[g[p].parent][g[p].index] = Table(p)
    OBVIOUS
  <2>1. g[p].parent \in Tables(u) /\ m[g[p].parent][g[p].index] = Table(p)
    BY <1>4 DEF Tree
  <2>2. g[p].index \in Idx
    BY DEF TreeOK, Shape, Place
  <2> QED BY <1>2, <1>3, <2>1, <2>2, EntryKinds
<1>6. \A x \in Tables(u), j \in Idx : IsTable(m2[x][j]) =>
        m2[x][j].page \in u /\ Hangs(g, m2[x][j].page, x, j)
  BY <1>2, <1>4 DEF Tree
<1>7. Tree(m2, u, r, g)
  BY <1>4, <1>5, <1>6 DEF Tree
<1>8. Contents(m2, u, g)
  <2> SUFFICES ASSUME NEW x \in Tables(u), NEW j \in Idx
               PROVE  /\ First(g, x, j) < SPLIT =>
                           \/ m2[x][j] = Invalid
                           \/ g[x].depth # 0 /\ IsTable(m2[x][j])
                           \/ /\ g[x].depth = 0 /\ g[x].own # None
                              /\ \E ppn \in Frame :
                                   m2[x][j] = Leaf(ppn, "user")
                      /\ g[x].depth = 2 /\ j >= SPLIT /\ j \notin MappedFirst =>
                           m2[x][j] = KernelRoot[j]
    BY DEF Contents
  <2>1. CASE x = t /\ j = i
    <3>1. g[x].depth # 2
      BY <2>1
    <3> QED BY <1>2, <2>1, <3>1 DEF Fits
  <2>2. CASE ~(x = t /\ j = i)
    BY <1>2, <1>4, <2>2 DEF Contents
  <2> QED BY <2>1, <2>2
<1> QED BY <1>7, <1>8 DEF TreeOK, Shape, Written

\* c is the table below entry va[1] of x, and t below entry va[2] of c.
Path(m, x, va, c, t) == m[x][va[1]] = Table(c) /\ m[c][va[2]] = Table(t)

PageWritten(m, t, va, e, m2) == Written(m, t, va[3], e, m2)

LEMMA WriteWalk ==
  ASSUME NEW m, NEW u, NEW r, NEW g, TreeOK(m, u, r, g),
         NEW x \in Tables(u), g[x].depth = 2, NEW va \in VPage,
         NEW c \in u, NEW t \in u, Path(m, x, va, c, t), g[t].depth = 0,
         NEW e, NEW m2, PageWritten(m, t, va, e, m2)
  PROVE  \A y \in Tables(u) : g[y].depth = 2 => \A w \in VPage :
           WalkIn(m2, y, w) = IF y = x /\ w = va THEN e ELSE WalkIn(m, y, w)
<1> SUFFICES ASSUME NEW y \in Tables(u), g[y].depth = 2, NEW w \in VPage
             PROVE  WalkIn(m2, y, w) = IF y = x /\ w = va THEN e
                                       ELSE WalkIn(m, y, w)
  OBVIOUS
<1> DEFINE e2 == m[y][w[1]]
           e1 == m[e2.page][w[2]]
<1>1. /\ Tables(u) \subseteq Page \cup {Early} /\ u \subseteq Tables(u)
      /\ m[t] \in [Idx -> Entry]
  BY DEF TreeOK, Shape, Mem, Tables
<1>2. /\ w[1] \in Idx /\ w[2] \in Idx /\ w[3] \in Idx /\ w = <<w[1], w[2], w[3]>>
      /\ va[1] \in Idx /\ va[2] \in Idx /\ va[3] \in Idx /\ va = <<va[1], va[2], va[3]>>
  BY VPages
<1>3. Tree(m, u, r, g)
  BY DEF TreeOK
<1>4. Hangs(g, c, x, va[1]) /\ Hangs(g, t, c, va[2])
  BY <1>1, <1>2, <1>3, EntryKinds DEF Tree, Path
<1>5. g[c].depth = 1
  BY <1>4 DEF Hangs, TreeOK, Shape, Place
<1>6. y # t /\ c # t
  BY <1>5
<1>7. /\ m2[t][va[3]] = e
      /\ \A j \in Idx : j # va[3] => m2[t][j] = m[t][j]
      /\ \A q \in Tables(u) : q # t => m2[q] = m[q]
  BY <1>1, <1>2 DEF Written, PageWritten
<1>8. m2[y] = m[y]
  BY <1>6, <1>7
<1>9. CASE ~IsTable(e2)
  <2>1. ~(y = x /\ w = va)
    BY <1>9, EntryKinds DEF Path
  <2>2. WalkIn(m2, y, w) = WalkIn(m, y, w)
    BY <1>8, <1>9 DEF WalkIn
  <2> QED BY <2>1, <2>2
<1>10. CASE IsTable(e2)
  <2>1. e2.page \in u /\ Hangs(g, e2.page, y, w[1])
    BY <1>2, <1>3, <1>10 DEF Tree
  <2>2. e2.page # t
    BY <2>1 DEF Hangs, TreeOK, Shape, Place
  <2>3. m2[e2.page] = m[e2.page]
    BY <1>1, <1>7, <2>1, <2>2
  <2>4. CASE ~IsTable(e1)
    <3>1. ~(y = x /\ w = va)
      BY <2>4, EntryKinds DEF Path
    <3>2. WalkIn(m2, y, w) = WalkIn(m, y, w)
      BY <1>8, <1>10, <2>3, <2>4 DEF WalkIn
    <3> QED BY <3>1, <3>2
  <2>5. CASE IsTable(e1)
    <3>1. e1.page \in u /\ Hangs(g, e1.page, e2.page, w[2])
      BY <1>1, <1>2, <1>3, <2>1, <2>5 DEF Tree
    <3>2. WalkIn(m2, y, w) = m2[e1.page][w[3]] /\ WalkIn(m, y, w) = m[e1.page][w[3]]
      BY <1>8, <1>10, <2>3, <2>5 DEF WalkIn
    <3>3. CASE e1.page = t
      <4>1. e2.page = c /\ w[2] = va[2]
        BY <1>4, <3>1, <3>3 DEF Hangs
      <4>2. y = x /\ w[1] = va[1]
        BY <1>4, <2>1, <4>1 DEF Hangs
      <4>3. w = va <=> w[3] = va[3]
        BY <1>2, <4>1, <4>2
      <4> QED BY <1>2, <1>7, <3>2, <3>3, <4>2, <4>3
    <3>4. CASE e1.page # t
      <4>1. ~(y = x /\ w = va)
        BY <3>4, EntryKinds DEF Path
      <4>2. m2[e1.page] = m[e1.page]
        BY <1>1, <1>7, <3>1, <3>4
      <4> QED BY <3>2, <4>1, <4>2
    <3> QED BY <3>3, <3>4
  <2> QED BY <2>4, <2>5
<1> QED BY <1>9, <1>10

\* What set_page leaves behind when memory does not run out: the page va of
\* the space with the root x has the entry e, and no other translation of any
\* space changed.
PageSet(m, u, r, g, x, va, e, m2, u2, g2) ==
  /\ TreeOK(m2, u2, r, g2)
  /\ u \subseteq u2
  /\ \A q \in Tables(u) : g2[q] = g[q]
  /\ \A y \in Tables(u) : g[y].depth = 2 =>
       \A w \in VPage :
         WalkIn(m2, y, w) = IF y = x /\ w = va THEN e ELSE WalkIn(m, y, w)

LEMMA SetPage ==
  ASSUME NEW g, TreeOK(mem, used, root, g),
         NEW x \in Tables(used), g[x].depth = 2,
         NEW va \in VPage, MayDescend(g, x, va[1]),
         NEW e, Fits(g, x, va[1], e), set_page(x, va, e)
  PROVE  /\ UNCHANGED <<root, current, satp>>
         /\ \/ panicked' # "no" /\ UNCHANGED <<mem, used>>
            \/ /\ panicked' = panicked
               /\ \E g2 : PageSet(mem, used, root, g, x, va, e, mem', used', g2)
<1> DEFINE st1 == ensure_page_2m(x, va)
           st2 == Descend(st1, va[2], 0)
<1>1. va[1] \in Idx /\ va[2] \in Idx /\ va[3] \in Idx
  BY VPages
<1>2. 2 - 1 = 1 /\ 1 - 1 = 0 /\ 2 \in {1, 2} /\ 1 \in {1, 2}
  OBVIOUS
<1>3. \/ st1.at = None
      \/ \E g1 : Below(mem, used, root, g, x, va[1], st1.at, st1.mem, st1.used, g1)
  <2> DEFINE st0 == [mem |-> mem, used |-> used, at |-> x]
  <2>1. st1 = Descend(st0, va[1], 2 - 1)
    BY <1>2 DEF ensure_page_2m
  <2> HIDE DEF st1
  <2>2. \A d \in {1, 2} : g[x].depth = d =>
          \/ Descend(st0, va[1], d - 1).at = None
          \/ \E g1 : Below(mem, used, root, g, x, va[1],
                           Descend(st0, va[1], d - 1).at,
                           Descend(st0, va[1], d - 1).mem,
                           Descend(st0, va[1], d - 1).used, g1)
    BY <1>1, DescendFacts
  <2> HIDE DEF st0
  <2> QED BY <1>2, <2>1, <2>2
<1>4. CASE st2.at = None
  BY <1>4 DEF set_page, panic
<1>5. CASE st2.at # None
  <2>1. st1.at # None
    BY <1>5 DEF Descend
  <2>2. PICK g1 : Below(mem, used, root, g, x, va[1], st1.at, st1.mem, st1.used, g1)
    BY <1>3, <2>1
  <2>3. st1 = [mem |-> st1.mem, used |-> st1.used, at |-> st1.at]
    BY <1>2, NotNone DEF ensure_page_2m, Descend, TreeOK, Shape
  <2> HIDE DEF st1
  <2> DEFINE c == st1.at
             m1 == st1.mem
             u1 == st1.used
  <2> HIDE DEF c, m1, u1
  <2>4. /\ TreeOK(m1, u1, root, g1) /\ used \subseteq u1
        /\ \A q \in Tables(used) : g1[q] = g[q]
        /\ c \in u1 /\ m1[x][va[1]] = Table(c) /\ Hangs(g1, c, x, va[1])
        /\ \A y \in Tables(used) : g[y].depth = 2 =>
             \A w \in VPage : WalkIn(m1, y, w) = WalkIn(mem, y, w)
    BY <2>2 DEF Below, c, m1, u1
  <2>5. st1 = [mem |-> m1, used |-> u1, at |-> c]
    BY <2>3 DEF c, m1, u1
  <2>6. /\ g1[x] = g[x] /\ c \in Tables(u1) /\ x \in Tables(u1)
        /\ Tables(used) \subseteq Tables(u1)
    BY <2>4 DEF Tables
  <2>7. g1[c].depth = 1 /\ g1[c].own = g[x].own /\ First(g1, c, va[2]) = va[1]
        /\ First(g, x, va[1]) = va[1]
    <3>1. g1[c].depth + 1 = 2 /\ g1[c].depth \in 0..2
      BY <2>4, <2>6 DEF Hangs, TreeOK, Shape, Place
    <3>2. g1[c].depth = 1 /\ 1 # 2
      BY <3>1
    <3> QED BY <2>4, <2>6, <3>2 DEF Hangs, First
  <2>8. MayDescend(g1, c, va[2])
    BY <2>7 DEF MayDescend
  <2>9. \/ st2.at = None
        \/ \E g2 : Below(m1, u1, root, g1, c, va[2], st2.at, st2.mem, st2.used, g2)
    <3>1. \A d \in {1, 2} : g1[c].depth = d =>
            \/ Descend(st1, va[2], d - 1).at = None
            \/ \E g2 : Below(m1, u1, root, g1, c, va[2],
                             Descend(st1, va[2], d - 1).at,
                             Descend(st1, va[2], d - 1).mem,
                             Descend(st1, va[2], d - 1).used, g2)
      BY <1>1, <2>4, <2>5, <2>6, <2>8, DescendFacts
    <3> QED BY <1>2, <2>7, <3>1
  <2>10. PICK g2 : Below(m1, u1, root, g1, c, va[2], st2.at, st2.mem, st2.used, g2)
    BY <1>5, <2>9
  <2>11. /\ mem' = [st2.mem EXCEPT ![st2.at][va[3]] = e]
         /\ used' = st2.used
         /\ UNCHANGED <<root, current, satp, panicked>>
    BY <1>5 DEF set_page, st1
  <2> DEFINE t  == st2.at
             m2 == st2.mem
             u2 == st2.used
  <2> HIDE DEF t, m2, u2
  <2>12. /\ TreeOK(m2, u2, root, g2) /\ u1 \subseteq u2
         /\ \A q \in Tables(u1) : g2[q] = g1[q]
         /\ t \in u2 /\ m2[c][va[2]] = Table(t) /\ Hangs(g2, t, c, va[2])
         /\ \A y \in Tables(u1) : g1[y].depth = 2 =>
              \A w \in VPage : WalkIn(m2, y, w) = WalkIn(m1, y, w)
    BY <2>10 DEF Below, t, m2, u2
  <2>13. mem' = [m2 EXCEPT ![t][va[3]] = e] /\ used' = u2
    BY <2>11 DEF t, m2, u2
  <2> HIDE DEF st2
  <2>14. /\ g2[x] = g[x] /\ g2[c] = g1[c] /\ x \in Tables(u2) /\ c \in Tables(u2)
         /\ Tables(u1) \subseteq Tables(u2) /\ t \in Tables(u2) /\ c \in u2
    BY <2>4, <2>6, <2>12 DEF Tables
  <2>15. g2[t].depth = 0 /\ g2[t].own = g[x].own /\ First(g2, t, va[3]) = va[1]
    <3>1. g2[t].depth + 1 = 1 /\ g2[t].depth \in 0..2
      BY <2>7, <2>12, <2>14 DEF Hangs, TreeOK, Shape, Place
    <3>2. g2[t].depth = 0 /\ 0 # 2
      BY <3>1
    <3> QED BY <2>7, <2>12, <2>14, <3>2 DEF Hangs, First
  <2>16. Fits(g2, t, va[3], e)
    BY <2>7, <2>15 DEF Fits
  \* The descent from c left the entry of x that leads to c alone.
  <2>17. m2[x][va[1]] = Table(c)
    <3>1. g2[c].depth # 2 /\ g2[c].parent = x /\ g2[c].index = va[1]
      BY <2>4, <2>7, <2>14 DEF Hangs
    <3> QED BY <2>12, <2>14, <3>1 DEF TreeOK, Tree
  <2>18. Written(m2, t, va[3], e, mem')
    <3>1. m2 \in Mem /\ t \in Page \cup {Early}
      BY <2>12, <2>14 DEF TreeOK, Shape, Tables
    <3>2. e \in Entry
      BY DEF Fits
    <3> QED BY <1>1, <2>13, <3>1, <3>2 DEF Written, Mem
  <2>19. TreeOK(mem', u2, root, g2)
    BY <1>1, <2>12, <2>15, <2>16, <2>18, WriteTree
  <2>20. \A y \in Tables(u2) : g2[y].depth = 2 => \A w \in VPage :
           WalkIn(mem', y, w) = IF y = x /\ w = va THEN e ELSE WalkIn(m2, y, w)
    <3>1. g2[x].depth = 2 /\ Path(m2, x, va, c, t)
          /\ PageWritten(m2, t, va, e, mem')
      BY <2>12, <2>14, <2>17, <2>18 DEF Path, PageWritten
    <3> QED BY <2>12, <2>14, <2>15, <3>1, WriteWalk
  <2>21. \A y \in Tables(used) : g[y].depth = 2 => \A w \in VPage :
           WalkIn(mem', y, w) = IF y = x /\ w = va THEN e ELSE WalkIn(mem, y, w)
    <3> TAKE y \in Tables(used)
    <3> HAVE g[y].depth = 2
    <3> TAKE w \in VPage
    <3>1. y \in Tables(u1) /\ g1[y] = g[y] /\ y \in Tables(u2) /\ g2[y] = g[y]
      BY <2>4, <2>6, <2>12, <2>14
    <3> QED BY <2>4, <2>12, <2>20, <3>1
  <2>22. PageSet(mem, used, root, g, x, va, e, mem', used', g2)
    <3>1. used \subseteq u2 /\ \A q \in Tables(used) : g2[q] = g[q]
      BY <2>4, <2>6, <2>12
    <3> QED BY <2>13, <2>19, <2>21, <3>1 DEF PageSet
  <2> QED BY <2>11, <2>22
<1> QED BY <1>4, <1>5

-----------------------------------------------------------------------------

(***************************************************************************)
(* What unset_user_pages and destroy_page_table free.                      *)
(***************************************************************************)

LEMMA ParentFacts ==
  ASSUME NEW m, NEW u, NEW r, NEW g, TreeOK(m, u, r, g),
         NEW p \in u, g[p].depth # 2
  PROVE  /\ g[p].parent \in Tables(u) /\ g[p].index \in Idx
         /\ m[g[p].parent][g[p].index] = Table(p)
         /\ Hangs(g, p, g[p].parent, g[p].index)
<1>1. g[p].parent \in Tables(u) /\ m[g[p].parent][g[p].index] = Table(p)
  BY DEF TreeOK, Tree
<1>2. g[p].index \in Idx
  BY DEF TreeOK, Shape, Place
<1> QED BY <1>1, <1>2, EntryKinds DEF TreeOK, Tree

LEMMA SubtablesFacts ==
  ASSUME NEW g, TreeOK(mem, used, root, g), NEW T, T \subseteq used
  PROVE  Subtables(T) = {p \in used : g[p].depth # 2 /\ g[p].parent \in T}
<1>1. ASSUME NEW p \in Subtables(T)
      PROVE  p \in used /\ g[p].depth # 2 /\ g[p].parent \in T
  <2>1. PICK t \in T : \E i \in Idx : mem[t][i] = Table(p)
    BY DEF Subtables
  <2>2. PICK i \in Idx : mem[t][i] = Table(p)
    BY <2>1
  <2>3. t \in Tables(used)
    BY DEF Tables
  <2>4. p \in used /\ Hangs(g, p, t, i)
    BY <2>2, <2>3, EntryKinds DEF TreeOK, Tree
  <2>5. g[p].depth # 2
    BY <2>3, <2>4, DepthCases
  <2> QED BY <2>4, <2>5 DEF Hangs
<1>2. ASSUME NEW p \in used, g[p].depth # 2, g[p].parent \in T
      PROVE  p \in Subtables(T)
  <2>1. p \in Page
    BY DEF TreeOK, Shape
  <2> QED BY <1>2, <2>1, ParentFacts DEF Subtables
<1> QED BY <1>1, <1>2

\* All tables of a space, and those below the user half of its root.
OwnTables(g, u, s) == {p \in u : g[p].own = s}
LowTables(g, u, s) ==
  {p \in u : g[p].own = s /\ g[p].depth # 2 /\ g[p].first < SPLIT}

\* The tables below a set of tables, when none of them is a root.
LEMMA NotTooDeep ==
  ASSUME NEW g, TreeOK(mem, used, root, g), NEW T, T \subseteq used,
         \A p \in T : g[p].depth # 2
  PROVE  Subtables(T) \subseteq used /\ Subtables(Subtables(T)) = {}
<1>1. Subtables(T) \subseteq used
  BY SubtablesFacts
<1>2. ASSUME NEW q \in Subtables(Subtables(T)) PROVE FALSE
  <2>1. q \in used /\ g[q].depth # 2 /\ g[q].parent \in Subtables(T)
    BY <1>1, SubtablesFacts
  <2> DEFINE p == g[q].parent
  <2>2. p \in used /\ g[p].depth # 2 /\ g[p].parent \in T
    BY <2>1, SubtablesFacts
  <2>3. g[p].parent \in used /\ g[g[p].parent].depth # 2
    BY <2>2
  <2>4. Hangs(g, q, p, g[q].index) /\ g[q].index \in Idx
    BY <2>1, ParentFacts
  <2>5. Hangs(g, p, g[p].parent, g[p].index) /\ g[p].index \in Idx
    BY <2>2, ParentFacts
  <2>6. used \subseteq Tables(used)
    BY DEF Tables
  <2> HIDE DEF p
  <2>7. g[p].depth = 1
    BY <2>1, <2>2, <2>4, <2>6, DepthCases
  <2>8. g[p].depth = 0
    BY <2>2, <2>3, <2>5, <2>6, DepthCases
  <2> QED BY <2>7, <2>8
<1> QED BY <1>1, <1>2

LEMMA RootFacts ==
  ASSUME NEW g, TreeOK(mem, used, root, g), NEW s \in Space, root[s] # None
  PROVE  /\ root[s] \in used /\ root[s] \in Tables(used)
         /\ g[root[s]].depth = 2 /\ g[root[s]].own = s
         /\ root[s] # Early /\ root[s] # None /\ s # None
<1>1. root[s] \in used /\ g[root[s]].depth = 2 /\ g[root[s]].own = s
  BY DEF TreeOK, Tree
<1>2. root[s] \in Page
  BY <1>1 DEF TreeOK, Shape
<1> QED BY <1>1, <1>2, PageTableAssumption DEF Tables

LEMMA DestroyedTables ==
  ASSUME NEW g, TreeOK(mem, used, root, g), NEW s \in Space, root[s] # None
  PROVE  /\ ~TooDeep({root[s]}, 2)
         /\ destroyed({root[s]}, 2) = OwnTables(g, used, s)
<1> DEFINE T == {root[s]}
<1>1. /\ root[s] \in used /\ g[root[s]].depth = 2 /\ g[root[s]].own = s
      /\ T \subseteq used /\ used \subseteq Tables(used) /\ s # None
  BY RootFacts DEF Tables
<1>2. Subtables(T) = {p \in used : g[p].depth # 2 /\ g[p].parent \in T}
  BY <1>1, SubtablesFacts
<1>3. Subtables(T) \subseteq used /\ \A p \in Subtables(T) : g[p].depth # 2
  BY <1>2
<1>4. Subtables(Subtables(T)) =
        {p \in used : g[p].depth # 2 /\ g[p].parent \in Subtables(T)}
  <2> DEFINE U == Subtables(T)
  <2>1. U \subseteq used
    BY <1>3
  <2> HIDE DEF U, T
  <2>2. Subtables(U) = {p \in used : g[p].depth # 2 /\ g[p].parent \in U}
    BY <2>1, SubtablesFacts
  <2> QED BY <2>2 DEF U
<1>5. ~TooDeep(T, 2)
  BY <1>3, NotTooDeep DEF TooDeep
<1>6. \A p \in used : g[p].depth # 2 =>
        /\ g[p].parent \in Tables(used) /\ g[p].index \in Idx
        /\ Hangs(g, p, g[p].parent, g[p].index)
  BY ParentFacts
<1>7. \A p \in Subtables(T) : g[p].own = s
  BY <1>1, <1>2, <1>6 DEF Hangs
<1>8. \A p \in Subtables(Subtables(T)) : g[p].own = s
  BY <1>4, <1>6, <1>7 DEF Hangs
<1>9. ASSUME NEW p \in used, g[p].own = s, g[p].depth # 2
      PROVE  g[p].parent \in used /\ g[g[p].parent].own = s
  <2>1. g[p].parent \in Tables(used) /\ g[g[p].parent].own = s
    BY <1>6, <1>9 DEF Hangs
  <2>2. g[p].parent # Early
    BY <1>1, <2>1 DEF TreeOK, Tree
  <2> QED BY <2>1, <2>2 DEF Tables
<1>10. \A p \in used : g[p].own = s /\ g[p].depth = 2 => p = root[s]
  BY DEF TreeOK, Tree
<1>11. ASSUME NEW p \in used, g[p].own = s
       PROVE  p \in T \cup Subtables(T) \cup Subtables(Subtables(T))
  <2>1. CASE g[p].depth = 2
    BY <1>10, <1>11, <2>1
  <2>2. CASE g[p].depth # 2
    <3> DEFINE q == g[p].parent
    <3>1. q \in used /\ g[q].own = s
      BY <1>9, <1>11, <2>2
    <3>2. CASE g[q].depth = 2
      BY <1>2, <1>10, <2>2, <3>1, <3>2
    <3>3. CASE g[q].depth # 2
      <4>1. g[q].parent \in used /\ g[g[q].parent].own = s
        BY <1>9, <3>1, <3>3
      <4>2. g[g[q].parent].depth = 2
        <5>1. Hangs(g, p, q, g[p].index) /\ g[p].index \in Idx
          BY <1>6, <2>2
        <5>2. Hangs(g, q, g[q].parent, g[q].index) /\ g[q].index \in Idx
          BY <1>6, <3>1, <3>3
        <5> HIDE DEF q
        <5>3. g[q].depth = 1
          BY <1>1, <3>1, <3>3, <5>1, DepthCases
        <5>4. g[q].depth # 0
          BY <5>3
        <5> QED BY <1>1, <3>1, <4>1, <5>2, <5>4, DepthCases
      <4>3. g[q].parent = root[s]
        BY <1>10, <4>1, <4>2
      <4>4. q \in Subtables(T)
        BY <1>2, <3>1, <3>3, <4>3
      <4> QED BY <1>4, <2>2, <4>4
    <3> QED BY <3>2, <3>3
  <2> QED BY <2>1, <2>2
<1>12. T \cup Subtables(T) \cup Subtables(Subtables(T)) = OwnTables(g, used, s)
  BY <1>1, <1>3, <1>4, <1>7, <1>8, <1>11 DEF OwnTables
<1> QED BY <1>5, <1>12 DEF destroyed

\* subs are the tables that the loop of unset_user_pages frees with all below.
LEMMA ClearedTables ==
  ASSUME NEW g, TreeOK(mem, used, root, g), NEW s \in Space, root[s] # None,
         NEW subs,
         subs = {mem[root[s]][i].page :
                   i \in {j \in UserEntries : IsTable(mem[root[s]][j])}}
  PROVE  ~TooDeep(subs, 1) /\ destroyed(subs, 1) = LowTables(g, used, s)
<1>1. /\ root[s] \in used /\ root[s] \in Tables(used) /\ s # None
      /\ g[root[s]].depth = 2 /\ g[root[s]].own = s /\ used \subseteq Tables(used)
  BY RootFacts DEF Tables
<1>2. UserEntries \subseteq Idx /\ \A i \in Idx : i \in UserEntries <=> i < SPLIT
  BY KernelRootFacts, PageTableAssumption DEF UserEntries, Idx
<1>3. \A p \in used : g[p].depth # 2 =>
        /\ g[p].parent \in Tables(used) /\ g[p].index \in Idx
        /\ mem[g[p].parent][g[p].index] = Table(p)
        /\ Hangs(g, p, g[p].parent, g[p].index)
  BY ParentFacts
<1>4. subs = {p \in used : g[p].depth # 2 /\ g[p].parent = root[s]
                           /\ g[p].index < SPLIT}
  <2>1. ASSUME NEW p \in subs
        PROVE  /\ p \in used /\ g[p].depth # 2 /\ g[p].parent = root[s]
               /\ g[p].index < SPLIT
    <3>1. PICK i \in UserEntries : IsTable(mem[root[s]][i])
                                   /\ p = mem[root[s]][i].page
      OBVIOUS
    <3>2. i \in Idx /\ i < SPLIT
      BY <1>2
    <3>3. p \in used /\ Hangs(g, p, root[s], i)
      BY <1>1, <3>1, <3>2 DEF TreeOK, Tree
    <3>4. g[p].depth # 2
      BY <1>1, <3>2, <3>3, DepthCases
    <3> QED BY <3>2, <3>3, <3>4 DEF Hangs
  <2>2. ASSUME NEW p \in used, g[p].depth # 2, g[p].parent = root[s],
               g[p].index < SPLIT
        PROVE  p \in subs
    <3>1. g[p].index \in UserEntries /\ mem[root[s]][g[p].index] = Table(p)
      BY <1>2, <1>3, <2>2
    <3> QED BY <3>1, EntryKinds
  <2> QED BY <2>1, <2>2
<1>5. subs \subseteq used /\ \A p \in subs : g[p].depth # 2
  BY <1>4
<1>6. ~TooDeep(subs, 1)
  <2>1. 1 # 2
    OBVIOUS
  <2> QED BY <1>5, <2>1, NotTooDeep DEF TooDeep
<1>7. Subtables(subs) = {p \in used : g[p].depth # 2 /\ g[p].parent \in subs}
  BY <1>5, SubtablesFacts
<1>8. \A p \in subs : g[p].own = s /\ g[p].first < SPLIT
  BY <1>1, <1>3, <1>4 DEF Hangs, First
<1>9. \A p \in Subtables(subs) : g[p].own = s /\ g[p].first < SPLIT
  BY <1>3, <1>5, <1>7, <1>8 DEF Hangs, First
<1>10. ASSUME NEW p \in used, g[p].own = s, g[p].depth # 2, g[p].first < SPLIT
       PROVE  p \in subs \cup Subtables(subs)
  <2> DEFINE q == g[p].parent
  <2>1. Hangs(g, p, q, g[p].index) /\ g[p].index \in Idx /\ q \in Tables(used)
    BY <1>3, <1>10
  <2>2. q \in used /\ g[q].own = s
    <3>1. g[q].own = s
      BY <1>10, <2>1 DEF Hangs
    <3>2. q # Early
      BY <1>1, <3>1 DEF TreeOK, Tree
    <3> QED BY <2>1, <3>1, <3>2 DEF Tables
  <2>3. CASE g[q].depth = 2
    <3>1. q = root[s]
      BY <2>2, <2>3 DEF TreeOK, Tree
    <3>2. g[p].index < SPLIT
      BY <1>10, <2>1, <2>3 DEF Hangs, First
    <3> QED BY <1>4, <1>10, <3>1, <3>2
  <2>4. CASE g[q].depth # 2
    <3>1. Hangs(g, q, g[q].parent, g[q].index) /\ g[q].index \in Idx
          /\ g[q].parent \in Tables(used)
      BY <1>3, <2>2, <2>4
    <3>2. g[g[q].parent].own = s
      BY <2>2, <3>1 DEF Hangs
    <3>3. g[q].parent \in used
      <4>1. g[q].parent # Early
        BY <1>1, <3>2 DEF TreeOK, Tree
      <4> QED BY <3>1, <4>1 DEF Tables
    <3>4. g[g[q].parent].depth = 2
      <4> HIDE DEF q
      <4>1. g[q].depth = 1
        BY <2>1, <2>2, <2>4, DepthCases
      <4>2. g[q].depth # 0
        BY <4>1
      <4> QED BY <2>2, <3>1, <4>2, DepthCases
    <3>5. g[q].parent = root[s]
      BY <3>2, <3>3, <3>4 DEF TreeOK, Tree
    <3>6. g[q].index < SPLIT
      <4>1. g[q].first = g[q].index
        BY <3>1, <3>4 DEF Hangs, First
      <4>2. g[p].first = g[q].first
        BY <2>1, <2>4 DEF Hangs, First
      <4> QED BY <1>10, <4>1, <4>2
    <3>7. q \in subs
      BY <1>4, <2>2, <2>4, <3>5, <3>6
    <3> QED BY <1>7, <1>10, <3>7
  <2> QED BY <2>3, <2>4
<1>11. subs \cup Subtables(subs) = LowTables(g, used, s)
  BY <1>5, <1>7, <1>8, <1>9, <1>10 DEF LowTables
<1>12. destroyed(subs, 1) = subs \cup Subtables(subs)
  <2>1. 1 # 2
    OBVIOUS
  <2> QED BY <2>1 DEF destroyed
<1> QED BY <1>6, <1>11, <1>12

\* The tables of gone are freed, the memory is then m2 and the roots are r2.
Removed(m, u, r, g, gone, m2, r2) ==
  /\ gone \subseteq u /\ m2 \in Mem /\ r2 \in [Space -> Page \cup {None}]
  /\ \A q \in Tables(u) \ gone : \A i \in Idx :
       \/ m2[q][i] = m[q][i]
       \/ g[q].depth = 2 /\ i < SPLIT /\ m2[q][i] = Invalid
  /\ \A q \in Tables(u) \ gone : \A i \in Idx :
       IsTable(m2[q][i]) => m2[q][i].page \notin gone
  /\ \A p \in u \ gone : g[p].depth # 2 =>
       g[p].parent \notin gone /\ m2[g[p].parent][g[p].index] = Table(p)
  /\ \A s \in Space : r2[s] # None => r2[s] = r[s] /\ r[s] \notin gone
  /\ \A p \in u \ gone : g[p].depth = 2 => r2[g[p].own] = p

LEMMA RemoveTree ==
  ASSUME NEW m, NEW u, NEW r, NEW g, TreeOK(m, u, r, g),
         NEW gone, NEW m2, NEW r2, Removed(m, u, r, g, gone, m2, r2)
  PROVE  TreeOK(m2, u \ gone, r2, g)
<1> USE DEF Removed
<1> DEFINE v == u \ gone
<1>1. /\ Tables(v) = Tables(u) \ gone /\ v \subseteq u /\ Early \in Tables(v)
      /\ v \subseteq Tables(v) /\ v \subseteq Page
  <2>1. u \subseteq Page /\ Early \notin Page
    BY PageTableAssumption DEF TreeOK, Shape
  <2> QED BY <2>1 DEF Tables
<1>2. Tree(m, u, r, g) /\ Contents(m, u, g)
  BY DEF TreeOK
<1>3. Shape(m2, v, r2, g)
  BY <1>1 DEF TreeOK, Shape
<1>4. \A s \in Space : r2[s] # None =>
        r2[s] \in v /\ g[r2[s]].depth = 2 /\ g[r2[s]].own = s
  BY <1>2 DEF Tree
<1>5. \A p \in v : g[p].depth = 2 => g[p].own \in Space /\ r2[g[p].own] = p
  BY <1>2 DEF Tree
<1>6. \A p \in v : g[p].depth # 2 =>
        g[p].parent \in Tables(v) /\ m2[g[p].parent][g[p].index] = Table(p)
  BY <1>1, <1>2 DEF Tree
<1>7. \A t \in Tables(v), i \in Idx : IsTable(m2[t][i]) =>
        m2[t][i].page \in v /\ Hangs(g, m2[t][i].page, t, i)
  <2> SUFFICES ASSUME NEW t \in Tables(v), NEW i \in Idx, IsTable(m2[t][i])
               PROVE  m2[t][i].page \in v /\ Hangs(g, m2[t][i].page, t, i)
    OBVIOUS
  <2>1. t \in Tables(u) \ gone
    BY <1>1
  <2>2. m2[t][i] # Invalid
    BY EntryKinds
  <2>3. m2[t][i] = m[t][i] /\ m2[t][i].page \notin gone
    BY <2>1, <2>2
  <2> QED BY <1>2, <2>1, <2>3 DEF Tree
<1>8. Tree(m2, v, r2, g)
  BY <1>2, <1>4, <1>5, <1>6, <1>7 DEF Tree
<1>9. Contents(m2, v, g)
  <2> SUFFICES ASSUME NEW x \in Tables(v), NEW j \in Idx
               PROVE  /\ First(g, x, j) < SPLIT =>
                           \/ m2[x][j] = Invalid
                           \/ g[x].depth # 0 /\ IsTable(m2[x][j])
                           \/ /\ g[x].depth = 0 /\ g[x].own # None
                              /\ \E ppn \in Frame :
                                   m2[x][j] = Leaf(ppn, "user")
                      /\ g[x].depth = 2 /\ j >= SPLIT /\ j \notin MappedFirst =>
                           m2[x][j] = KernelRoot[j]
    BY DEF Contents
  <2>1. x \in Tables(u) \ gone
    BY <1>1
  <2>2. CASE m2[x][j] = m[x][j]
    BY <1>2, <2>1, <2>2 DEF Contents
  <2>3. CASE g[x].depth = 2 /\ j < SPLIT /\ m2[x][j] = Invalid
    <3>1. ~(j >= SPLIT)
      BY <2>3, KernelRootFacts DEF Idx
    <3> QED BY <2>3, <3>1
  <2> QED BY <2>1, <2>2, <2>3
<1> QED BY <1>3, <1>8, <1>9 DEF TreeOK

LEMMA FreedFacts ==
  ASSUME NEW m \in Mem, NEW gone
  PROVE  /\ Freed(m, gone) \in Mem
         /\ \A q \in Page \cup {Early} : q \notin gone => Freed(m, gone)[q] = m[q]
         /\ \A q \in Page \cup {Early} : \A i \in Idx : q = satp /\ i >= SPLIT =>
              Freed(m, gone)[q][i] = m[q][i]
<1>1. DOMAIN m = Page \cup {Early} /\ m = [q \in Page \cup {Early} |-> m[q]]
      /\ \A q \in Page \cup {Early} : m[q] \in [Idx -> Entry]
  BY DEF Mem
<1>2. \A q \in Page \cup {Early} :
        [i \in Idx |-> IF i >= SPLIT /\ q = satp THEN m[q][i] ELSE Invalid]
          \in [Idx -> Entry]
  BY <1>1, EntryKinds
<1>3. Freed(m, gone) = [q \in Page \cup {Early} |->
        IF q \in gone
          THEN [i \in Idx |-> IF i >= SPLIT /\ q = satp THEN m[q][i] ELSE Invalid]
          ELSE m[q]]
  BY <1>1 DEF Freed
<1>4. Freed(m, gone) \in Mem
  BY <1>1, <1>2, <1>3 DEF Mem
<1>5. \A q \in Page \cup {Early} : q \notin gone => Freed(m, gone)[q] = m[q]
  BY <1>3
<1>6. \A q \in Page \cup {Early} : \A i \in Idx : q = satp /\ i >= SPLIT =>
        Freed(m, gone)[q][i] = m[q][i]
  BY <1>3
<1> QED BY <1>4, <1>5, <1>6

-----------------------------------------------------------------------------

(***************************************************************************)
(* What each call leaves behind.                                           *)
(***************************************************************************)

SameWalks(m, m2, y) == \A va \in VPage : WalkIn(m2, y, va) = WalkIn(m, y, va)

\* create_page_table, when memory does not run out.
Created(g, s, p, g2) ==
  /\ TreeOK(mem', used', root', g2)
  /\ p \in Page /\ p \notin Tables(used)
  /\ root' = [root EXCEPT ![s] = p]
  /\ mem'[p] = KernelRoot
  /\ \A y \in Tables(used) : g[y].depth = 2 => SameWalks(mem, mem', y)

LEMMA CreateStep ==
  ASSUME NEW g, TreeOK(mem, used, root, g), NEW s \in Space, root[s] = None,
         used # Page, mem' = [mem EXCEPT ![alloc_pages(used)] = KernelRoot],
         used' = used \cup {alloc_pages(used)},
         root' = [root EXCEPT ![s] = alloc_pages(used)]
  PROVE  \E p, g2 : Created(g, s, p, g2)
<1> DEFINE p  == alloc_pages(used)
           at == [own |-> s, depth |-> 2, first |-> 0, parent |-> Early,
                  index |-> 0]
           g2 == [g EXCEPT ![p] = at]
<1>1. /\ mem \in Mem /\ used \subseteq Page /\ root \in [Space -> Page \cup {None}]
      /\ g \in [Page \cup {Early} -> Place] /\ Tree(mem, used, root, g)
      /\ Contents(mem, used, g)
  BY DEF TreeOK, Shape
<1>2. p \in Page /\ p \notin used /\ p # Early /\ p \notin Tables(used) /\ p # None
  <2>1. p \in Page /\ p \notin used /\ p # Early
    BY <1>1, AllocFacts
  <2> HIDE DEF p
  <2> QED BY <2>1, PageTableAssumption DEF Tables
<1>3. mem' = [mem EXCEPT ![p] = KernelRoot] /\ used' = used \cup {p}
      /\ root' = [root EXCEPT ![s] = p]
  OBVIOUS
<1> HIDE DEF p
<1>4. at \in Place /\ at.depth = 2 /\ at.own = s
  BY KernelRootFacts DEF Place
<1> HIDE DEF at
<1>5. /\ g2[p] = at /\ g2 \in [Page \cup {Early} -> Place]
      /\ \A q \in Page \cup {Early} : q # p => g2[q] = g[q]
  BY <1>1, <1>2, <1>4
<1> HIDE DEF g2
<1>6. /\ mem' \in Mem /\ mem'[p] = KernelRoot
      /\ \A q \in Page \cup {Early} : q # p => mem'[q] = mem[q]
  BY <1>1, <1>2, <1>3, KernelRootFacts DEF Mem
<1>7. /\ root' \in [Space -> Page \cup {None}] /\ root'[s] = p
      /\ \A x \in Space : x # s => root'[x] = root[x]
  BY <1>1, <1>2, <1>3
<1>8. /\ Tables(used') = Tables(used) \cup {p} /\ used \subseteq Tables(used)
      /\ \A q \in Tables(used) : g2[q] = g[q] /\ mem'[q] = mem[q] /\ q # p
      /\ Early \in Tables(used)
  BY <1>1, <1>2, <1>3, <1>5, <1>6 DEF Tables
<1>9. Shape(mem', used', root', g2)
  BY <1>1, <1>2, <1>3, <1>5, <1>6, <1>7 DEF Shape
<1>10. Tree(mem', used', root', g2)
  <2>1. \A x \in Space : root'[x] # None =>
          root'[x] \in used' /\ g2[root'[x]].depth = 2 /\ g2[root'[x]].own = x
    BY <1>1, <1>3, <1>4, <1>5, <1>7, <1>8 DEF Tree
  <2>2. g2[Early].depth = 2 /\ g2[Early].own = None
    BY <1>1, <1>8 DEF Tree
  <2>3. \A q \in used' : g2[q].depth = 2 =>
          g2[q].own \in Space /\ root'[g2[q].own] = q
    <3> SUFFICES ASSUME NEW q \in used', g2[q].depth = 2
                 PROVE  g2[q].own \in Space /\ root'[g2[q].own] = q
      OBVIOUS
    <3>1. CASE q = p
      BY <1>4, <1>5, <1>7, <3>1
    <3>2. CASE q # p
      <4>1. q \in used /\ g2[q] = g[q]
        BY <1>3, <1>8, <3>2
      <4>2. g[q].own \in Space /\ root[g[q].own] = q
        BY <1>1, <4>1 DEF Tree
      <4>3. g[q].own # s
        <5>1. q # None
          BY <4>1, <1>1, NotNone DEF Tables
        <5> QED BY <4>2, <5>1
      <4> QED BY <1>7, <4>1, <4>2, <4>3
    <3> QED BY <3>1, <3>2
  <2>4. \A q \in used' : g2[q].depth # 2 =>
          /\ g2[q].parent \in Tables(used')
          /\ mem'[g2[q].parent][g2[q].index] = Table(q)
    <3> SUFFICES ASSUME NEW q \in used', g2[q].depth # 2
                 PROVE  /\ g2[q].parent \in Tables(used')
                        /\ mem'[g2[q].parent][g2[q].index] = Table(q)
      OBVIOUS
    <3>1. q # p
      BY <1>4, <1>5
    <3>2. q \in used /\ g2[q] = g[q]
      BY <1>3, <1>8, <3>1
    <3>3. g[q].parent \in Tables(used) /\ mem[g[q].parent][g[q].index] = Table(q)
      BY <1>1, <3>2 DEF Tree
    <3> QED BY <1>8, <3>2, <3>3
  <2>5. \A t \in Tables(used'), i \in Idx : IsTable(mem'[t][i]) =>
          mem'[t][i].page \in used' /\ Hangs(g2, mem'[t][i].page, t, i)
    <3> SUFFICES ASSUME NEW t \in Tables(used'), NEW i \in Idx,
                        IsTable(mem'[t][i])
                 PROVE  mem'[t][i].page \in used'
                        /\ Hangs(g2, mem'[t][i].page, t, i)
      OBVIOUS
    <3>1. t # p
      BY <1>6, KernelRootFacts
    <3>2. t \in Tables(used) /\ mem'[t] = mem[t] /\ g2[t] = g[t]
      BY <1>8, <3>1
    <3>3. mem[t][i].page \in used /\ Hangs(g, mem[t][i].page, t, i)
      BY <1>1, <3>2 DEF Tree
    <3>4. g2[mem[t][i].page] = g[mem[t][i].page]
      BY <1>8, <3>3
    <3> QED BY <1>3, <3>2, <3>3, <3>4 DEF Hangs, First
  <2> QED BY <2>1, <2>2, <2>3, <2>4, <2>5 DEF Tree
<1>11. Contents(mem', used', g2)
  <2> SUFFICES ASSUME NEW x \in Tables(used'), NEW j \in Idx
               PROVE  /\ First(g2, x, j) < SPLIT =>
                           \/ mem'[x][j] = Invalid
                           \/ g2[x].depth # 0 /\ IsTable(mem'[x][j])
                           \/ /\ g2[x].depth = 0 /\ g2[x].own # None
                              /\ \E ppn \in Frame :
                                   mem'[x][j] = Leaf(ppn, "user")
                      /\ g2[x].depth = 2 /\ j >= SPLIT /\ j \notin MappedFirst =>
                           mem'[x][j] = KernelRoot[j]
    BY DEF Contents
  <2>1. CASE x = p
    <3>1. First(g2, x, j) = j
      BY <1>4, <1>5, <2>1 DEF First
    <3> QED BY <1>6, <2>1, <3>1, KernelRootFacts
  <2>2. CASE x # p
    <3>1. /\ x \in Tables(used) /\ mem'[x] = mem[x] /\ g2[x] = g[x]
          /\ First(g2, x, j) = First(g, x, j)
      BY <1>8, <2>2 DEF First
    <3> QED BY <1>1, <3>1 DEF Contents
  <2> QED BY <2>1, <2>2
<1>12. \A y \in Tables(used) : g[y].depth = 2 => SameWalks(mem, mem', y)
  <2> SUFFICES ASSUME NEW y \in Tables(used), g[y].depth = 2, NEW va \in VPage
               PROVE  WalkIn(mem', y, va) = WalkIn(mem, y, va)
    BY DEF SameWalks
  <2>1. mem'[y] = mem[y] /\ \A q \in used : mem'[q] = mem[q]
    BY <1>8
  <2>2. PathKept(mem, mem', used, g, y, va)
    BY <2>1 DEF PathKept
  <2> QED BY <2>2, WalkFrame
<1>13. Created(g, s, p, g2)
  BY <1>2, <1>3, <1>6, <1>9, <1>10, <1>11, <1>12 DEF Created, TreeOK
<1> QED BY <1>13

\* destroy_page_table of the space s, which leaves the other spaces alone.
LEMMA DestroyStep ==
  ASSUME NEW g, TreeOK(mem, used, root, g), NEW s \in Space, root[s] # None,
         mem' = Freed(mem, OwnTables(g, used, s)),
         used' = used \ OwnTables(g, used, s),
         root' = [root EXCEPT ![s] = None]
  PROVE  /\ TreeOK(mem', used', root', g)
         /\ \A y \in Tables(used) : g[y].depth = 2 /\ g[y].own # s =>
              SameWalks(mem, mem', y)
         /\ \A q \in Page \cup {Early} : \A i \in Idx : q = satp /\ i >= SPLIT =>
              mem'[q][i] = mem[q][i]
<1> DEFINE gone == OwnTables(g, used, s)
<1>1. /\ mem \in Mem /\ used \subseteq Page /\ root \in [Space -> Page \cup {None}]
      /\ Tree(mem, used, root, g)
  BY DEF TreeOK, Shape
<1>2. /\ gone \subseteq used /\ used \subseteq Tables(used) /\ s # None
      /\ \A q \in Tables(used) : q \notin gone <=> g[q].own # s
      /\ Tables(used) \subseteq Page \cup {Early}
      /\ root[s] \in used /\ g[root[s]].own = s
  <2>1. g[Early].own = None /\ s # None /\ root[s] \in used /\ g[root[s]].own = s
    BY <1>1, RootFacts DEF Tree
  <2> QED BY <1>1, <2>1 DEF OwnTables, Tables
<1> HIDE DEF gone
<1>3. mem' = Freed(mem, gone) /\ used' = used \ gone
  BY DEF gone
<1>4. /\ mem' \in Mem
      /\ \A q \in Page \cup {Early} : q \notin gone => mem'[q] = mem[q]
      /\ \A q \in Page \cup {Early} : \A i \in Idx : q = satp /\ i >= SPLIT =>
           mem'[q][i] = mem[q][i]
  BY <1>1, <1>3, FreedFacts
<1>5. root' \in [Space -> Page \cup {None}]
      /\ root'[s] = None /\ \A x \in Space : x # s => root'[x] = root[x]
  BY <1>1
<1>6. \A q \in Tables(used) \ gone : mem'[q] = mem[q]
  BY <1>2, <1>4
<1>7. ASSUME NEW q \in Tables(used) \ gone, NEW i \in Idx, IsTable(mem'[q][i])
      PROVE  mem'[q][i].page \notin gone
  <2>1. mem[q][i].page \in used /\ Hangs(g, mem[q][i].page, q, i)
    BY <1>1, <1>6, <1>7 DEF Tree
  <2>2. g[mem[q][i].page].own # s
    BY <1>2, <2>1 DEF Hangs
  <2> QED BY <1>2, <1>6, <2>1, <2>2
<1>8. ASSUME NEW p \in used \ gone, g[p].depth # 2
      PROVE  g[p].parent \notin gone
             /\ mem'[g[p].parent][g[p].index] = Table(p)
  <2>1. /\ g[p].parent \in Tables(used) /\ Hangs(g, p, g[p].parent, g[p].index)
        /\ mem[g[p].parent][g[p].index] = Table(p)
    BY <1>8, ParentFacts
  <2>2. g[g[p].parent].own # s
    BY <1>2, <2>1 DEF Hangs
  <2> QED BY <1>2, <1>6, <2>1, <2>2
<1>9. \A x \in Space : root'[x] # None => root'[x] = root[x] /\ root[x] \notin gone
  <2> SUFFICES ASSUME NEW x \in Space, root'[x] # None
               PROVE  root'[x] = root[x] /\ root[x] \notin gone
    OBVIOUS
  <2>1. x # s /\ root'[x] = root[x]
    BY <1>5
  <2>2. root[x] \in used /\ g[root[x]].own = x
    BY <1>1, <2>1 DEF Tree
  <2> QED BY <1>2, <2>1, <2>2
<1>10. \A p \in used \ gone : g[p].depth = 2 => root'[g[p].own] = p
  BY <1>1, <1>2, <1>5 DEF Tree
<1>11. TreeOK(mem', used \ gone, root', g)
  <2>1. Removed(mem, used, root, g, gone, mem', root')
    BY <1>2, <1>4, <1>5, <1>6, <1>7, <1>8, <1>9, <1>10 DEF Removed
  <2> QED BY <2>1, RemoveTree
<1>12. ASSUME NEW y \in Tables(used), g[y].depth = 2, g[y].own # s, NEW va \in VPage
       PROVE  WalkIn(mem', y, va) = WalkIn(mem, y, va)
  <2>1. mem'[y] = mem[y]
    BY <1>2, <1>6, <1>12
  <2>2. \A p \in used : g[p].own = g[y].own => mem'[p] = mem[p]
    BY <1>2, <1>6, <1>12
  <2>3. PathKept(mem, mem', used, g, y, va)
    BY <2>1, <2>2 DEF PathKept
  <2> QED BY <1>12, <2>3, WalkFrame
<1> QED BY <1>3, <1>4, <1>11, <1>12 DEF SameWalks

\* unset_user_pages of the space s: its upper half and the other spaces stay.
LEMMA ClearStep ==
  ASSUME NEW g, TreeOK(mem, used, root, g), NEW s \in Space, root[s] # None,
         mem' = [Freed(mem, LowTables(g, used, s)) EXCEPT ![root[s]] =
                   [i \in Idx |-> IF i \in UserEntries THEN Invalid ELSE @[i]]],
         used' = used \ LowTables(g, used, s),
         root' = root
  PROVE  /\ TreeOK(mem', used', root', g)
         /\ \A y \in Tables(used) : g[y].depth = 2 /\ y # root[s] =>
              SameWalks(mem, mem', y)
         /\ \A va \in VPage : WalkIn(mem', root[s], va) =
              IF va[1] < SPLIT THEN Invalid ELSE WalkIn(mem, root[s], va)
<1> DEFINE gone == LowTables(g, used, s)
           x    == root[s]
           low  == [i \in Idx |-> IF i \in UserEntries THEN Invalid ELSE mem[x][i]]
<1>1. /\ mem \in Mem /\ used \subseteq Page /\ root \in [Space -> Page \cup {None}]
      /\ Tree(mem, used, root, g)
  BY DEF TreeOK, Shape
<1>2. /\ gone \subseteq used /\ used \subseteq Tables(used)
      /\ \A q \in Tables(used) : q \in gone =>
           g[q].own = s /\ g[q].depth # 2 /\ g[q].first < SPLIT
      /\ \A q \in used : g[q].own = s /\ g[q].depth # 2 /\ g[q].first < SPLIT
           => q \in gone
      /\ Tables(used) \subseteq Page \cup {Early}
      /\ x \in used /\ x \in Tables(used) /\ g[x].depth = 2 /\ g[x].own = s
      /\ s # None
  BY <1>1, RootFacts DEF LowTables, Tables
<1>3. x \notin gone
  BY <1>2
<1>4. UserEntries \subseteq Idx /\ \A i \in Idx : i \in UserEntries <=> i < SPLIT
  BY KernelRootFacts, PageTableAssumption DEF UserEntries, Idx
<1> HIDE DEF gone, x
<1>5. /\ Freed(mem, gone) \in Mem
      /\ \A q \in Page \cup {Early} : q \notin gone => Freed(mem, gone)[q] = mem[q]
  BY <1>1, FreedFacts
<1>6. mem' = [Freed(mem, gone) EXCEPT ![x] = low] /\ used' = used \ gone
  <2>1. Freed(mem, gone)[x] = mem[x]
    BY <1>2, <1>3, <1>5
  <2>2. mem' = [Freed(mem, gone) EXCEPT ![x] =
                  [i \in Idx |-> IF i \in UserEntries THEN Invalid ELSE @[i]]]
    BY DEF gone, x
  <2>3. x \in DOMAIN Freed(mem, gone)
    BY <1>2, <1>5 DEF Mem
  <2> QED BY <2>1, <2>2, <2>3 DEF gone
<1>7. low \in [Idx -> Entry]
  <2>1. mem[x] \in [Idx -> Entry]
    BY <1>1, <1>2 DEF Mem
  <2> QED BY <2>1, EntryKinds
<1>8. \A i \in Idx : low[i] = IF i < SPLIT THEN Invalid ELSE mem[x][i]
  BY <1>4
<1> HIDE DEF low
<1>9. /\ mem' \in Mem /\ mem'[x] = low
      /\ \A q \in Tables(used) : q \notin gone /\ q # x => mem'[q] = mem[q]
  <2>1. \A q \in Page \cup {Early} : mem'[q] =
          IF q = x THEN low ELSE Freed(mem, gone)[q]
    BY <1>2, <1>5, <1>6 DEF Mem
  <2>2. mem' \in Mem
    <3> DEFINE F == Freed(mem, gone)
    <3>1. F \in [Page \cup {Early} -> [Idx -> Entry]]
      BY <1>5 DEF Mem
    <3> HIDE DEF F
    <3>2. [F EXCEPT ![x] = low] \in [Page \cup {Early} -> [Idx -> Entry]]
      BY <1>7, <3>1
    <3> QED BY <1>6, <3>2 DEF Mem, F
  <2> QED BY <1>2, <1>5, <2>1, <2>2
\* What hangs below an entry in the upper half stays.
<1>10. ASSUME NEW q \in Tables(used) \ gone, NEW i \in Idx, IsTable(mem'[q][i])
       PROVE  mem'[q][i].page \notin gone
  <2>1. mem'[q][i] = mem[q][i] /\ (q = x => ~(i < SPLIT))
    <3>1. CASE q = x
      BY <1>8, <1>9, <1>10, <3>1, EntryKinds
    <3>2. CASE q # x
      BY <1>9, <3>2
    <3> QED BY <3>1, <3>2
  <2>2. mem[q][i].page \in used /\ Hangs(g, mem[q][i].page, q, i)
    BY <1>1, <1>10, <2>1 DEF Tree
  <2> DEFINE p == mem[q][i].page
  <2>3. SUFFICES ASSUME p \in gone PROVE FALSE
    BY <2>1
  <2>4. g[p].own = s /\ g[p].first < SPLIT /\ p \in used
    BY <1>2, <2>2, <2>3
  <2>5. g[q].own = s /\ First(g, q, i) < SPLIT
    BY <2>2, <2>4 DEF Hangs
  <2>6. CASE g[q].depth = 2
    <3>1. q # Early
      BY <1>1, <1>2, <2>5 DEF Tree
    <3>2. q = x
      BY <1>1, <2>5, <2>6, <3>1 DEF Tree, Tables, x
    <3> QED BY <2>1, <2>5, <2>6, <3>2 DEF First
  <2>7. CASE g[q].depth # 2
    <3>1. q # Early
      BY <1>1, <2>7 DEF Tree
    <3> QED BY <1>2, <2>5, <2>7, <3>1 DEF First, Tables
  <2> QED BY <2>6, <2>7
<1>11. ASSUME NEW p \in used \ gone, g[p].depth # 2
       PROVE  g[p].parent \notin gone
              /\ mem'[g[p].parent][g[p].index] = Table(p)
  <2> DEFINE q == g[p].parent
  <2>1. /\ q \in Tables(used) /\ Hangs(g, p, q, g[p].index) /\ g[p].index \in Idx
        /\ mem[q][g[p].index] = Table(p)
    BY <1>11, ParentFacts
  <2> HIDE DEF q
  <2>2. q \notin gone
    <3> SUFFICES ASSUME q \in gone PROVE FALSE
      OBVIOUS
    <3>1. g[q].own = s /\ g[q].depth # 2 /\ g[q].first < SPLIT
      BY <1>2, <2>1
    <3>2. g[p].own = s /\ g[p].first < SPLIT
      BY <2>1, <3>1 DEF Hangs, First
    <3> QED BY <1>2, <1>11, <3>2
  <2>3. CASE q = x
    <3>1. g[p].own = s /\ g[p].first = g[p].index
      BY <1>2, <2>1, <2>3 DEF Hangs, First
    <3>2. ~(g[p].index < SPLIT)
      BY <1>2, <1>11, <3>1
    <3> QED BY <1>8, <1>9, <2>1, <2>2, <2>3, <3>2 DEF q
  <2>4. CASE q # x
    BY <1>9, <2>1, <2>2, <2>4 DEF q
  <2> QED BY <2>3, <2>4
<1>12. \A y \in Space : root'[y] # None => root'[y] = root[y] /\ root[y] \notin gone
  BY <1>1, <1>2 DEF Tree
<1>13. \A p \in used \ gone : g[p].depth = 2 => root'[g[p].own] = p
  BY <1>1 DEF Tree
<1>14. \A q \in Tables(used) \ gone : \A i \in Idx :
         \/ mem'[q][i] = mem[q][i]
         \/ g[q].depth = 2 /\ i < SPLIT /\ mem'[q][i] = Invalid
  <2> TAKE q \in Tables(used) \ gone
  <2> TAKE i \in Idx
  <2>1. CASE q = x
    BY <1>2, <1>8, <1>9, <2>1
  <2>2. CASE q # x
    BY <1>9, <2>2
  <2> QED BY <2>1, <2>2
<1>15. TreeOK(mem', used \ gone, root', g)
  <2>1. Removed(mem, used, root, g, gone, mem', root')
    BY <1>1, <1>2, <1>9, <1>10, <1>11, <1>12, <1>13, <1>14 DEF Removed
  <2> QED BY <2>1, RemoveTree
<1>16. ASSUME NEW y \in Tables(used), g[y].depth = 2, y # x, NEW va \in VPage
       PROVE  WalkIn(mem', y, va) = WalkIn(mem, y, va)
  <2>1. g[y].own # s
    BY <1>1, <1>2, <1>16 DEF Tree, Tables, x
  <2>2. mem'[y] = mem[y]
    BY <1>2, <1>9, <1>16, <2>1
  <2>3. \A p \in used : g[p].own = g[y].own => mem'[p] = mem[p]
    BY <1>2, <1>9, <2>1
  <2>4. PathKept(mem, mem', used, g, y, va)
    BY <2>2, <2>3 DEF PathKept
  <2> QED BY <1>16, <2>4, WalkFrame
<1>17. ASSUME NEW va \in VPage
       PROVE  WalkIn(mem', x, va) =
                IF va[1] < SPLIT THEN Invalid ELSE WalkIn(mem, x, va)
  <2>1. va[1] \in Idx
    BY VPages
  <2>2. CASE va[1] < SPLIT
    <3>1. mem'[x][va[1]] = Invalid
      BY <1>8, <1>9, <2>1, <2>2
    <3>2. WalkIn(mem', x, va) = Invalid
      BY <3>1, EntryKinds DEF WalkIn, Part1
    <3> QED BY <2>2, <3>2
  <2>3. CASE ~(va[1] < SPLIT)
    <3>1. mem'[x][va[1]] = mem[x][va[1]]
      BY <1>8, <1>9, <2>1, <2>3
    <3>2. \A p \in used : g[p].depth # 2 /\ g[p].first = va[1] =>
            p \notin gone /\ p # x
      BY <1>2, <2>3
    <3>3. \A p \in used : g[p].depth # 2 /\ g[p].first = va[1] =>
            mem'[p] = mem[p]
      BY <1>2, <1>9, <3>2
    <3>4. PathKept(mem, mem', used, g, x, va)
      BY <3>1, <3>3 DEF PathKept
    <3>5. WalkIn(mem', x, va) = WalkIn(mem, x, va)
      BY <1>2, <3>4, WalkFrame
    <3> QED BY <2>3, <3>5
  <2> QED BY <2>2, <2>3
<1> QED BY <1>6, <1>15, <1>16, <1>17 DEF SameWalks, x

\* In the user half of a space every translation is into the memory of tasks.
LEMMA UserWalk ==
  ASSUME NEW m, NEW u, NEW r, NEW g, TreeOK(m, u, r, g),
         NEW x \in Tables(u), g[x].depth = 2, g[x].own # None,
         NEW va \in VPage, va[1] < SPLIT
  PROVE  \/ WalkIn(m, x, va) = Invalid
         \/ \E ppn \in Frame : WalkIn(m, x, va) = Leaf(ppn, "user")
<1> DEFINE e2 == m[x][va[1]]
           e1 == m[e2.page][va[2]]
<1>1. va[1] \in Idx /\ va[2] \in Idx /\ va[3] \in Idx
  BY VPages
<1>2. Tree(m, u, r, g) /\ Contents(m, u, g) /\ u \subseteq Tables(u)
  BY DEF TreeOK, Tables
<1>3. First(g, x, va[1]) = va[1]
  BY DEF First
<1>4. e2 = Invalid \/ IsTable(e2)
  <2>1. g[x].depth # 0
    OBVIOUS
  <2> QED BY <1>1, <1>2, <1>3, <2>1 DEF Contents
<1>5. CASE e2 = Invalid
  BY <1>5, EntryKinds DEF WalkIn, Part1
<1>6. CASE IsTable(e2)
  <2>1. e2.page \in u /\ Hangs(g, e2.page, x, va[1])
    BY <1>1, <1>2, <1>6 DEF Tree
  <2>2. e2.page \in Tables(u)
    BY <1>2, <2>1
  <2> HIDE DEF e2
  <2>3. g[e2.page].depth = 1 /\ g[e2.page].own = g[x].own
    BY <1>1, <2>1, DepthCases DEF Hangs
  <2>4. First(g, e2.page, va[2]) = va[1]
    BY <1>3, <2>1, <2>3 DEF Hangs, First
  <2>5. e1 = Invalid \/ IsTable(e1)
    <3>1. g[e2.page].depth # 0
      BY <2>3
    <3> QED BY <1>1, <1>2, <2>2, <2>4, <3>1 DEF Contents
  <2>6. CASE e1 = Invalid
    BY <1>6, <2>6, EntryKinds DEF WalkIn, Part0, e2
  <2>7. CASE IsTable(e1)
    <3>1. e1.page \in u /\ Hangs(g, e1.page, e2.page, va[2])
      BY <1>1, <1>2, <2>2, <2>7 DEF Tree
    <3>2. e1.page \in Tables(u)
      BY <1>2, <3>1
    <3> HIDE DEF e1
    <3>3. g[e1.page].depth = 0 /\ g[e1.page].own = g[x].own
      BY <1>1, <2>2, <2>3, <3>1, DepthCases DEF Hangs
    <3>4. First(g, e1.page, va[3]) = va[1]
      BY <2>4, <3>1, <3>3 DEF Hangs, First
    <3>5. \/ m[e1.page][va[3]] = Invalid
          \/ \E ppn \in Frame :
               m[e1.page][va[3]] = Leaf(ppn, "user")
      BY <1>1, <1>2, <3>2, <3>3, <3>4 DEF Contents
    <3>6. WalkIn(m, x, va) = m[e1.page][va[3]]
      BY <1>6, <2>7 DEF WalkIn, e1, e2
    <3> QED BY <3>5, <3>6
  <2> QED BY <2>5, <2>6, <2>7
<1> QED BY <1>4, <1>5, <1>6

-----------------------------------------------------------------------------

(***************************************************************************)
(* The invariant.  While nothing runs, satp may hold a table that is freed *)
(* already: then all that is known of it is that its upper half is as      *)
(* map_kernel_pages left it.                                               *)
(***************************************************************************)

HartOK ==
  /\ current \in Space \cup {None}
  /\ satp \in Page \cup {Early}
  /\ current # None => root[current] # None /\ satp = root[current]
  /\ \A i \in Idx : i >= SPLIT /\ i \notin MappedFirst => mem[satp][i] = KernelRoot[i]

\* No two tasks have a frame in common.
Apart(f) ==
  /\ f \in [Space -> SUBSET Frame]
  /\ \A s, r \in Space : s # r => f[s] \cap f[r] = {}

\* The user half of each space leads to frames of its task.
Framed(m, r, f) ==
  \A s \in Space, va \in UserPage :
    r[s] # None /\ WalkIn(m, r[s], va) # Invalid =>
      WalkIn(m, r[s], va).ppn \in f[s]

FramesOK == Apart(frames) /\ Framed(mem, root, frames)

\* A cached translation of the space whose table is loaded.
CachedOK(s, t) ==
  /\ t[1] \in UserPage /\ t[2] # Invalid => t[2].ppn \in frames[s] \cup given
  /\ ~execd /\ t[2] # Invalid => WalkIn(mem, satp, t[1]) = t[2]

TlbOK ==
  \A t \in tlb : /\ t[1] \in VPage
                 /\ \A s \in Space : root[s] = satp => CachedOK(s, t)

PTree == \E g : TreeOK(mem, used, root, g)

PTInv == PTree /\ HartOK /\ FramesOK /\ TlbOK

\* The root table a space or the boot code runs on.
LEMMA RunningTable ==
  ASSUME NEW g, TreeOK(mem, used, root, g), HartOK, Running
  PROVE  /\ satp \in Tables(used) /\ g[satp].depth = 2
         /\ \A s \in Space : root[s] = satp => current = s
<1>1. g[Early].depth = 2 /\ g[Early].own = None /\ Early \in Tables(used)
  BY DEF TreeOK, Tree, Tables
<1>2. \A s \in Space : root[s] # None =>
        /\ root[s] \in Tables(used) /\ g[root[s]].depth = 2 /\ g[root[s]].own = s
        /\ root[s] # Early
  BY RootFacts
<1>3. CASE current # None
  <2>1. current \in Space /\ root[current] # None /\ satp = root[current]
    BY <1>3 DEF HartOK
  <2> QED BY <1>2, <2>1
<1>4. CASE current = None
  <2>1. satp = Early /\ Early # None
    BY <1>4, PageTableAssumption DEF Running
  <2> QED BY <1>1, <1>2, <2>1
<1> QED BY <1>3, <1>4

\* The upper half of any root is the kernel's.
LEMMA KernelRoots ==
  ASSUME NEW m, NEW u, NEW r, NEW g, TreeOK(m, u, r, g),
         NEW t \in Tables(u), g[t].depth = 2
  PROVE  \A i \in Idx : i >= SPLIT /\ i \notin MappedFirst => m[t][i] = KernelRoot[i]
BY DEF TreeOK, Contents

LEMMA PTInit == Init => PTInv
<1> SUFFICES ASSUME Init PROVE PTInv
  OBVIOUS
<1> DEFINE at == [own |-> None, depth |-> 2, first |-> 0, parent |-> Early,
                  index |-> 0]
           g  == [p \in Page \cup {Early} |-> at]
<1>1. at \in Place /\ at.depth = 2 /\ at.own = None /\ at.first = 0
  BY KernelRootFacts DEF Place
<1> HIDE DEF at
<1>2. /\ g \in [Page \cup {Early} -> Place]
      /\ \A p \in Page \cup {Early} : g[p] = at
  BY <1>1
<1> HIDE DEF g
<1>3. /\ mem = [p \in Page \cup {Early} |-> IF p = Early THEN KernelRoot ELSE Empty]
      /\ used = {} /\ root = [s \in Space |-> None] /\ current = None
      /\ satp = Early /\ tlb = {} /\ frames = [s \in Space |-> {}]
  BY DEF Init, KernelRoot
<1>4. mem \in Mem /\ mem[Early] = KernelRoot
  <2>1. Empty \in [Idx -> Entry]
    BY EntryKinds DEF Empty
  <2> QED BY <1>3, <2>1, KernelRootFacts DEF Mem
<1>5. Tables(used) = {Early}
  BY <1>3 DEF Tables
<1>6. Shape(mem, used, root, g)
  BY <1>2, <1>3, <1>4 DEF Shape
<1>7. Tree(mem, used, root, g)
  BY <1>1, <1>2, <1>3, <1>4, <1>5, KernelRootFacts DEF Tree
<1>8. Contents(mem, used, g)
  <2> SUFFICES ASSUME NEW j \in Idx
               PROVE  /\ First(g, Early, j) < SPLIT => mem[Early][j] = Invalid
                      /\ mem[Early][j] = KernelRoot[j]
    BY <1>5 DEF Contents
  <2>1. First(g, Early, j) = j
    BY <1>1, <1>2 DEF First
  <2> QED BY <1>4, <2>1, KernelRootFacts
<1>9. HartOK
  BY <1>3, <1>4 DEF HartOK
<1>10. TlbOK
  BY <1>3 DEF TlbOK
<1>11. FramesOK
  BY <1>3 DEF FramesOK, Apart, Framed
<1> QED BY <1>6, <1>7, <1>8, <1>9, <1>10, <1>11 DEF PTInv, PTree, TreeOK

\* The table in satp is good when it is that of the current space, or the
\* boot code's.
LEMMA HartFromTree ==
  ASSUME NEW g2, TreeOK(mem', used', root', g2), current' \in Space \cup {None},
         current' # None => root'[current'] # None /\ satp' = root'[current'],
         satp' = Early \/ current' # None
  PROVE  HartOK'
<1>1. Tree(mem', used', root', g2) /\ used' \subseteq Page
  BY DEF TreeOK, Shape
<1>2. /\ satp' \in Tables(used') /\ g2[satp'].depth = 2
      /\ satp' \in Page \cup {Early}
  <2>1. CASE satp' = Early
    BY <1>1, <2>1 DEF Tree, Tables
  <2>2. CASE current' # None
    <3>1. current' \in Space /\ root'[current'] # None /\ satp' = root'[current']
      BY <2>2
    <3>2. root'[current'] \in used' /\ g2[root'[current']].depth = 2
      BY <1>1, <3>1 DEF Tree
    <3> QED BY <1>1, <3>1, <3>2 DEF Tables
  <2> QED BY <2>1, <2>2
<1>3. \A i \in Idx : i >= SPLIT /\ i \notin MappedFirst =>
        mem'[satp'][i] = KernelRoot[i]
  BY <1>2, KernelRoots
<1> QED BY <1>2, <1>3 DEF HartOK

LEMMA MmInitStep ==
  ASSUME NEW g, TreeOK(mem, used, root, g), MmInit
  PROVE  /\ UNCHANGED <<root, frames, current, satp, execd>>
         /\ tlb' = {} /\ satp = Early
         /\ \/ panicked' # "no" /\ UNCHANGED <<mem, used>>
            \/ \E va \in VPage : \E g2 :
                 PageSet(mem, used, root, g, Early, va, Invalid, mem', used', g2)
<1> DEFINE va == <<0, 0, 0>>
<1>1. va \in VPage /\ va[1] = 0
  BY KernelRootFacts DEF VPage
<1> HIDE DEF va
<1>2. Early \in Tables(used) /\ g[Early].depth = 2
  BY DEF TreeOK, Tree, Tables
<1>3. First(g, Early, va[1]) < SPLIT
  BY <1>1, <1>2, KernelRootFacts DEF First
<1>4. MayDescend(g, Early, va[1]) /\ Fits(g, Early, va[1], Invalid)
  BY <1>3, EntryKinds DEF MayDescend, Fits
<1>5. set_page(Early, va, Invalid)
  BY DEF MmInit, va
<1>6. /\ UNCHANGED <<root, current, satp>>
      /\ \/ panicked' # "no" /\ UNCHANGED <<mem, used>>
         \/ /\ panicked' = panicked
            /\ \E g2 : PageSet(mem, used, root, g, Early, va, Invalid, mem', used', g2)
  BY <1>1, <1>2, <1>4, <1>5, SetPage
<1> QED BY <1>1, <1>6 DEF MmInit

\* alloc_pages gives the task of s the frame ppn.
Took(s, ppn) == frames' = [frames EXCEPT ![s] = @ \cup {ppn}]

LEMMA TookApart ==
  ASSUME Apart(frames), NEW s \in Space, NEW ppn \in FreeFrames, Took(s, ppn)
  PROVE  /\ Apart(frames') /\ ppn \in frames'[s]
         /\ \A r \in Space : frames[r] \subseteq frames'[r]
<1>1. /\ ppn \in Frame /\ \A r \in Space : ppn \notin frames[r]
  BY DEF FreeFrames
<1>2. \A r \in Space :
        frames'[r] = IF r = s THEN frames[r] \cup {ppn} ELSE frames[r]
  BY DEF Apart, Took
<1>3. frames' \in [Space -> SUBSET Frame]
  BY <1>1 DEF Apart, Took
<1>4. ASSUME NEW x \in Space, NEW r \in Space, x # r
      PROVE  frames'[x] \cap frames'[r] = {}
  <2>1. frames[x] \cap frames[r] = {}
    BY <1>4 DEF Apart
  <2> QED BY <1>1, <1>2, <1>4, <2>1
<1> QED BY <1>2, <1>3, <1>4 DEF Apart

LEMMA MapStep ==
  ASSUME NEW g, TreeOK(mem, used, root, g), NEW s \in Space, NEW va \in VA[s],
         MapPage(s, va)
  PROVE  /\ UNCHANGED <<root, current, satp, tlb, execd, given>>
         /\ root[s] # None /\ va \in VPage
         /\ \/ UNCHANGED <<mem, used, frames>>
            \/ \E ppn \in FreeFrames :
                 /\ Took(s, ppn) /\ ppn \in Frame
                 /\ \/ UNCHANGED <<mem, used>>
                    \/ \E g2 :
                         PageSet(mem, used, root, g, root[s], va,
                                 Leaf(ppn, "user"), mem', used', g2)
<1>1. root[s] # None
  BY DEF MapPage
<1>2. root[s] \in Tables(used) /\ g[root[s]].depth = 2 /\ g[root[s]].own = s
      /\ s # None
  BY <1>1, RootFacts
<1>3. va \in VPage /\ va[1] \in MappedFirst
  <2>1. va \in Mapped
    BY DEF Mapped
  <2> QED BY <2>1, PageTableAssumption DEF MappedFirst
<1>4. CASE FreeFrames = {} /\ panic("out of memory") /\ UNCHANGED frames
  BY <1>1, <1>3, <1>4 DEF MapPage, panic
<1>5. CASE \E ppn \in FreeFrames :
             Took(s, ppn) /\ set_page(root[s], va, Leaf(ppn, "user"))
  <2>1. PICK ppn \in FreeFrames :
          Took(s, ppn) /\ set_page(root[s], va, Leaf(ppn, "user"))
    BY <1>5
  <2>2. First(g, root[s], va[1]) = va[1]
    BY <1>2 DEF First
  <2>3. MayDescend(g, root[s], va[1])
    BY <1>3, <2>2 DEF MayDescend
  <2>4. ppn \in Frame
    BY DEF FreeFrames
  <2>5. Fits(g, root[s], va[1], Leaf(ppn, "user"))
    <3>1. ppn \in VPage
      BY <2>4, PageTableAssumption
    <3> QED BY <1>2, <2>4, <3>1, EntryKinds DEF Fits
  <2> DEFINE e == Leaf(ppn, "user")
  <2>6. /\ UNCHANGED <<root, current, satp>>
        /\ \/ UNCHANGED <<mem, used>>
           \/ \E g2 : PageSet(mem, used, root, g, root[s], va, e, mem', used', g2)
    <3>1. Fits(g, root[s], va[1], e) /\ set_page(root[s], va, e)
      BY <2>1, <2>5
    <3> HIDE DEF e
    <3> QED BY <1>2, <1>3, <2>3, <3>1, SetPage
  <2> QED BY <1>1, <1>3, <2>1, <2>4, <2>6 DEF MapPage
<1> QED BY <1>4, <1>5 DEF MapPage, Took

LEMMA CreateCases ==
  ASSUME NEW g, TreeOK(mem, used, root, g), NEW s \in Space, Create(s)
  PROVE  /\ UNCHANGED <<frames, current, satp, tlb, execd, given>>
         /\ root[s] = None
         /\ \/ panicked' # "no" /\ UNCHANGED <<mem, used, root>>
            \/ \E p, g2 : Created(g, s, p, g2)
<1>1. root[s] = None
  BY DEF Create
<1>2. CASE used = Page
  BY <1>1, <1>2 DEF Create, panic
<1>3. CASE used # Page
  <2>1. /\ mem' = [mem EXCEPT ![alloc_pages(used)] = KernelRoot]
        /\ used' = used \cup {alloc_pages(used)}
        /\ root' = [root EXCEPT ![s] = alloc_pages(used)]
        /\ UNCHANGED <<frames, current, satp, tlb, execd, given, panicked>>
    BY <1>3 DEF Create, KernelRoot
  <2>2. \E p, g2 : Created(g, s, p, g2)
    BY <1>1, <1>3, <2>1, CreateStep
  <2> QED BY <1>1, <2>1, <2>2
<1> QED BY <1>2, <1>3

LEMMA ClearCases ==
  ASSUME NEW g, TreeOK(mem, used, root, g), HartOK, unset_user_pages
  PROVE  /\ UNCHANGED <<root, current, satp, tlb, panicked>> /\ execd' = TRUE
         /\ given' = given \cup frames[current] /\ vm_decref_all(current)
         /\ current \in Space /\ root[current] # None
         /\ TreeOK(mem', used', root', g)
         /\ \A y \in Tables(used) : g[y].depth = 2 /\ y # root[current] =>
              SameWalks(mem, mem', y)
         /\ \A va \in VPage : WalkIn(mem', root[current], va) =
              IF va[1] < SPLIT THEN Invalid ELSE WalkIn(mem, root[current], va)
<1>1. current \in Space /\ root[current] # None
  BY DEF HartOK, unset_user_pages
<1> DEFINE subs == {mem[root[current]][i].page :
                      i \in {j \in UserEntries : IsTable(mem[root[current]][j])}}
           low  == LowTables(g, used, current)
<1>2. ~TooDeep(subs, 1) /\ destroyed(subs, 1) = low
  BY <1>1, ClearedTables
<1>3. /\ mem' = [Freed(mem, destroyed(subs, 1)) EXCEPT ![root[current]] =
                   [i \in Idx |-> IF i \in UserEntries THEN Invalid ELSE @[i]]]
      /\ used' = used \ destroyed(subs, 1)
      /\ execd' = TRUE /\ given' = given \cup frames[current]
      /\ vm_decref_all(current)
      /\ UNCHANGED <<root, current, satp, tlb, panicked>>
  BY <1>2 DEF unset_user_pages
<1> HIDE DEF subs
<1>4. /\ mem' = [Freed(mem, low) EXCEPT ![root[current]] =
                   [i \in Idx |-> IF i \in UserEntries THEN Invalid ELSE @[i]]]
      /\ used' = used \ low /\ root' = root
  BY <1>2, <1>3
<1> QED BY <1>1, <1>3, <1>4, ClearStep

LEMMA DestroyCases ==
  ASSUME NEW g, TreeOK(mem, used, root, g), HartOK, destroy_page_table
  PROVE  /\ UNCHANGED <<satp, tlb, execd, given, panicked>> /\ current' = None
         /\ vm_decref_all(current)
         /\ current \in Space /\ root[current] # None /\ satp = root[current]
         /\ root' = [root EXCEPT ![current] = None]
         /\ TreeOK(mem', used', root', g)
         /\ \A y \in Tables(used) : g[y].depth = 2 /\ g[y].own # current =>
              SameWalks(mem, mem', y)
         /\ \A q \in Page \cup {Early} : \A i \in Idx : q = satp /\ i >= SPLIT =>
              mem'[q][i] = mem[q][i]
<1>1. current \in Space /\ root[current] # None /\ satp = root[current]
  BY DEF HartOK, destroy_page_table
<1> DEFINE own == OwnTables(g, used, current)
<1>2. ~TooDeep({root[current]}, 2) /\ destroyed({root[current]}, 2) = own
  BY <1>1, DestroyedTables
<1>3. /\ mem' = Freed(mem, own) /\ used' = used \ own
      /\ root' = [root EXCEPT ![current] = None] /\ current' = None
      /\ UNCHANGED <<satp, tlb, execd, given, panicked>> /\ vm_decref_all(current)
  BY <1>2 DEF destroy_page_table
<1> QED BY <1>1, <1>3, DestroyStep

LEMMA DecrefApart ==
  ASSUME Apart(frames), NEW s \in Space, vm_decref_all(s)
  PROVE  /\ Apart(frames') /\ \A r \in Space : r # s => frames'[r] = frames[r]
         /\ frames'[s] = {}
<1>1. \A r \in Space : frames'[r] = IF r = s THEN {} ELSE frames[r]
  BY DEF Apart, vm_decref_all
<1>2. frames' \in [Space -> SUBSET Frame]
  BY DEF Apart, vm_decref_all
<1>3. ASSUME NEW x \in Space, NEW r \in Space, x # r
      PROVE  frames'[x] \cap frames'[r] = {}
  <2>1. frames[x] \cap frames[r] = {}
    BY <1>3 DEF Apart
  <2> QED BY <1>1, <2>1
<1> QED BY <1>1, <1>2, <1>3 DEF Apart

\* A page is mapped to a frame of the task, unmapped, or left as it was.
LEMMA FramedStep ==
  ASSUME Framed(mem, root, frames),
         \A s \in Space, va \in UserPage : root'[s] # None =>
           \/ WalkIn(mem', root'[s], va) = Invalid
           \/ WalkIn(mem', root'[s], va).ppn \in frames'[s]
           \/ /\ root[s] # None /\ frames[s] \subseteq frames'[s]
              /\ WalkIn(mem', root'[s], va) = WalkIn(mem, root[s], va)
  PROVE  Framed(mem', root', frames')
<1> SUFFICES ASSUME NEW s \in Space, NEW va \in UserPage, root'[s] # None,
                    WalkIn(mem', root'[s], va) # Invalid
             PROVE  WalkIn(mem', root'[s], va).ppn \in frames'[s]
  BY DEF Framed
<1> DEFINE e == WalkIn(mem', root'[s], va)
<1>1. \/ e.ppn \in frames'[s]
      \/ /\ root[s] # None /\ frames[s] \subseteq frames'[s]
         /\ e = WalkIn(mem, root[s], va)
  OBVIOUS
<1>2. root[s] # None /\ e = WalkIn(mem, root[s], va) => e.ppn \in frames[s]
  BY DEF Framed
<1> HIDE DEF e
<1>3. e.ppn \in frames'[s]
  BY <1>1, <1>2
<1> QED BY <1>3 DEF e

LEMMA PTNext == PTInv /\ [Next]_vars => PTInv'
<1> SUFFICES ASSUME PTInv, [Next]_vars PROVE PTInv'
  OBVIOUS
<1>1. PICK g : TreeOK(mem, used, root, g)
  BY DEF PTInv, PTree
<1>2. HartOK /\ TlbOK /\ Apart(frames) /\ Framed(mem, root, frames)
  BY DEF PTInv, FramesOK
<1>r. \A s \in Space : root[s] # None =>
        /\ root[s] \in Tables(used) /\ g[root[s]].depth = 2
        /\ g[root[s]].own = s /\ root[s] # Early
  BY <1>1, RootFacts
<1>u. UserPage \subseteq VPage
  BY DEF UserPage
<1>3. ASSUME UNCHANGED <<mem, used, root, current, satp>>, FramesOK', TlbOK'
      PROVE  PTInv'
  <2>1. PTree'
    BY <1>1, <1>3 DEF PTree
  <2>2. HartOK'
    BY <1>2, <1>3 DEF HartOK
  <2> QED BY <1>3, <2>1, <2>2 DEF PTInv
<1>f. ASSUME UNCHANGED <<mem, root, frames>> PROVE FramesOK'
  BY <1>2, <1>f DEF FramesOK, Apart, Framed
\* What is cached stays right when the walks of the space in satp do.
<1>4. ASSUME UNCHANGED <<satp, tlb>>,
             \A s \in Space : root'[s] = satp =>
               root[s] = satp /\ frames[s] \cup given \subseteq frames'[s] \cup given',
             \A s \in Space : root'[s] = satp => \A t \in tlb :
               CachedOK(s, t) /\ ~execd' /\ t[2] # Invalid =>
                 WalkIn(mem', satp, t[1]) = t[2]
      PROVE  TlbOK'
  <2> SUFFICES ASSUME NEW t \in tlb
               PROVE  /\ t[1] \in VPage
                      /\ \A s \in Space : root'[s] = satp =>
                           /\ t[1] \in UserPage /\ t[2] # Invalid =>
                                t[2].ppn \in frames'[s] \cup given'
                           /\ ~execd' /\ t[2] # Invalid =>
                                WalkIn(mem', satp, t[1]) = t[2]
    BY <1>4 DEF TlbOK, CachedOK
  <2>1. t[1] \in VPage /\ \A s \in Space : root[s] = satp => CachedOK(s, t)
    BY <1>2 DEF TlbOK
  <2>2. ASSUME NEW s \in Space, root'[s] = satp
        PROVE  /\ t[1] \in UserPage /\ t[2] # Invalid =>
                    t[2].ppn \in frames'[s] \cup given'
               /\ ~execd' /\ t[2] # Invalid => WalkIn(mem', satp, t[1]) = t[2]
    <3>1. CachedOK(s, t)
      BY <1>4, <2>1, <2>2
    <3>2. frames[s] \cup given \subseteq frames'[s] \cup given'
      BY <1>4, <2>2
    <3> QED BY <1>4, <2>2, <3>1, <3>2 DEF CachedOK
  <2> QED BY <2>1, <2>2
<1>5. CASE MmInit
  <2>1. /\ UNCHANGED <<root, frames, current, satp>> /\ tlb' = {} /\ satp = Early
        /\ \/ UNCHANGED <<mem, used>>
           \/ \E va \in VPage : \E g2 :
                PageSet(mem, used, root, g, Early, va, Invalid, mem', used', g2)
    BY <1>1, <1>5, MmInitStep
  <2>2. TlbOK'
    BY <2>1 DEF TlbOK
  <2>3. CASE UNCHANGED <<mem, used>>
    BY <1>3, <1>f, <2>1, <2>2, <2>3
  <2>4. CASE \E va \in VPage : \E g2 :
               PageSet(mem, used, root, g, Early, va, Invalid, mem', used', g2)
    <3>1. PICK va \in VPage : \E g2 :
            PageSet(mem, used, root, g, Early, va, Invalid, mem', used', g2)
      BY <2>4
    <3>2. PICK g2 :
            PageSet(mem, used, root, g, Early, va, Invalid, mem', used', g2)
      BY <3>1
    <3>3. TreeOK(mem', used', root', g2)
      BY <2>1, <3>2 DEF PageSet
    <3>4. HartOK'
      BY <1>2, <2>1, <3>3, HartFromTree DEF HartOK
    <3>5. \A s \in Space, w \in UserPage : root[s] # None =>
            WalkIn(mem', root[s], w) = WalkIn(mem, root[s], w)
      BY <1>r, <1>u, <3>2 DEF PageSet
    <3>6. FramesOK'
      BY <1>2, <2>1, <3>5, FramedStep DEF FramesOK
    <3> QED BY <2>2, <3>3, <3>4, <3>6 DEF PTInv, PTree
  <2> QED BY <2>1, <2>3, <2>4
<1>6. ASSUME NEW s \in Space, Create(s) PROVE PTInv'
  <2>1. /\ UNCHANGED <<frames, current, satp, tlb, execd, given>> /\ root[s] = None
        /\ \/ UNCHANGED <<mem, used, root>>
           \/ \E p, g2 : Created(g, s, p, g2)
    BY <1>1, <1>6, CreateCases
  <2>2. CASE UNCHANGED <<mem, used, root>>
    <3>1. TlbOK'
      BY <1>2, <2>1, <2>2 DEF TlbOK, CachedOK
    <3> QED BY <1>3, <1>f, <2>1, <2>2, <3>1
  <2>3. CASE \E p, g2 : Created(g, s, p, g2)
    <3>1. PICK p, g2 : Created(g, s, p, g2)
      BY <2>3
    <3>2. /\ TreeOK(mem', used', root', g2) /\ p \notin Tables(used)
          /\ root' = [root EXCEPT ![s] = p] /\ mem'[p] = KernelRoot
          /\ \A y \in Tables(used) : g[y].depth = 2 => SameWalks(mem, mem', y)
      BY <3>1 DEF Created
    <3>3. satp \in Tables(used) /\ g[satp].depth = 2 /\ Running
      BY <1>1, <1>2, <1>6, RunningTable DEF Create
    <3>4. \A x \in Space : root'[x] = IF x = s THEN p ELSE root[x]
      BY <1>1, <3>2 DEF TreeOK, Shape
    <3>5. \A x \in Space : root'[x] = satp => root[x] = satp
      BY <3>2, <3>3, <3>4
    <3>6. \A t \in tlb : WalkIn(mem', satp, t[1]) = WalkIn(mem, satp, t[1])
      BY <1>2, <3>2, <3>3 DEF TlbOK, SameWalks
    <3>7. TlbOK'
      BY <1>4, <2>1, <3>5, <3>6 DEF CachedOK
    <3>8. HartOK'
      <4>1. current' # None => root'[current'] # None /\ satp' = root'[current']
        BY <1>2, <2>1, <3>4 DEF HartOK
      <4>2. satp' = Early \/ current' # None
        BY <2>1, <3>3 DEF Running
      <4> QED BY <1>2, <2>1, <3>2, <4>1, <4>2, HartFromTree DEF HartOK
    \* The new space maps nothing in its user half.
    <3>9. \A va \in UserPage : WalkIn(mem', p, va) = Invalid
      <4> TAKE va \in UserPage
      <4>1. va \in VPage /\ va[1] \in Idx /\ va[1] < SPLIT
        BY <1>u, VPages DEF UserPage
      <4>2. mem'[p][va[1]] = Invalid
        BY <3>2, <4>1, KernelRootFacts
      <4> QED BY <4>2, EntryKinds DEF WalkIn, Part1
    <3>10. \A x \in Space, va \in UserPage : x # s /\ root[x] # None =>
             WalkIn(mem', root[x], va) = WalkIn(mem, root[x], va)
      BY <1>r, <1>u, <3>2 DEF SameWalks
    <3>11. FramesOK'
      BY <1>2, <2>1, <3>4, <3>9, <3>10, FramedStep DEF FramesOK
    <3> QED BY <3>2, <3>7, <3>8, <3>11 DEF PTInv, PTree
  <2> QED BY <2>1, <2>2, <2>3
<1>7. ASSUME NEW s \in Space, NEW va \in VA[s], MapPage(s, va) PROVE PTInv'
  <2>1. /\ UNCHANGED <<root, current, satp, tlb, execd, given>> /\ root[s] # None
        /\ va \in VPage
        /\ \/ UNCHANGED <<mem, used, frames>>
           \/ \E ppn \in FreeFrames :
                /\ Took(s, ppn) /\ ppn \in Frame
                /\ \/ UNCHANGED <<mem, used>>
                   \/ \E g2 :
                        PageSet(mem, used, root, g, root[s], va,
                                Leaf(ppn, "user"), mem', used', g2)
    BY <1>1, <1>7, MapStep
  <2>2. CASE UNCHANGED <<mem, used, frames>>
    <3>1. TlbOK'
      BY <1>2, <2>1, <2>2 DEF TlbOK, CachedOK
    <3> QED BY <1>3, <1>f, <2>1, <2>2, <3>1
  <2>3. ASSUME NEW ppn \in FreeFrames, Took(s, ppn), UNCHANGED <<mem, used>>
        PROVE  PTInv'
    <3>1. Apart(frames') /\ \A r \in Space : frames[r] \subseteq frames'[r]
      BY <1>2, <2>3, TookApart
    <3>2. TlbOK'
      BY <1>4, <2>1, <2>3, <3>1 DEF CachedOK
    <3>3. FramesOK'
      BY <1>2, <2>1, <2>3, <3>1, FramedStep DEF FramesOK
    <3> QED BY <1>3, <2>1, <2>3, <3>2, <3>3
  <2>4. ASSUME NEW ppn \in FreeFrames, Took(s, ppn), NEW g2,
               PageSet(mem, used, root, g, root[s], va, Leaf(ppn, "user"),
                       mem', used', g2)
        PROVE  PTInv'
    <3> DEFINE e == Leaf(ppn, "user")
    <3>1. e.ppn = ppn
      BY EntryKinds
    <3>2. PageSet(mem, used, root, g, root[s], va, e, mem', used', g2)
      BY <2>4
    <3> HIDE DEF e
    <3>3. /\ TreeOK(mem', used', root', g2)
          /\ \A y \in Tables(used) : g[y].depth = 2 => \A w \in VPage :
               WalkIn(mem', y, w) =
                 IF y = root[s] /\ w = va THEN e ELSE WalkIn(mem, y, w)
      BY <2>1, <3>2 DEF PageSet
    <3>4. /\ satp \in Tables(used) /\ g[satp].depth = 2 /\ Running
          /\ root[s] = satp => current = s
      BY <1>1, <1>2, <1>7, RunningTable DEF MapPage
    \* In the space that runs only a page without a translation is mapped.
    <3>5. ASSUME NEW t \in tlb, ~execd, t[2] # Invalid,
                 WalkIn(mem, satp, t[1]) = t[2]
          PROVE  WalkIn(mem', satp, t[1]) = t[2]
      <4>1. t[1] \in VPage
        BY <1>2 DEF TlbOK
      <4>2. s = current => WalkIn(mem, root[s], va) = Invalid
        BY <1>7, <3>5, WalkIsWalkIn DEF MapPage
      <4>3. ~(satp = root[s] /\ t[1] = va)
        BY <3>4, <3>5, <4>1, <4>2
      <4> QED BY <3>3, <3>4, <3>5, <4>1, <4>3
    <3>6. /\ Apart(frames') /\ ppn \in frames'[s]
          /\ \A r \in Space : frames[r] \subseteq frames'[r]
      BY <1>2, <2>4, TookApart
    <3>7. TlbOK'
      BY <1>4, <2>1, <3>5, <3>6 DEF CachedOK
    <3>8. HartOK'
      <4>1. satp' = Early \/ current' # None
        BY <2>1, <3>4 DEF Running
      <4> QED BY <1>2, <2>1, <3>3, <4>1, HartFromTree DEF HartOK
    \* Another space may not have the same root.
    <3>9. \A x \in Space, w \in UserPage : root[x] # None =>
            \/ WalkIn(mem', root[x], w) = WalkIn(mem, root[x], w)
            \/ x = s /\ WalkIn(mem', root[x], w) = e
      BY <1>r, <1>u, <2>1, <3>3
    <3>10. FramesOK'
      BY <1>2, <2>1, <3>1, <3>6, <3>9, FramedStep DEF FramesOK
    <3> QED BY <3>3, <3>7, <3>8, <3>10 DEF PTInv, PTree
  <2> QED BY <2>1, <2>2, <2>3, <2>4
<1>8. CASE unset_user_pages
  <2>1. /\ UNCHANGED <<root, current, satp, tlb>> /\ execd' = TRUE
        /\ given' = given \cup frames[current] /\ vm_decref_all(current)
        /\ current \in Space /\ root[current] # None
        /\ TreeOK(mem', used', root', g)
        /\ \A y \in Tables(used) : g[y].depth = 2 /\ y # root[current] =>
             SameWalks(mem, mem', y)
        /\ \A va \in VPage : va[1] < SPLIT =>
             WalkIn(mem', root[current], va) = Invalid
    BY <1>1, <1>2, <1>8, ClearCases
  <2>2. /\ Apart(frames') /\ frames'[current] = {}
        /\ \A r \in Space : r # current => frames'[r] = frames[r]
    BY <1>2, <2>1, DecrefApart
  <2>3. \A s \in Space : frames[s] \cup given \subseteq frames'[s] \cup given'
    BY <2>1, <2>2
  <2>4. TlbOK'
    BY <1>4, <2>1, <2>3
  <2>5. HartOK'
    <3>1. current' # None
      BY <2>1, PageTableAssumption
    <3> QED BY <1>2, <2>1, <3>1, HartFromTree DEF HartOK
  <2>6. \A va \in UserPage : WalkIn(mem', root[current], va) = Invalid
    BY <1>u, <2>1 DEF UserPage
  <2>7. \A x \in Space, va \in UserPage : x # current /\ root[x] # None =>
          WalkIn(mem', root[x], va) = WalkIn(mem, root[x], va)
    BY <1>r, <1>u, <2>1 DEF SameWalks
  <2>8. FramesOK'
    BY <1>2, <2>1, <2>2, <2>6, <2>7, FramedStep DEF FramesOK
  <2> QED BY <2>1, <2>4, <2>5, <2>8 DEF PTInv, PTree
<1>9. CASE destroy_page_table
  <2>1. /\ UNCHANGED <<satp, tlb, execd, given>> /\ current' = None
        /\ current \in Space /\ root[current] # None /\ satp = root[current]
        /\ root' = [root EXCEPT ![current] = None] /\ vm_decref_all(current)
        /\ TreeOK(mem', used', root', g)
        /\ \A y \in Tables(used) : g[y].depth = 2 /\ g[y].own # current =>
             SameWalks(mem, mem', y)
        /\ \A q \in Page \cup {Early} : \A i \in Idx : q = satp /\ i >= SPLIT =>
             mem'[q][i] = mem[q][i]
    BY <1>1, <1>2, <1>9, DestroyCases
  <2>2. \A s \in Space : root'[s] = IF s = current THEN None ELSE root[s]
    BY <1>1, <2>1 DEF TreeOK, Shape
  <2>3. \A s \in Space : root'[s] # satp
    BY <1>r, <2>1, <2>2
  <2>4. TlbOK'
    BY <1>2, <2>1, <2>3 DEF TlbOK
  <2>5. HartOK'
    <3>1. \A i \in Idx : i >= SPLIT /\ i \notin MappedFirst =>
            mem'[satp][i] = KernelRoot[i]
      BY <1>2, <2>1 DEF HartOK
    <3> QED BY <1>2, <2>1, <3>1 DEF HartOK
  <2>6. Apart(frames') /\ \A r \in Space : r # current => frames'[r] = frames[r]
    BY <1>2, <2>1, DecrefApart
  <2>7. \A x \in Space, va \in UserPage : x # current /\ root[x] # None =>
          WalkIn(mem', root[x], va) = WalkIn(mem, root[x], va)
    BY <1>r, <1>u, <2>1 DEF SameWalks
  <2>8. FramesOK'
    BY <1>2, <2>2, <2>6, <2>7, FramedStep DEF FramesOK
  <2> QED BY <2>1, <2>4, <2>5, <2>8 DEF PTInv, PTree
<1>10. ASSUME NEW s \in Space, do_schedule(s) PROVE PTInv'
  <2>1. /\ UNCHANGED <<mem, used, root, frames>> /\ root[s] # None /\ current' = s
        /\ satp' = root[s]
        /\ IF satp = root[s] THEN UNCHANGED <<tlb, execd, given>> ELSE tlb' = {}
    BY <1>10 DEF do_schedule, write_satp
  <2>2. s # None
    BY PageTableAssumption
  <2>3. HartOK'
    BY <1>1, <2>1, <2>2, HartFromTree
  <2>4. CASE satp = root[s]
    <3>1. UNCHANGED <<satp, tlb, execd, given>>
      BY <2>1, <2>4
    <3>2. TlbOK'
      BY <1>4, <2>1, <3>1 DEF CachedOK
    <3> QED BY <1>1, <1>f, <2>1, <2>3, <3>2 DEF PTInv, PTree
  <2>5. CASE satp # root[s]
    <3>1. TlbOK'
      BY <2>1, <2>5 DEF TlbOK
    <3> QED BY <1>1, <1>f, <2>1, <2>3, <3>1 DEF PTInv, PTree
  <2> QED BY <2>4, <2>5
<1>11. CASE Idle
  <2>1. UNCHANGED <<mem, used, root, frames, satp, tlb, execd, given>>
        /\ current' = None
    BY <1>11 DEF Idle
  <2>2. HartOK'
    BY <1>2, <2>1 DEF HartOK
  <2>3. TlbOK'
    BY <1>2, <2>1 DEF TlbOK, CachedOK
  <2> QED BY <1>1, <1>f, <2>1, <2>2, <2>3 DEF PTInv, PTree
<1>12. ASSUME NEW va \in Mapped, Fill(va) PROVE PTInv'
  <2> DEFINE e == WalkIn(mem, satp, va)
  <2>1. /\ UNCHANGED <<mem, used, root, frames, current, satp, execd, given>>
        /\ tlb' = {<<va, e>>}
    BY <1>12, WalkIsWalkIn DEF Fill
  <2>2. va \in VPage
    BY PageTableAssumption DEF Mapped
  <2>3. ASSUME NEW s \in Space, root[s] = satp, va \in UserPage, e # Invalid
        PROVE  e.ppn \in frames[s]
    <3>1. satp # None
      BY <1>2, PageTableAssumption DEF HartOK
    <3> QED BY <1>2, <2>3, <3>1 DEF Framed
  <2> HIDE DEF e
  <2>4. TlbOK'
    <3> SUFFICES ASSUME NEW s \in Space, root[s] = satp
                 PROVE  /\ va \in UserPage /\ e # Invalid =>
                             e.ppn \in frames[s] \cup given
                        /\ WalkIn(mem, satp, va) = e
      BY <2>1, <2>2 DEF TlbOK, CachedOK
    <3> QED BY <2>3 DEF e
  <2> QED BY <1>3, <1>f, <2>1, <2>4
<1>13. CASE UNCHANGED vars
  <2>1. TlbOK'
    BY <1>2, <1>13 DEF TlbOK, CachedOK, vars
  <2> QED BY <1>3, <1>f, <1>13, <2>1 DEF vars
<1> QED BY <1>5, <1>6, <1>7, <1>8, <1>9, <1>10, <1>11, <1>12, <1>13 DEF Next, Halted

LEMMA PTInvariant == Spec => []PTInv
BY PTInit, PTNext, PTL DEF Spec

-----------------------------------------------------------------------------

(***************************************************************************)
(* The theorems.                                                           *)
(***************************************************************************)

LEMMA OneOwner == PTInv => TablesOwned
<1> SUFFICES ASSUME PTInv PROVE TablesOwned
  OBVIOUS
<1>1. PICK g : TreeOK(mem, used, root, g)
  BY DEF PTInv, PTree
<1>2. Tree(mem, used, root, g) /\ used \subseteq Tables(used)
  BY <1>1 DEF TreeOK, Tables
<1>3. ASSUME NEW r \in Refs
      PROVE  /\ r[1] \in Tables(used) /\ r[2] \in Idx /\ r = <<r[1], r[2]>>
             /\ mem[r[1]][r[2]].page \in used
             /\ Hangs(g, mem[r[1]][r[2]].page, r[1], r[2])
  <2>1. r[1] \in Tables(used) /\ r[2] \in Idx /\ r = <<r[1], r[2]>>
        /\ IsTable(mem[r[1]][r[2]])
    BY DEF Refs, Tables
  <2> QED BY <1>2, <2>1 DEF Tree
<1>4. \A s \in Roots : s \in Space /\ root[s] \in used /\ g[root[s]].depth = 2
                       /\ g[root[s]].own = s
  BY <1>2 DEF Roots, Tree
<1>5. ASSUME NEW p \in used
      PROVE  Cardinality({r \in Refs : mem[r[1]][r[2]].page = p})
               + Cardinality({s \in Roots : root[s] = p}) = 1
  <2> DEFINE R == {r \in Refs : mem[r[1]][r[2]].page = p}
             S == {s \in Roots : root[s] = p}
  <2>1. CASE g[p].depth = 2
    <3>1. R = {}
      <4> SUFFICES ASSUME NEW r \in Refs, mem[r[1]][r[2]].page = p PROVE FALSE
        OBVIOUS
      <4>1. r[1] \in Tables(used) /\ r[2] \in Idx /\ Hangs(g, p, r[1], r[2])
        BY <1>3
      <4>2. g[p].depth # 2
        BY <1>1, <4>1, DepthCases
      <4> QED BY <2>1, <4>2
    <3>2. g[p].own \in Space /\ root[g[p].own] = p
      BY <1>2, <2>1 DEF Tree
    <3>3. p # None
      BY <1>1, <1>2, NotNone DEF TreeOK, Shape
    <3>4. S = {g[p].own}
      BY <1>4, <3>2, <3>3 DEF Roots
    <3>5. Cardinality(R) = 0 /\ Cardinality(S) = 1
      <4> HIDE DEF R, S
      <4> QED BY <3>1, <3>4, FS_EmptySet, FS_Singleton
    <3> HIDE DEF R, S
    <3>6. Cardinality(R) + Cardinality(S) = 1
      BY <3>5
    <3> QED BY <3>6 DEF R, S
  <2>2. CASE g[p].depth # 2
    <3>1. /\ g[p].parent \in Tables(used) /\ g[p].index \in Idx
          /\ mem[g[p].parent][g[p].index] = Table(p)
      BY <1>1, <2>2, ParentFacts
    <3> DEFINE up == <<g[p].parent, g[p].index>>
    <3>2. up \in Refs /\ mem[up[1]][up[2]].page = p
      BY <3>1, EntryKinds DEF Refs, Tables
    <3>3. ASSUME NEW r \in Refs, mem[r[1]][r[2]].page = p PROVE r = up
      BY <1>3, <3>3 DEF Hangs
    <3> HIDE DEF up
    <3>4. R = {up}
      BY <3>2, <3>3
    <3>5. S = {}
      BY <1>4, <2>2
    <3>6. Cardinality(R) = 1 /\ Cardinality(S) = 0
      <4> HIDE DEF R, S
      <4> QED BY <3>4, <3>5, FS_EmptySet, FS_Singleton
    <3> HIDE DEF R, S
    <3>7. Cardinality(R) + Cardinality(S) = 1
      BY <3>6
    <3> QED BY <3>7 DEF R, S
  <2> QED BY <2>1, <2>2
<1> QED BY <1>3, <1>4, <1>5 DEF TablesOwned

\* do_destroy_page_table frees exactly what set_page and create_page_table
\* allocated: every table in use is the root of one space or hangs below one
\* entry of a table in use, and no entry leads to a freed page.
THEOREM TablesHaveOneOwner == Spec => []TablesOwned
BY PTInvariant, OneOwner, PTL

\* What map_kernel_pages makes the hart translate.
LEMMA RootWalk ==
  ASSUME NEW va \in VPage
  PROVE  Part1(KernelRoot[va[1]], va[2], va[3]) =
           IF va \in UserPage THEN Invalid ELSE KernelHalf[va]
<1>1. va[1] \in Idx /\ va[2] \in Idx /\ va[3] \in Idx
  BY VPages
<1>2. CASE va \in UserPage
  BY <1>1, <1>2, KernelRootFacts DEF UserPage, Part1
<1>3. CASE va \notin UserPage
  <2>1. KernelHalf[va] = IF va[1] = SPLIT THEN Leaf(<<2, va[2], va[3]>>, "kernel")
                         ELSE IF va[1] = MMIOBASE
                         THEN Leaf(<<0, va[2], va[3]>>, "device")
                         ELSE Invalid
    BY <1>3, KernelRootFacts DEF KernelHalf
  <2>2. /\ Part1(LeafOf(2, 0, 0, "kernel"), va[2], va[3])
             = LeafOf(2, va[2], va[3], "kernel")
        /\ Part1(LeafOf(0, 0, 0, "device"), va[2], va[3])
             = LeafOf(0, va[2], va[3], "device")
    <3>1. 0 \in Idx /\ 2 \in Idx
      BY PageTableAssumption DEF Idx
    <3> QED BY <1>1, <3>1, PartOfLeaf
  <2>3. CASE va[1] = SPLIT
    BY <1>3, <2>1, <2>2, <2>3, KernelRootFacts DEF LeafOf
  <2>4. CASE va[1] = MMIOBASE
    BY <1>3, <2>1, <2>2, <2>4, KernelRootFacts DEF LeafOf
  <2>5. CASE va[1] # SPLIT /\ va[1] # MMIOBASE
    BY <1>1, <1>3, <2>1, <2>5, KernelRootFacts DEF Part1
  <2> QED BY <2>3, <2>4, <2>5
<1> QED BY <1>2, <1>3

LEMMA KernelWalk == PTInv => KernelMapped
<1> SUFFICES ASSUME PTInv, NEW va \in DOMAIN KernelHalf,
                    va[1] \notin {w[1] : w \in Mapped}
             PROVE  Walk(satp, va) = KernelHalf[va]
  BY DEF KernelMapped
<1>1. va \in VPage /\ ~(va[1] < SPLIT)
  BY DEF KernelHalf, UserPage
<1>2. va[1] \in Idx /\ va[2] \in Idx /\ va[3] \in Idx
  BY <1>1, VPages
<1>3. va[1] >= SPLIT /\ va[1] \notin MappedFirst
  BY <1>1, <1>2, KernelRootFacts DEF MappedFirst, Idx
<1>4. mem[satp][va[1]] = KernelRoot[va[1]]
  BY <1>2, <1>3 DEF PTInv, HartOK
<1>5. Walk(satp, va) = Part1(KernelRoot[va[1]], va[2], va[3])
  BY <1>2, <1>4, WalkIsWalkIn, KernelRootFacts DEF WalkIn
<1>6. va \notin UserPage
  BY DEF KernelHalf
<1> QED BY <1>1, <1>5, <1>6, RootWalk

\* The table in satp maps the kernel at every moment, also after task_destroy
\* has freed it, until do_schedule loads another.
THEOREM KernelStaysMapped == Spec => []KernelMapped
BY PTInvariant, KernelWalk, PTL

LEMMA Held ==
  ASSUME PTInv, NEW s \in Space, NEW ppn \in frames[s] PROVE HeldBy(s, ppn)
<1>1. Apart(frames)
  BY DEF PTInv, FramesOK
<1>2. ASSUME NEW r \in Space, r # s PROVE ppn \notin frames[r]
  BY <1>1, <1>2 DEF Apart
<1> QED BY <1>2 DEF HeldBy

LEMMA TablesHeld ==
  ASSUME PTInv, NEW s \in Roots, NEW va \in UserPage, Walk(root[s], va) # Invalid
  PROVE  HeldBy(s, Walk(root[s], va).ppn)
<1>1. s \in Space /\ root[s] # None
  BY DEF Roots
<1>2. Walk(root[s], va).ppn \in frames[s]
  BY <1>1, WalkIsWalkIn DEF PTInv, FramesOK, Framed
<1> QED BY <1>1, <1>2, Held

LEMMA CurrentCached == PTInv => OwnTranslations /\ StaleOnlyAfterExecve
<1> SUFFICES ASSUME PTInv PROVE OwnTranslations /\ StaleOnlyAfterExecve
  OBVIOUS
<1>1. ASSUME current # None, NEW t \in tlb
      PROVE  current \in Space /\ CachedOK(current, t)
  <2>1. current \in Space /\ root[current] = satp
    BY <1>1 DEF PTInv, HartOK
  <2> QED BY <2>1 DEF PTInv, TlbOK
<1>2. ASSUME current # None, NEW t \in tlb, t[1] \in UserPage, t[2] # Invalid
      PROVE  t[2].ppn \in given \/ HeldBy(current, t[2].ppn)
  BY <1>1, <1>2, Held DEF CachedOK
<1>3. ASSUME current # None, ~execd, NEW t \in tlb, t[2] # Invalid
      PROVE  Walk(satp, t[1]) = t[2]
  BY <1>1, <1>3, WalkIsWalkIn DEF CachedOK
<1>4. OwnTranslations
  BY <1>2, TablesHeld DEF OwnTranslations
<1>5. StaleOnlyAfterExecve
  BY <1>3 DEF StaleOnlyAfterExecve
<1> QED BY <1>4, <1>5

\* Frames go from task to task, yet a table leads only to those of its own
\* task, and so does what the hart holds while that task runs: do_schedule
\* flushes whenever satp changes.  The exception are the frames that execve
\* has given back since, for which it does not flush.
THEOREM OnlyOwnTranslations == Spec => []OwnTranslations
BY PTInvariant, CurrentCached, PTL

\* set_page and destroy_page_table need no sfence.vma for the translations the
\* hart holds; only unset_user_pages leaves some that are out of date.
THEOREM OnlyExecveLeavesStale == Spec => []StaleOnlyAfterExecve
BY PTInvariant, CurrentCached, PTL

-----------------------------------------------------------------------------

(***************************************************************************)
(* The refinement of AddrSpace.tla.                                        *)
(***************************************************************************)

\* What the spaces translate, with the memory m and the roots r.
View(m, r) == [s \in Space |-> IF r[s] = None THEN None
                               ELSE [va \in VPage |-> WalkIn(m, r[s], va)]]

LEMMA SpacesView == Spaces = View(mem, root) /\ Spaces' = View(mem', root')
BY DEF Spaces, View, Walk, WalkIn, Part1, Part0

\* The translation of an address is an entry, so no space with tables is None.
LEMMA WalkType ==
  ASSUME NEW m, NEW u, NEW r, NEW g, TreeOK(m, u, r, g),
         NEW x \in Tables(u), NEW va \in VPage
  PROVE  WalkIn(m, x, va) \in Entry
<1> DEFINE e2 == m[x][va[1]]
           e1 == m[e2.page][va[2]]
<1>1. va[1] \in Idx /\ va[2] \in Idx /\ va[3] \in Idx
  BY VPages
<1>2. \A t \in Tables(u), i \in Idx :
        /\ m[t][i] \in Entry
        /\ IsTable(m[t][i]) => m[t][i].page \in Tables(u)
  BY DEF TreeOK, Shape, Tree, Mem, Tables
<1>3. \A e \in Entry, j, k \in Idx : ~IsTable(e) =>
        Part1(e, j, k) \in Entry /\ Part0(e, k) \in Entry
  <2> SUFFICES ASSUME NEW e \in Entry, NEW j \in Idx, NEW k \in Idx, ~IsTable(e)
               PROVE  Part1(e, j, k) \in Entry /\ Part0(e, k) \in Entry
    OBVIOUS
  <2>1. CASE e = Invalid
    BY <2>1 DEF Part1, Part0
  <2>2. CASE e # Invalid
    <3>1. PICK a, b, c \in Idx : \E f \in {"user", "kernel", "device"} :
            e = LeafOf(a, b, c, f)
      BY <2>2, LeafCases
    <3>2. PICK f \in {"user", "kernel", "device"} : e = LeafOf(a, b, c, f)
      BY <3>1
    <3> QED BY <3>2, PartOfLeaf, LeafOfFacts
  <2> QED BY <2>1, <2>2
<1>4. e2 \in Entry
  BY <1>1, <1>2
<1>5. CASE ~IsTable(e2)
  <2>1. WalkIn(m, x, va) = Part1(e2, va[2], va[3])
    BY <1>5 DEF WalkIn
  <2> HIDE DEF e2
  <2> QED BY <1>1, <1>3, <1>4, <1>5, <2>1
<1>6. CASE IsTable(e2)
  <2>1. e2.page \in Tables(u)
    BY <1>1, <1>2, <1>6
  <2>2. e1 \in Entry /\ (IsTable(e1) => e1.page \in Tables(u))
    <3> HIDE DEF e2
    <3> QED BY <1>1, <1>2, <2>1
  <2>3. CASE ~IsTable(e1)
    <3>1. WalkIn(m, x, va) = Part0(e1, va[3])
      BY <1>6, <2>3 DEF WalkIn
    <3> HIDE DEF e1
    <3> QED BY <1>1, <1>3, <2>2, <2>3, <3>1
  <2>4. CASE IsTable(e1)
    <3>1. WalkIn(m, x, va) = m[e1.page][va[3]]
      BY <1>6, <2>4 DEF WalkIn
    <3> HIDE DEF e1
    <3> QED BY <1>1, <1>2, <2>2, <2>4, <3>1
  <2> QED BY <2>3, <2>4
<1> QED BY <1>5, <1>6

LEMMA SpaceIsMapped ==
  ASSUME NEW g, TreeOK(mem, used, root, g), NEW s \in Space, root[s] # None
  PROVE  /\ Spaces[s] = [va \in VPage |-> WalkIn(mem, root[s], va)]
         /\ Spaces[s] # None
<1>1. root[s] \in Tables(used)
  BY RootFacts
<1>2. Spaces[s] = [va \in VPage |-> WalkIn(mem, root[s], va)]
  BY SpacesView DEF View
<1>3. \A va \in VPage : WalkIn(mem, root[s], va) \in Entry
  BY <1>1, WalkType
<1>4. Spaces[s] \in [VPage -> Entry]
  BY <1>2, <1>3
<1> QED BY <1>2, <1>4, PageTableAssumption

\* A step that changes no root and no walk of a space changes no space.
LEMMA SameSpaces ==
  ASSUME UNCHANGED root,
         \A s \in Space : root[s] # None => SameWalks(mem, mem', root[s])
  PROVE  UNCHANGED Spaces
<1>1. \A s \in Space : root[s] # None =>
        [va \in VPage |-> WalkIn(mem', root[s], va)]
          = [va \in VPage |-> WalkIn(mem, root[s], va)]
  BY DEF SameWalks
<1>2. View(mem', root') = View(mem, root)
  BY <1>1 DEF View
<1> QED BY <1>2, SpacesView

LEMMA CreateImplements ==
  ASSUME NEW g, TreeOK(mem, used, root, g), NEW s \in Space, root[s] = None,
         NEW p, NEW g2, Created(g, s, p, g2)
  PROVE  Abs!Create(s)
<1>1. /\ TreeOK(mem', used', root', g2)
      /\ root' = [root EXCEPT ![s] = p] /\ mem'[p] = KernelRoot /\ p \in Page
      /\ \A y \in Tables(used) : g[y].depth = 2 => SameWalks(mem, mem', y)
      /\ root \in [Space -> Page \cup {None}]
  BY DEF Created, TreeOK, Shape
<1>2. \A x \in Space : root'[x] = IF x = s THEN p ELSE root[x]
  BY <1>1
<1>3. Spaces[s] = None
  BY SpacesView DEF View
<1>4. p # None
  BY <1>1, PageTableAssumption
<1>5. Abs!Fresh = [va \in VPage |-> WalkIn(mem', p, va)]
  <2>1. UserPage \cup DOMAIN KernelHalf = VPage
    BY DEF UserPage, KernelHalf
  <2>2. \A va \in VPage : WalkIn(mem', p, va) =
          IF va \in UserPage THEN Invalid ELSE KernelHalf[va]
    <3> TAKE va \in VPage
    <3>1. va[1] \in Idx
      BY VPages
    <3>2. WalkIn(mem', p, va) = Part1(KernelRoot[va[1]], va[2], va[3])
      BY <1>1, <3>1, KernelRootFacts DEF WalkIn
    <3> QED BY <3>2, RootWalk
  <2> QED BY <2>1, <2>2 DEF Abs!Fresh
<1>6. \A x \in Space : Spaces'[x] = IF x = s THEN Abs!Fresh ELSE Spaces[x]
  <2> SUFFICES ASSUME NEW x \in Space
               PROVE  View(mem', root')[x] =
                        IF x = s THEN Abs!Fresh ELSE View(mem, root)[x]
    BY SpacesView
  <2>1. CASE x = s
    BY <1>2, <1>4, <1>5, <2>1 DEF View
  <2>2. CASE x # s /\ root[x] = None
    BY <1>2, <2>2 DEF View
  <2>3. CASE x # s /\ root[x] # None
    <3>1. SameWalks(mem, mem', root[x])
      BY <1>1, <2>3, RootFacts
    <3>2. [va \in VPage |-> WalkIn(mem', root[x], va)]
            = [va \in VPage |-> WalkIn(mem, root[x], va)]
      BY <3>1 DEF SameWalks
    <3> QED BY <1>2, <2>3, <3>2 DEF View
  <2> QED BY <2>1, <2>2, <2>3
<1>7. Spaces' = [Spaces EXCEPT ![s] = Abs!Fresh]
  BY <1>6, SpacesView DEF View
<1> QED BY <1>3, <1>7 DEF Abs!Create

LEMMA MapImplements ==
  ASSUME NEW g, TreeOK(mem, used, root, g), NEW s \in Space, root[s] # None,
         root' = root, NEW va \in VA[s], va \in VPage, NEW ppn \in Frame,
         NEW e, e = Leaf(ppn, "user"), NEW g2,
         PageSet(mem, used, root, g, root[s], va, e, mem', used', g2)
  PROVE  Abs!Map(s, va, e)
<1>1. \A y \in Tables(used) : g[y].depth = 2 => \A w \in VPage :
        WalkIn(mem', y, w) = IF y = root[s] /\ w = va THEN e ELSE WalkIn(mem, y, w)
  BY DEF PageSet
<1>2. \A x \in Space : root[x] # None =>
        root[x] \in Tables(used) /\ g[root[x]].depth = 2 /\ g[root[x]].own = x
  BY RootFacts
<1>3. Spaces[s] = [w \in VPage |-> WalkIn(mem, root[s], w)] /\ Spaces[s] # None
  BY SpaceIsMapped
<1>4. \A x \in Space : Spaces'[x] =
        IF x = s THEN [Spaces[x] EXCEPT ![va] = e] ELSE Spaces[x]
  <2> TAKE x \in Space
  <2>1. CASE x = s
    <3>1. \A w \in VPage : WalkIn(mem', root[s], w) =
                             IF w = va THEN e ELSE WalkIn(mem, root[s], w)
      BY <1>1, <1>2
    <3>2. Spaces'[s] = [w \in VPage |-> WalkIn(mem', root[s], w)]
      BY SpacesView DEF View
    <3>3. [Spaces[s] EXCEPT ![va] = e] =
            [w \in VPage |-> IF w = va THEN e ELSE WalkIn(mem, root[s], w)]
      BY <1>3
    <3> QED BY <2>1, <3>1, <3>2, <3>3
  <2>2. CASE x # s /\ root[x] = None
    BY <2>2, SpacesView DEF View
  <2>3. CASE x # s /\ root[x] # None
    <3>1. root[x] # root[s]
      BY <1>2, <2>3
    <3>2. \A w \in VPage : WalkIn(mem', root[x], w) = WalkIn(mem, root[x], w)
      BY <1>1, <1>2, <2>3, <3>1
    <3>3. [w \in VPage |-> WalkIn(mem', root[x], w)]
            = [w \in VPage |-> WalkIn(mem, root[x], w)]
      BY <3>2
    <3> QED BY <2>3, <3>3, SpacesView DEF View
  <2> QED BY <2>1, <2>2, <2>3
<1>5. Spaces' = [Spaces EXCEPT ![s][va] = e]
  BY <1>4, SpacesView DEF View
<1> QED BY <1>3, <1>5 DEF Abs!Map

LEMMA ClearImplements ==
  ASSUME NEW g, TreeOK(mem, used, root, g), HartOK, unset_user_pages
  PROVE  current \in Space /\ Abs!ClearUser(current)
<1>1. /\ root' = root /\ current \in Space /\ root[current] # None
      /\ \A y \in Tables(used) : g[y].depth = 2 /\ y # root[current] =>
           SameWalks(mem, mem', y)
      /\ \A va \in VPage : WalkIn(mem', root[current], va) =
           IF va[1] < SPLIT THEN Invalid ELSE WalkIn(mem, root[current], va)
  BY ClearCases
<1>2. \A x \in Space : root[x] # None =>
        root[x] \in Tables(used) /\ g[root[x]].depth = 2 /\ g[root[x]].own = x
  BY RootFacts
<1> DEFINE s == current
<1>3. Spaces[s] = [va \in VPage |-> WalkIn(mem, root[s], va)] /\ Spaces[s] # None
  BY <1>1, SpaceIsMapped
<1> DEFINE cleared == [va \in DOMAIN Spaces[s] |->
                         IF va \in UserPage THEN Invalid ELSE Spaces[s][va]]
<1>4. \A x \in Space : Spaces'[x] = IF x = s THEN cleared ELSE Spaces[x]
  <2> TAKE x \in Space
  <2>1. CASE x = s
    <3>1. \A va \in VPage : WalkIn(mem', root[s], va) =
            IF va \in UserPage THEN Invalid ELSE WalkIn(mem, root[s], va)
      BY <1>1 DEF UserPage
    <3>2. Spaces'[s] = [va \in VPage |-> WalkIn(mem', root[s], va)]
      BY <1>1, SpacesView DEF View
    <3>3. cleared = [va \in VPage |-> IF va \in UserPage THEN Invalid
                                      ELSE WalkIn(mem, root[s], va)]
      BY <1>3
    <3> QED BY <2>1, <3>1, <3>2, <3>3
  <2>2. CASE x # s /\ root[x] = None
    BY <1>1, <2>2, SpacesView DEF View
  <2>3. CASE x # s /\ root[x] # None
    <3>1. root[x] # root[s]
      BY <1>1, <1>2, <2>3
    <3>2. SameWalks(mem, mem', root[x])
      BY <1>1, <1>2, <2>3, <3>1
    <3>3. [va \in VPage |-> WalkIn(mem', root[x], va)]
            = [va \in VPage |-> WalkIn(mem, root[x], va)]
      BY <3>2 DEF SameWalks
    <3> QED BY <1>1, <2>3, <3>3, SpacesView DEF View
  <2> QED BY <2>1, <2>2, <2>3
<1>5. Spaces' = [Spaces EXCEPT ![s] = cleared]
  <2> HIDE DEF cleared
  <2> QED BY <1>4, SpacesView DEF View
<1> QED BY <1>1, <1>3, <1>5 DEF Abs!ClearUser

LEMMA DestroyImplements ==
  ASSUME NEW g, TreeOK(mem, used, root, g), HartOK, destroy_page_table
  PROVE  current \in Space /\ Abs!Destroy(current)
<1> DEFINE s == current
<1>1. /\ s \in Space /\ root[s] # None /\ root' = [root EXCEPT ![s] = None]
      /\ root \in [Space -> Page \cup {None}]
      /\ \A y \in Tables(used) : g[y].depth = 2 /\ g[y].own # s =>
           SameWalks(mem, mem', y)
  BY DestroyCases DEF TreeOK, Shape
<1>2. Spaces[s] # None
  BY <1>1, SpaceIsMapped
<1>3. \A x \in Space : root'[x] = IF x = s THEN None ELSE root[x]
  BY <1>1
<1>4. \A x \in Space : Spaces'[x] = IF x = s THEN None ELSE Spaces[x]
  <2> TAKE x \in Space
  <2>1. CASE root'[x] = None
    BY <1>3, <2>1, SpacesView DEF View
  <2>2. CASE root'[x] # None
    <3>1. x # s /\ root'[x] = root[x] /\ root[x] # None
      BY <1>3, <2>2
    <3>2. SameWalks(mem, mem', root[x])
      BY <1>1, <3>1, RootFacts
    <3>3. [va \in VPage |-> WalkIn(mem', root[x], va)]
            = [va \in VPage |-> WalkIn(mem, root[x], va)]
      BY <3>2 DEF SameWalks
    <3> QED BY <3>1, <3>3, SpacesView DEF View
  <2> QED BY <2>1, <2>2
<1>5. Spaces' = [Spaces EXCEPT ![s] = None]
  BY <1>4, SpacesView DEF View
<1> QED BY <1>1, <1>2, <1>5 DEF Abs!Destroy

LEMMA StepImplements == PTInv /\ [Next]_vars => [Abs!Next]_Spaces
<1> SUFFICES ASSUME PTInv, [Next]_vars PROVE [Abs!Next]_Spaces
  OBVIOUS
<1>1. PICK g : TreeOK(mem, used, root, g)
  BY DEF PTInv, PTree
<1>2. HartOK
  BY DEF PTInv
<1>3. \A s \in Space : root[s] # None =>
        /\ root[s] \in Tables(used) /\ g[root[s]].depth = 2
        /\ g[root[s]].own = s /\ root[s] # Early
  BY <1>1, RootFacts
<1>4. ASSUME UNCHANGED <<mem, root>> PROVE UNCHANGED Spaces
  BY <1>4, SpacesView
<1>5. CASE MmInit
  <2>1. /\ UNCHANGED root
        /\ \/ UNCHANGED <<mem, used>>
           \/ \E va \in VPage : \E g2 :
                PageSet(mem, used, root, g, Early, va, Invalid, mem', used', g2)
    BY <1>1, <1>5, MmInitStep
  <2>2. CASE \E va \in VPage : \E g2 :
               PageSet(mem, used, root, g, Early, va, Invalid, mem', used', g2)
    <3>1. \A s \in Space : root[s] # None => SameWalks(mem, mem', root[s])
      BY <1>3, <2>2 DEF PageSet, SameWalks
    <3> QED BY <2>1, <3>1, SameSpaces
  <2> QED BY <1>4, <2>1, <2>2
<1>6. ASSUME NEW s \in Space, Create(s) PROVE [Abs!Next]_Spaces
  <2>1. /\ root[s] = None
        /\ \/ UNCHANGED <<mem, root>>
           \/ \E p, g2 : Created(g, s, p, g2)
    BY <1>1, <1>6, CreateCases
  <2>2. CASE \E p, g2 : Created(g, s, p, g2)
    <3>1. Abs!Create(s)
      BY <1>1, <2>1, <2>2, CreateImplements
    <3> QED BY <3>1 DEF Abs!Next
  <2> QED BY <1>4, <2>1, <2>2
<1>7. ASSUME NEW s \in Space, NEW va \in VA[s], MapPage(s, va)
      PROVE  [Abs!Next]_Spaces
  <2>1. /\ UNCHANGED root /\ root[s] # None /\ va \in VPage
        /\ \/ UNCHANGED mem
           \/ \E ppn \in Frame : \E g2 :
                PageSet(mem, used, root, g, root[s], va, Leaf(ppn, "user"),
                        mem', used', g2)
    BY <1>1, <1>7, MapStep
  <2>2. CASE \E ppn \in Frame : \E g2 :
               PageSet(mem, used, root, g, root[s], va, Leaf(ppn, "user"),
                       mem', used', g2)
    <3>1. PICK ppn \in Frame : \E g2 :
            PageSet(mem, used, root, g, root[s], va, Leaf(ppn, "user"),
                    mem', used', g2)
      BY <2>2
    <3> DEFINE e == Leaf(ppn, "user")
    <3>2. PICK g2 : PageSet(mem, used, root, g, root[s], va, e, mem', used', g2)
      BY <3>1
    <3>3. e \in [x \in Space |-> {Leaf(q, "user") : q \in Frame}][s]
      OBVIOUS
    <3>4. e = Leaf(ppn, "user")
      OBVIOUS
    <3> HIDE DEF e
    <3>5. Abs!Map(s, va, e)
      BY <1>1, <2>1, <3>2, <3>4, MapImplements
    <3> QED BY <3>3, <3>5 DEF Abs!Next
  <2> QED BY <1>4, <2>1, <2>2
<1>8. CASE unset_user_pages
  <2>1. current \in Space /\ Abs!ClearUser(current)
    BY <1>1, <1>2, <1>8, ClearImplements
  <2> QED BY <2>1 DEF Abs!Next
<1>9. CASE destroy_page_table
  <2>1. current \in Space /\ Abs!Destroy(current)
    BY <1>1, <1>2, <1>9, DestroyImplements
  <2> QED BY <2>1 DEF Abs!Next
<1>10. ASSUME NEW s \in Space, do_schedule(s) PROVE [Abs!Next]_Spaces
  BY <1>4, <1>10 DEF do_schedule
<1>11. CASE Idle
  BY <1>4, <1>11 DEF Idle
<1>12. ASSUME NEW va \in Mapped, Fill(va) PROVE [Abs!Next]_Spaces
  BY <1>4, <1>12 DEF Fill
<1>13. CASE UNCHANGED vars
  BY <1>4, <1>13 DEF vars
<1> QED BY <1>5, <1>6, <1>7, <1>8, <1>9, <1>10, <1>11, <1>12, <1>13 DEF Next, Halted

\* Through tables of three levels and pages broken up on the way, each call
\* of mm.c changes the translations it is asked to change and no other: the
\* page tables implement the address spaces of AddrSpace.tla.
THEOREM PageTablesImplement == Spec => ImplementsAddrSpace
<1>1. Init => Abs!Init
  BY SpacesView DEF Init, Abs!Init, View
<1> QED BY PTInit, PTNext, StepImplements, <1>1, PTL
     DEF Spec, ImplementsAddrSpace, Abs!Spec

=============================================================================
