-------------------------- MODULE TaskMemoryProofs --------------------------
(***************************************************************************)
(* Proofs about the memory of the tasks, for any number of tasks and pages *)
(* and any file whose segments are in order.                               *)
(***************************************************************************)
EXTENDS TaskMemoryProps, FiniteSetTheorems, WellFoundedInduction, TLAPS

-----------------------------------------------------------------------------
(* Walking along a list                                                    *)

LEMMA LeastNat ==
  ASSUME NEW X \in SUBSET Nat, X # {}
  PROVE  \E x \in X : \A y \in X : x <= y
<1> DEFINE R == OpToRel(<, Nat)
<1>1. IsWellFoundedOn(R, Nat)
  BY NatLessThanWellFounded
<1>2. \A a, b \in Nat : <<a, b>> \in R <=> a < b
  BY DEF OpToRel
<1> HIDE DEF R
<1>3. PICK x \in X : \A y \in X : ~(<<y, x>> \in R)
  BY <1>1, WFMin, Zenon
<1>4. \A y \in X : x <= y
  <2> TAKE y \in X
  <2>1. ~(y < x)
    BY <1>2, <1>3
  <2>2. x \in Nat /\ y \in Nat
    OBVIOUS
  <2> QED BY <2>1, <2>2
<1> QED BY <1>4

LEMMA Induct ==
  ASSUME NEW N \in Nat, NEW X, 0 \in X,
         \A n \in 1..N : n - 1 \in X => n \in X
  PROVE  \A n \in 0..N : n \in X
<1> DEFINE Bad == {n \in 0..N : n \notin X}
<1> SUFFICES ASSUME Bad # {} PROVE FALSE
  OBVIOUS
<1>1. Bad \in SUBSET Nat
  OBVIOUS
<1>2. PICK n \in Bad : \A m \in Bad : n <= m
  BY <1>1, LeastNat
<1>3. n \in 1..N
  <2>1. n \in 0..N /\ n # 0
    BY <1>2
  <2> QED BY <2>1
<1>4. n - 1 \in 0..N /\ n - 1 \in Nat /\ ~(n <= n - 1)
  BY <1>3
<1>5. n - 1 \in X
  BY <1>2, <1>4
<1> QED BY <1>3, <1>5

\* The i-th node of a list, NULL before and behind it.
At(s, i) == IF i \in 1..Len(s) THEN s[i] ELSE NULL

Ends(s) == [first |-> At(s, 1), last |-> At(s, Len(s))]

\* In the memory w, l is the list that begins with first: no node occurs twice,
\* each leads to the next and the last to NULL.
Path(l, first, w) ==
  /\ l \in Seq(DOMAIN w)
  /\ IsInjective(l)
  /\ first = At(l, 1)
  /\ \A i \in 1..Len(l) : w[l[i]].next = At(l, i + 1)

\* A list without repetitions is no longer than its nodes are many.
LEMMA PathLength ==
  ASSUME NEW T, IsFiniteSet(T), NEW l \in Seq(T), IsInjective(l)
  PROVE  Cardinality(T) \in Nat /\ Len(l) <= Cardinality(T)
<1> DEFINE S == 1..Len(l)
<1>1. Len(l) \in Nat /\ l \in [S -> T] /\ DOMAIN l = S
  OBVIOUS
<1>2. IsFiniteSet(S) /\ Cardinality(S) = Len(l)
  <2>1. /\ IsFiniteSet(S)
        /\ Cardinality(S) = IF 1 > Len(l) THEN 0 ELSE (Len(l) - 1) + 1
    <3>1. 1 \in Int /\ Len(l) \in Int
      BY <1>1
    <3> QED BY <3>1, FS_Interval
  <2> HIDE DEF S
  <2> QED BY <1>1, <2>1
<1>3. Cardinality(T) \in Nat
  BY FS_CardinalityType
<1>4. ~(\E x, y \in S : x # y /\ l[x] = l[y])
  BY <1>1 DEF IsInjective
<1> HIDE DEF S
<1>5. ~(Cardinality(T) < Cardinality(S))
  BY <1>1, <1>2, <1>3, <1>4, FS_PigeonHole, Zenon
<1> QED BY <1>1, <1>2, <1>3, <1>5

\* What walk holds after n nodes.
Prefix(l, n) == SubSeq(l, 1, IF n <= Len(l) THEN n ELSE Len(l))

LEMMA PrefixFacts ==
  ASSUME NEW T, NEW l \in Seq(T), NEW n \in Nat
  PROVE  /\ Prefix(l, n) \in Seq(T)
         /\ Len(Prefix(l, n)) = IF n <= Len(l) THEN n ELSE Len(l)
         /\ \A i \in 1..Len(Prefix(l, n)) : Prefix(l, n)[i] = l[i]
<1>1. Len(l) \in Nat /\ \A i \in 1..Len(l) : l[i] \in T
  OBVIOUS
<1> DEFINE m == IF n <= Len(l) THEN n ELSE Len(l)
<1>2. m \in Nat /\ m <= Len(l)
  BY <1>1
<1>3. Prefix(l, n) = [i \in 1..m |-> l[i]]
  <2>1. Prefix(l, n) = SubSeq(l, 1, m)
    BY DEF Prefix
  <2> HIDE DEF m
  <2> QED BY <1>1, <1>2, <2>1
<1> HIDE DEF m
<1>4. Prefix(l, n) \in Seq(T) /\ Len(Prefix(l, n)) = m
  BY <1>1, <1>2, <1>3
<1>5. \A i \in 1..m : Prefix(l, n)[i] = l[i]
  BY <1>3
<1> QED BY <1>4, <1>5 DEF m

\* It finds the list that is there.
LEMMA WalkPath ==
  ASSUME NEW w, IsFiniteSet(DOMAIN w), NULL \notin DOMAIN w,
         NEW list, NEW l, Path(l, list.first, w)
  PROVE  Walk(w, list) = l
<1> DEFINE D == DOMAIN w
           bound == Cardinality(D) + 1
           first == list.first
           follow == [s \in Seq(D) |->
                        LET p == IF s = << >> THEN first ELSE w[Last(s)].next
                        IN  IF p = NULL THEN s ELSE Append(s, p)]
           Is(f) == f = [n \in 0..bound |->
                           IF n = 0 THEN << >> ELSE follow[f[n - 1]]]
           g == [n \in 0..bound |-> Prefix(l, n)]
<1>1. /\ l \in Seq(D) /\ Len(l) \in Nat
      /\ \A i \in 1..Len(l) : l[i] \in D /\ l[i] # NULL
  BY DEF Path
<1>2. bound \in Nat /\ Len(l) <= bound
  <2>1. IsInjective(l)
    BY DEF Path
  <2>2. Cardinality(D) \in Nat /\ Len(l) <= Cardinality(D)
    BY <1>1, <2>1, PathLength
  <2> HIDE DEF D
  <2> QED BY <1>1, <2>2
<1>11. Walk(w, list) = (CHOOSE f : Is(f))[bound]
  BY Zenon DEF Walk
<1>12. \A i \in 1..Len(l) : w[l[i]].next = At(l, i + 1)
  BY DEF Path
<1>13. first = At(l, 1)
  BY DEF Path
<1> HIDE DEF D, bound, first
<1>3. Prefix(l, 0) = << >>
  BY <1>1, PrefixFacts
<1>4. Prefix(l, bound) = l
  <2>1. \A i \in 1..Len(l) : Prefix(l, bound)[i] = l[i]
    BY <1>1, <1>2, PrefixFacts
  <2>2. Prefix(l, bound) \in Seq(D) /\ Len(Prefix(l, bound)) = Len(l)
    BY <1>1, <1>2, PrefixFacts
  <2> QED BY <1>1, <2>1, <2>2
<1>5. ASSUME NEW n \in 1..bound
      PROVE  follow[Prefix(l, n - 1)] = Prefix(l, n)
  <2> DEFINE s == Prefix(l, n - 1)
             p == IF s = << >> THEN first ELSE w[Last(s)].next
  <2>1. n - 1 \in Nat /\ n \in Nat
    BY <1>2
  <2>2. /\ s \in Seq(D)
        /\ Len(s) = IF n - 1 <= Len(l) THEN n - 1 ELSE Len(l)
        /\ \A i \in 1..Len(s) : s[i] = l[i]
    BY <1>1, <2>1, PrefixFacts
  <2>3. /\ Prefix(l, n) \in Seq(D)
        /\ Len(Prefix(l, n)) = IF n <= Len(l) THEN n ELSE Len(l)
        /\ \A i \in 1..Len(Prefix(l, n)) : Prefix(l, n)[i] = l[i]
    BY <1>1, <2>1, PrefixFacts
  <2>4. follow[s] = IF p = NULL THEN s ELSE Append(s, p)
    BY <2>2
  <2>5. p = At(l, Len(s) + 1)
    <3>1. CASE s = << >>
      BY <3>1, <1>1, <1>13
    <3>2. CASE s # << >>
      <4>1. Len(s) \in 1..Len(l) /\ Len(s) \in 1..Len(s)
        BY <1>1, <2>1, <2>2, <3>2
      <4>2. Last(s) = l[Len(s)]
        BY <2>2, <4>1 DEF Last
      <4> QED BY <1>12, <3>2, <4>1, <4>2
    <3> QED BY <3>1, <3>2
  <2> HIDE DEF s, p, follow
  <2>6. CASE n <= Len(l)
    <3>1. Len(s) = n - 1 /\ p = l[n] /\ p # NULL /\ p \in D
      BY <1>1, <2>1, <2>2, <2>5, <2>6 DEF At
    <3>2. Append(s, p) = Prefix(l, n)
      BY <1>1, <2>1, <2>2, <2>3, <2>6, <3>1
    <3> QED BY <2>4, <3>1, <3>2 DEF s
  <2>7. CASE ~(n <= Len(l))
    <3>1. Len(s) = Len(l) /\ p = NULL
      BY <1>1, <2>1, <2>2, <2>5, <2>7 DEF At
    <3>2. s = Prefix(l, n)
      BY <1>1, <2>1, <2>2, <2>3, <2>7, <3>1
    <3> QED BY <2>4, <3>1, <3>2 DEF s
  <2> QED BY <2>6, <2>7
<1> HIDE DEF follow
<1>6. Is(g)
  <2>1. ASSUME NEW n \in 0..bound
        PROVE  g[n] = IF n = 0 THEN << >> ELSE follow[g[n - 1]]
    <3>1. CASE n = 0
      BY <1>3, <3>1
    <3>2. CASE n # 0
      <4>1. n \in 1..bound /\ n - 1 \in 0..bound
        BY <1>2, <3>2
      <4> QED BY <1>5, <3>2, <4>1
    <3> QED BY <3>1, <3>2
  <2>2. g = [n \in 0..bound |-> g[n]]
    OBVIOUS
  <2> HIDE DEF g
  <2> QED BY <2>1, <2>2
<1> DEFINE h == CHOOSE f : Is(f)
<1>8. Is(h)
  <2> HIDE DEF Is, g
  <2> QED BY <1>6
<1>9. /\ h[0] = << >>
      /\ \A n \in 1..bound : h[n] = follow[h[n - 1]]
  <2>1. \A n \in 0..bound : h[n] = IF n = 0 THEN << >> ELSE follow[h[n - 1]]
    <3> HIDE DEF h
    <3> QED BY <1>8
  <2> HIDE DEF h
  <2> QED BY <1>2, <2>1
<1>7. Walk(w, list) = h[bound]
  BY <1>11
<1> HIDE DEF h
<1>10. h[bound] = Prefix(l, bound)
  <2> DEFINE X == {n \in 0..bound : h[n] = Prefix(l, n)}
  <2>1. 0 \in X
    BY <1>2, <1>3, <1>9
  <2>2. ASSUME NEW n \in 1..bound, n - 1 \in X PROVE n \in X
    BY <1>2, <1>5, <1>9, <2>2
  <2> HIDE DEF X
  <2>3. \A n \in 0..bound : n \in X
    BY <1>2, <2>1, <2>2, Induct
  <2>4. bound \in X
    BY <1>2, <2>3
  <2> QED BY <2>4 DEF X
<1> QED BY <1>4, <1>7, <1>10
-----------------------------------------------------------------------------
(* The file                                                                *)

\* The segments and the stack are in order, and the segments end before the
\* stack region.
LEMMA SegmentFacts ==
  /\ Len(Program) \in Nat /\ Len(Segments) = Len(Program) + 1
  /\ \A i \in 1..Len(Program) :
       /\ Segments[i] = Program[i]
       /\ Segments[i].va \in Nat /\ Segments[i].n_pages \in Nat
       /\ Segments[i].flags \subseteq Permission
       /\ Segments[i].va + Segments[i].n_pages < USERSTACKMIN
  /\ Segments[Len(Program) + 1] = [va |-> USERSTACK - 1, n_pages |-> 1,
                                   flags |-> {"r", "w", "STACK"}]
  /\ \A i, j \in 1..Len(Segments) : i < j =>
       Segments[i].va + Segments[i].n_pages <= Segments[j].va
<1>1. /\ Len(Program) \in Nat
      /\ Program \in Seq([va : Nat, n_pages : Nat, flags : SUBSET Permission])
      /\ \A i \in 1..Len(Program) : /\ Program[i].va \in Nat
                                    /\ Program[i].n_pages \in Nat
                                    /\ Program[i].flags \subseteq Permission
  <2> DEFINE Segment == [va : Nat, n_pages : Nat, flags : SUBSET Permission]
  <2>1. Program \in Seq(Segment)
    BY MemoryAssumption
  <2>2. Len(Program) \in Nat
    BY <2>1
  <2>3. \A i \in 1..Len(Program) : Program[i] \in Segment
    <3> HIDE DEF Segment
    <3> QED BY <2>1
  <2> QED BY <2>1, <2>2, <2>3
<1>2. /\ Len(Segments) = Len(Program) + 1
      /\ \A i \in 1..Len(Program) : Segments[i] = Program[i]
      /\ Segments[Len(Program) + 1] = [va |-> USERSTACK - 1, n_pages |-> 1,
                                       flags |-> {"r", "w", "STACK"}]
  BY <1>1 DEF Segments
<1>3. /\ \A i \in 1..Len(Program) :
           Program[i].va + Program[i].n_pages <=
             IF i < Len(Program) THEN Program[i + 1].va ELSE USERSTACKMIN - 1
      /\ USERSTACKMIN \in Nat /\ USERSTACK \in Nat /\ USERSTACKMIN < USERSTACK
  BY MemoryAssumption
<1> DEFINE va(i) == Program[i].va
           end(i) == Program[i].va + Program[i].n_pages
           n == Len(Program)
<1>4. /\ n \in Nat
      /\ \A i \in 1..n : va(i) \in Nat /\ end(i) \in Nat /\ va(i) <= end(i)
      /\ \A i \in 1..n : i < n => end(i) <= va(i + 1)
      /\ \A i \in 1..n : i = n => end(i) <= USERSTACKMIN - 1
  BY <1>1, <1>3
<1> HIDE DEF va, end, n
<1>5. ASSUME NEW i \in 1..n, NEW j \in 1..n, i <= j
      PROVE  end(i) <= end(j) /\ (i < j => end(i) <= va(j))
  <2> DEFINE X == {m \in 0..(n - i) : /\ end(i) <= end(i + m)
                                      /\ m > 0 => end(i) <= va(i + m)}
  <2>1. n - i \in Nat
    BY <1>4
  <2>2. 0 \in X
    <3>1. i + 0 = i /\ 0 \in 0..(n - i)
      BY <1>4
    <3> QED BY <1>4, <3>1
  <2>3. ASSUME NEW m \in 1..(n - i), m - 1 \in X PROVE m \in X
    <3>1. i + (m - 1) \in 1..n /\ i + (m - 1) < n /\ (i + (m - 1)) + 1 = i + m
          /\ i + m \in 1..n /\ m \in 0..(n - i)
      BY <1>4
    <3>2. end(i) <= end(i + (m - 1))
      BY <2>3
    <3>3. end(i + (m - 1)) <= va(i + m) /\ va(i + m) <= end(i + m)
      BY <1>4, <3>1
    <3>4. end(i) \in Nat /\ end(i + (m - 1)) \in Nat /\ va(i + m) \in Nat /\ end(i + m) \in Nat
      BY <1>4, <3>1
    <3> QED BY <3>1, <3>2, <3>3, <3>4
  <2> HIDE DEF X
  <2>4. \A m \in 0..(n - i) : m \in X
    BY <2>1, <2>2, <2>3, Induct
  <2>5. j - i \in 0..(n - i) /\ i + (j - i) = j /\ (i < j => j - i > 0)
    BY <1>4, <1>5
  <2>6. j - i \in X
    BY <2>4, <2>5
  <2> QED BY <2>5, <2>6 DEF X
<1>6. \A i \in 1..n : end(i) <= USERSTACKMIN - 1
  <2> TAKE i \in 1..n
  <2>1. n \in 1..n /\ i <= n
    BY <1>4
  <2>2. end(i) <= end(n) /\ end(n) <= USERSTACKMIN - 1
    BY <1>4, <1>5, <2>1
  <2>3. end(i) \in Nat /\ end(n) \in Nat
    BY <1>4, <2>1
  <2> QED BY <1>3, <2>2, <2>3
<1>7. ASSUME NEW i \in 1..Len(Segments), NEW j \in 1..Len(Segments), i < j
      PROVE  Segments[i].va + Segments[i].n_pages <= Segments[j].va
  <2>1. i \in 1..n /\ Segments[i] = Program[i] /\ Segments[i].va + Segments[i].n_pages = end(i)
    BY <1>2, <1>4, <1>7 DEF end, n
  <2>2. CASE j \in 1..n
    BY <1>2, <1>5, <1>7, <1>4, <2>1, <2>2 DEF va, n
  <2>3. CASE j \notin 1..n
    <3>1. j = Len(Program) + 1
      BY <1>2, <1>4, <2>3 DEF n
    <3>2. Segments[j].va = USERSTACK - 1
      BY <1>2, <3>1
    <3>3. end(i) \in Nat /\ end(i) <= USERSTACKMIN - 1
      BY <1>4, <1>6, <2>1
    <3> QED BY <1>3, <2>1, <3>2, <3>3
  <2> QED BY <2>2, <2>3
<1>8. \A i \in 1..Len(Program) :
       Segments[i].va + Segments[i].n_pages < USERSTACKMIN
  <2> TAKE i \in 1..Len(Program)
  <2>1. end(i) \in Nat /\ end(i) <= USERSTACKMIN - 1
    BY <1>4, <1>6 DEF n
  <2>2. end(i) = Segments[i].va + Segments[i].n_pages
    BY <1>2 DEF end
  <2> QED BY <1>3, <2>1, <2>2
<1> QED BY <1>1, <1>2, <1>7, <1>8
-----------------------------------------------------------------------------
(* The areas, lists, tables and pages of all tasks                         *)

Area == [va : Nat, n_pages : Nat, flags : SUBSET (Permission \cup {"STACK"}),
         refcount : {1}, pages : Seq(Page)]

Entry == [frame : Page, flags : SUBSET Permission]

Held == used \ args

Types ==
  /\ heap = [p \in Page |-> heap[p]]
  /\ used \subseteq Page /\ args \subseteq used
  /\ areas = [t \in Task |-> areas[t]]
  /\ table \in [Task -> [UPage -> Entry \cup {None}]]
  /\ live \subseteq Task /\ 1 \in live

\* N[t] are the nodes of a task's list; vm_decref_all has given back the areas
\* of the first d[t] of them; and g tells where each page is found.
Ghosts(N, g, d) ==
  /\ N \in [Task -> Seq(Page)]
  /\ d \in [Task -> Nat]
  /\ \A t \in Task : d[t] <= Len(N[t])
  /\ g = [p \in Page |-> g[p]]

Ref(N, t, i) == heap[N[t][i]].value
Ar(N, t, i)  == heap[Ref(N, t, i)]
Pages(N, t, i) == Ar(N, t, i).pages

Nodes(N, g) ==
  \A t \in Task :
    /\ areas[t] = Ends(N[t])
    /\ \A i \in 1..Len(N[t]) :
         /\ N[t][i] \in Held /\ g[N[t][i]] = <<t, i, 1>>
         /\ heap[N[t][i]] = [value |-> Ref(N, t, i), prev |-> At(N[t], i - 1),
                             next |-> At(N[t], i + 1)]

\* The areas that are still there.
Idx(N, d, t) == (d[t] + 1)..Len(N[t])

AreaAt(N, g, t, i) ==
  /\ Ref(N, t, i) \in Held /\ g[Ref(N, t, i)] = <<t, i, 2>>
  /\ Ar(N, t, i) \in Area
  /\ Len(Pages(N, t, i)) <= Ar(N, t, i).n_pages
  /\ \A j \in 1..Len(Pages(N, t, i)) :
       /\ Pages(N, t, i)[j] \in Held
       /\ g[Pages(N, t, i)[j]] = <<t, i, j + 2>>
       /\ heap[Pages(N, t, i)[j]] \in [data : Data]

\* No page has another place.
Owners(N, d) ==
  \A p \in Held : \E t \in Task : \E i \in 1..Len(N[t]) :
    \/ p = N[t][i]
    \/ /\ i \in Idx(N, d, t)
       /\ p = Ref(N, t, i) \/ \E j \in 1..Len(Pages(N, t, i)) : p = Pages(N, t, i)[j]

End(N, t, i) == Ar(N, t, i).va + Ar(N, t, i).n_pages

Sorted(N, d) ==
  \A t \in Task : \A i, j \in Idx(N, d, t) : i < j => End(N, t, i) <= Ar(N, t, j).va

\* The pages of an area that are there.
Mapped(N, t, i) == Ar(N, t, i).va..(Ar(N, t, i).va + Len(Pages(N, t, i)) - 1)

TableAt(N, t, i) ==
  /\ \A v \in Mapped(N, t, i) :
       /\ v \in UPage /\ table[t][v] # None
       /\ \E j \in 1..Len(Pages(N, t, i)) : table[t][v].frame = Pages(N, t, i)[j]
       /\ Ar(N, t, i).flags \cap Permission \subseteq table[t][v].flags
  /\ \A v, w \in Mapped(N, t, i) : table[t][v].frame = table[t][w].frame => v = w
  /\ \A j \in 1..Len(Pages(N, t, i)) : \E v \in Mapped(N, t, i) :
       table[t][v].frame = Pages(N, t, i)[j]

\* As long as all areas are there, they say what is in the table.
TableOf(N, t) ==
  \A v \in UPage : table[t][v] # None => \E i \in 1..Len(N[t]) : v \in Mapped(N, t, i)

Struct(N, g, d) ==
  /\ Types /\ Ghosts(N, g, d) /\ Nodes(N, g)
  /\ \A t \in Task : \A i \in Idx(N, d, t) : AreaAt(N, g, t, i)
  /\ Owners(N, d)
  /\ Sorted(N, d)
  /\ \A t \in Task : \A i \in Idx(N, d, t) : TableAt(N, t, i)
  /\ \A t \in Task : d[t] = 0 => TableOf(N, t)

LEMMA NewFacts ==
  ASSUME used \subseteq Page
  PROVE  /\ used # Page => NewPage \in Page \ used
         /\ Room => /\ NewPage \in Page \ used /\ NextPage \in Page \ used
                    /\ NewPage # NextPage /\ used # Page
<1>1. used # Page => NewPage \in Page \ used
  <2> SUFFICES ASSUME used # Page PROVE NewPage \in Page \ used
    OBVIOUS
  <2>1. \E p \in Page : p \notin used
    OBVIOUS
  <2> QED BY <2>1 DEF NewPage, New
<1>2. Room => used # Page
  BY DEF Room
<1>3. Room => NextPage \in Page /\ NextPage \notin used \cup {NewPage}
  <2> SUFFICES ASSUME Room PROVE NextPage \in Page /\ NextPage \notin used \cup {NewPage}
    OBVIOUS
  <2>1. \E p \in Page : p \notin used \cup {NewPage}
    BY DEF Room
  <2> QED BY <2>1 DEF NextPage, New
<1> QED BY <1>1, <1>2, <1>3

\* Each page is at the place that g tells.
LEMMA Places ==
  ASSUME NEW N, NEW g, NEW d, Struct(N, g, d), NEW t \in Task
  PROVE  /\ \A i \in 1..Len(N[t]) : g[N[t][i]] = <<t, i, 1>> /\ N[t][i] \in Held
         /\ \A i \in Idx(N, d, t) :
              /\ i \in 1..Len(N[t]) /\ i \in Nat
              /\ g[Ref(N, t, i)] = <<t, i, 2>> /\ Ref(N, t, i) \in Held
              /\ \A a \in 1..Len(Pages(N, t, i)) :
                   g[Pages(N, t, i)[a]] = <<t, i, a + 2>> /\ Pages(N, t, i)[a] \in Held
<1>1. \A i \in 1..Len(N[t]) : g[N[t][i]] = <<t, i, 1>> /\ N[t][i] \in Held
  BY DEF Struct, Nodes
<1>2. \A i \in Idx(N, d, t) : i \in 1..Len(N[t]) /\ i \in Nat
  BY DEF Struct, Ghosts, Idx
<1>3. \A i \in Idx(N, d, t) : AreaAt(N, g, t, i)
  BY DEF Struct
<1> HIDE DEF Ref, Pages
<1>4. \A i \in Idx(N, d, t) : g[Ref(N, t, i)] = <<t, i, 2>> /\ Ref(N, t, i) \in Held
  BY <1>3 DEF AreaAt
<1>5. \A i \in Idx(N, d, t) : \A a \in 1..Len(Pages(N, t, i)) :
         g[Pages(N, t, i)[a]] = <<t, i, a + 2>> /\ Pages(N, t, i)[a] \in Held
  BY <1>3 DEF AreaAt
<1> QED BY <1>1, <1>2, <1>4, <1>5

\* Different places hold different pages.
Disjoint(N, d, t, u) ==
  /\ \A i \in 1..Len(N[t]), j \in 1..Len(N[u]) : N[t][i] = N[u][j] => t = u /\ i = j
  /\ \A i \in 1..Len(N[t]), j \in Idx(N, d, u) : N[t][i] # Ref(N, u, j)
  /\ \A i \in 1..Len(N[t]), j \in Idx(N, d, u) :
       \A b \in 1..Len(Pages(N, u, j)) : N[t][i] # Pages(N, u, j)[b]
  /\ \A i \in Idx(N, d, t), j \in Idx(N, d, u) :
       Ref(N, t, i) = Ref(N, u, j) => t = u /\ i = j
  /\ \A i \in Idx(N, d, t), j \in Idx(N, d, u) :
       \A b \in 1..Len(Pages(N, u, j)) : Ref(N, t, i) # Pages(N, u, j)[b]
  /\ \A i \in Idx(N, d, t), j \in Idx(N, d, u) :
       \A a \in 1..Len(Pages(N, t, i)), b \in 1..Len(Pages(N, u, j)) :
         Pages(N, t, i)[a] = Pages(N, u, j)[b] => t = u /\ i = j /\ a = b

LEMMA Apart ==
  ASSUME NEW N, NEW g, NEW d, Struct(N, g, d), NEW t \in Task, NEW u \in Task
  PROVE  Disjoint(N, d, t, u)
<1>1. /\ \A i \in 1..Len(N[t]) : g[N[t][i]] = <<t, i, 1>>
      /\ \A i \in 1..Len(N[u]) : g[N[u][i]] = <<u, i, 1>>
  BY Places
<1>2. /\ \A i \in Idx(N, d, t) : g[Ref(N, t, i)] = <<t, i, 2>>
      /\ \A i \in Idx(N, d, u) : g[Ref(N, u, i)] = <<u, i, 2>>
  BY Places
<1>3. /\ \A i \in Idx(N, d, t) : \A a \in 1..Len(Pages(N, t, i)) :
           g[Pages(N, t, i)[a]] = <<t, i, a + 2>>
      /\ \A i \in Idx(N, d, u) : \A a \in 1..Len(Pages(N, u, i)) :
           g[Pages(N, u, i)[a]] = <<u, i, a + 2>>
  BY Places
<1> HIDE DEF Ref, Pages
<1>4. ASSUME NEW i \in 1..Len(N[t]), NEW j \in 1..Len(N[u]), N[t][i] = N[u][j]
      PROVE  t = u /\ i = j
  BY <1>1, <1>4
<1>5. ASSUME NEW i \in 1..Len(N[t]), NEW j \in Idx(N, d, u) PROVE N[t][i] # Ref(N, u, j)
  BY <1>1, <1>2
<1>6. ASSUME NEW i \in 1..Len(N[t]), NEW j \in Idx(N, d, u),
             NEW b \in 1..Len(Pages(N, u, j))
      PROVE  N[t][i] # Pages(N, u, j)[b]
  BY <1>1, <1>3
<1>7. ASSUME NEW i \in Idx(N, d, t), NEW j \in Idx(N, d, u), Ref(N, t, i) = Ref(N, u, j)
      PROVE  t = u /\ i = j
  BY <1>2, <1>7
<1>8. ASSUME NEW i \in Idx(N, d, t), NEW j \in Idx(N, d, u),
             NEW b \in 1..Len(Pages(N, u, j))
      PROVE  Ref(N, t, i) # Pages(N, u, j)[b]
  BY <1>2, <1>3
<1>9. ASSUME NEW i \in Idx(N, d, t), NEW j \in Idx(N, d, u),
             NEW a \in 1..Len(Pages(N, t, i)), NEW b \in 1..Len(Pages(N, u, j)),
             Pages(N, t, i)[a] = Pages(N, u, j)[b]
      PROVE  t = u /\ i = j /\ a = b
  BY <1>3, <1>9
<1> QED BY <1>4, <1>5, <1>6, <1>7, <1>8, <1>9 DEF Disjoint

-----------------------------------------------------------------------------
(* What a step does to the structure                                       *)

Same(N, N2, t, i) ==
  /\ Ref(N2, t, i)' = Ref(N, t, i)
  /\ Ar(N2, t, i)' = Ar(N, t, i)
  /\ Pages(N2, t, i)' = Pages(N, t, i)
  /\ Mapped(N2, t, i)' = Mapped(N, t, i)
  /\ End(N2, t, i)' = End(N, t, i)

\* An area that a step leaves alone is as it was.
LEMMA SameArea ==
  ASSUME NEW N, NEW N2, NEW t, NEW i,
         N2[t][i] = N[t][i],
         heap'[N[t][i]].value = heap[N[t][i]].value,
         heap'[Ref(N, t, i)] = heap[Ref(N, t, i)]
  PROVE  Same(N, N2, t, i)
<1>1. Ref(N2, t, i)' = Ref(N, t, i)
  BY DEF Ref
<1>2. Ar(N2, t, i)' = Ar(N, t, i)
  <2>1. Ar(N2, t, i)' = heap'[Ref(N2, t, i)']
    BY DEF Ar
  <2> QED BY <1>1, <2>1 DEF Ar
<1>3. Pages(N2, t, i)' = Pages(N, t, i)
  BY <1>2, Zenon DEF Pages
<1>4. Mapped(N2, t, i)' = Mapped(N, t, i) /\ End(N2, t, i)' = End(N, t, i)
  BY <1>2, <1>3, Zenon DEF Mapped, End
<1> QED BY <1>1, <1>2, <1>3, <1>4 DEF Same

LEMMA SameAt ==
  ASSUME NEW N, NEW N2, NEW g, NEW g2, NEW t, NEW i,
         Same(N, N2, t, i), AreaAt(N, g, t, i),
         Ref(N, t, i) \in Held', g2[Ref(N, t, i)] = g[Ref(N, t, i)],
         \A j \in 1..Len(Pages(N, t, i)) :
           /\ Pages(N, t, i)[j] \in Held'
           /\ g2[Pages(N, t, i)[j]] = g[Pages(N, t, i)[j]]
           /\ heap'[Pages(N, t, i)[j]] \in [data : Data]
  PROVE  AreaAt(N2, g2, t, i)'
<1>1. /\ Ref(N2, t, i)' = Ref(N, t, i) /\ Ar(N2, t, i)' = Ar(N, t, i)
      /\ Pages(N2, t, i)' = Pages(N, t, i)
  BY DEF Same
<1> HIDE DEF Ref, Ar, Pages
<1>2. /\ g[Ref(N, t, i)] = <<t, i, 2>>
      /\ Ar(N, t, i) \in Area
      /\ Len(Pages(N, t, i)) <= Ar(N, t, i).n_pages
      /\ \A j \in 1..Len(Pages(N, t, i)) : g[Pages(N, t, i)[j]] = <<t, i, j + 2>>
  BY DEF AreaAt
<1>3. Ref(N2, t, i)' \in Held' /\ g2[Ref(N2, t, i)'] = <<t, i, 2>>
  BY <1>1, <1>2
<1>4. Ar(N2, t, i)' \in Area /\ Len(Pages(N2, t, i)') <= Ar(N2, t, i)'.n_pages
  BY <1>1, <1>2
<1>5. \A j \in 1..Len(Pages(N2, t, i)') :
        /\ Pages(N2, t, i)'[j] \in Held'
        /\ g2[Pages(N2, t, i)'[j]] = <<t, i, j + 2>>
        /\ heap'[Pages(N2, t, i)'[j]] \in [data : Data]
  BY <1>1, <1>2
<1>6. Area' = Area /\ Data' = Data
  OBVIOUS
<1> QED BY <1>3, <1>4, <1>5, <1>6 DEF AreaAt

LEMMA SameTable ==
  ASSUME NEW N, NEW N2, NEW t, NEW i,
         Same(N, N2, t, i), TableAt(N, t, i),
         \A v \in Mapped(N, t, i) : table'[t][v] = table[t][v]
  PROVE  TableAt(N2, t, i)'
<1>1. /\ Ar(N2, t, i)' = Ar(N, t, i) /\ Pages(N2, t, i)' = Pages(N, t, i)
      /\ Mapped(N2, t, i)' = Mapped(N, t, i)
  BY DEF Same
<1> HIDE DEF Ar, Pages, Mapped
<1>2. /\ \A v \in Mapped(N2, t, i)' :
           /\ v \in UPage /\ table'[t][v] # None
           /\ \E j \in 1..Len(Pages(N2, t, i)') : table'[t][v].frame = Pages(N2, t, i)'[j]
           /\ Ar(N2, t, i)'.flags \cap Permission \subseteq table'[t][v].flags
      /\ \A v, w \in Mapped(N2, t, i)' :
           table'[t][v].frame = table'[t][w].frame => v = w
      /\ \A j \in 1..Len(Pages(N2, t, i)') : \E v \in Mapped(N2, t, i)' :
           table'[t][v].frame = Pages(N2, t, i)'[j]
  BY <1>1 DEF TableAt
<1> QED BY <1>2 DEF TableAt
-----------------------------------------------------------------------------
(* A page more                                                             *)

\* The area is to become this one: it has room, and v is the page before its
\* first or behind its last one.
Wider(N, d, t, i, area, v) ==
  /\ area \in Area /\ area.pages = Pages(N, t, i) /\ area.flags = Ar(N, t, i).flags
  /\ Len(area.pages) < area.n_pages
  /\ area.va + area.n_pages = End(N, t, i)
  /\ v \in UPage
  /\ \/ area.va = Ar(N, t, i).va /\ v = area.va + Len(area.pages)
     \/ area.va = Ar(N, t, i).va - 1 /\ v = area.va
  /\ \A j \in Idx(N, d, t) : j < i => End(N, t, j) <= area.va

PageAdded(N, d, t, i, area, v, x, f) ==
  /\ NewPage \in Page \ used
  /\ \A p \in Page : p # NewPage /\ p # Ref(N, t, i) => heap'[p] = heap[p]
  /\ heap'[NewPage] = Frame(x)
  /\ \A u \in Task : \A j \in 1..Len(N[u]) : Ref(N, u, j)' = Ref(N, u, j)
  /\ \A u \in Task : \A j \in Idx(N, d, u) : <<u, j>> # <<t, i>> => Same(N, N, u, j)
  /\ Ar(N, t, i)' = [area EXCEPT !.pages = Append(@, NewPage)]
  /\ table'[t][v] = [frame |-> NewPage, flags |-> f]
  /\ \A u \in Task, w \in UPage : <<u, w>> # <<t, v>> => table'[u][w] = table[u][w]
  /\ \A j \in Idx(N, d, t) : v \notin Mapped(N, t, j)

LEMMA PageAddedFacts ==
  ASSUME NEW N, NEW g, NEW d, Struct(N, g, d),
         NEW t \in Task, NEW i \in Idx(N, d, t), NEW area, NEW v, NEW x \in Data,
         NEW f \in SUBSET Permission,
         Wider(N, d, t, i, area, v), used # Page,
         AddPage(t, Ref(N, t, i), area, v, x, f)
  PROVE  PageAdded(N, d, t, i, area, v, x, f)
<1> DEFINE p == NewPage
           a == Ref(N, t, i)
<1>1. Types /\ Ghosts(N, g, d) /\ Nodes(N, g) /\ Sorted(N, d) /\ AreaAt(N, g, t, i)
  BY DEF Struct
<1>2. p \in Page \ used
  BY <1>1, NewFacts DEF Types
<1>3. a \in Held /\ a \in Page /\ a # p
  BY <1>1, <1>2 DEF AreaAt, Held, Types
<1>4. /\ heap' = [heap EXCEPT ![p] = Frame(x),
                             ![a] = [area EXCEPT !.pages = Append(@, p)]]
      /\ table' = [table EXCEPT ![t][v] = [frame |-> p, flags |-> f]]
  BY DEF AddPage
<1>5. /\ \A q \in Page : q # p /\ q # a => heap'[q] = heap[q]
      /\ heap'[p] = Frame(x)
      /\ heap'[a] = [area EXCEPT !.pages = Append(@, p)]
  <2>1. heap = [q \in Page |-> heap[q]]
    BY <1>1 DEF Types
  <2> HIDE DEF p, a
  <2> QED BY <1>2, <1>3, <1>4, <2>1
<1>6. /\ table'[t][v] = [frame |-> p, flags |-> f]
      /\ \A u \in Task, w \in UPage : <<u, w>> # <<t, v>> => table'[u][w] = table[u][w]
  <2>1. table \in [Task -> [UPage -> Entry \cup {None}]] /\ v \in UPage
    BY <1>1 DEF Types, Wider
  <2> HIDE DEF p
  <2> QED BY <1>4, <2>1
<1>7. ASSUME NEW u \in Task, NEW j \in 1..Len(N[u])
      PROVE  N[u][j] \in Page /\ N[u][j] # p /\ N[u][j] # a
  <2>1. N[u][j] \in Held
    BY <1>1 DEF Nodes
  <2>2. N[u][j] # a
    BY Apart DEF Disjoint
  <2> QED BY <1>1, <1>2, <2>1, <2>2 DEF Held, Types
<1>8. \A u \in Task : \A j \in 1..Len(N[u]) : heap'[N[u][j]] = heap[N[u][j]]
  BY <1>5, <1>7
<1>9. \A u \in Task : \A j \in 1..Len(N[u]) : Ref(N, u, j)' = Ref(N, u, j)
  BY <1>8 DEF Ref
<1>10. Ar(N, t, i)' = [area EXCEPT !.pages = Append(@, p)]
  <2>1. i \in 1..Len(N[t])
    BY <1>1 DEF Idx, Ghosts
  <2>2. Ref(N, t, i)' = Ref(N, t, i)
    BY <1>9, <2>1
  <2> QED BY <1>5, <2>2 DEF Ar
<1>11. ASSUME NEW u \in Task, NEW j \in Idx(N, d, u), <<u, j>> # <<t, i>>
       PROVE  Same(N, N, u, j)
  <2>1. i \in 1..Len(N[t]) /\ j \in 1..Len(N[u])
    BY <1>1 DEF Idx, Ghosts
  <2>2. AreaAt(N, g, u, j)
    BY DEF Struct
  <2>3. Ref(N, u, j) \in Page /\ Ref(N, u, j) # p
    BY <1>1, <1>2, <2>2 DEF AreaAt, Held, Types
  <2>4. Ref(N, u, j) # a
    BY <1>11, Apart DEF Disjoint
  <2>5. heap'[Ref(N, u, j)] = heap[Ref(N, u, j)]
    BY <1>5, <2>3, <2>4
  <2> QED BY <1>8, <2>1, <2>5, SameArea
<1>12. ASSUME NEW j \in Idx(N, d, t) PROVE v \notin Mapped(N, t, j)
  <2>1. AreaAt(N, g, t, j) /\ AreaAt(N, g, t, i)
    BY DEF Struct
  <2>2. /\ Ar(N, t, j).va \in Nat /\ Ar(N, t, j).n_pages \in Nat
        /\ Len(Pages(N, t, j)) \in Nat /\ Len(Pages(N, t, j)) <= Ar(N, t, j).n_pages
    BY <2>1 DEF AreaAt, Area, Pages
  <2>3. /\ Ar(N, t, i).va \in Nat /\ Ar(N, t, i).n_pages \in Nat
        /\ Len(Pages(N, t, i)) \in Nat /\ Len(Pages(N, t, i)) <= Ar(N, t, i).n_pages
    BY <2>1 DEF AreaAt, Area, Pages
  <2>4. /\ area.va \in Nat /\ area.n_pages \in Nat /\ Len(area.pages) = Len(Pages(N, t, i))
        /\ Len(area.pages) < area.n_pages
        /\ area.va + area.n_pages = Ar(N, t, i).va + Ar(N, t, i).n_pages
        /\ v \in Nat
        /\ \/ area.va = Ar(N, t, i).va /\ v = area.va + Len(area.pages)
           \/ area.va = Ar(N, t, i).va - 1 /\ v = area.va
    BY DEF Wider, Area, End, UPage
  <2>5. i \in Nat /\ j \in Nat
    BY <1>1 DEF Idx, Ghosts
  <2>6. CASE j = i
    BY <2>3, <2>4, <2>6 DEF Mapped
  <2>7. CASE j < i
    <3>1. Ar(N, t, j).va + Ar(N, t, j).n_pages <= area.va
      BY <2>7 DEF Wider, End
    <3> HIDE DEF Ar, Pages
    <3> QED BY <2>2, <2>4, <3>1 DEF Mapped
  <2>8. CASE i < j
    <3>1. Ar(N, t, i).va + Ar(N, t, i).n_pages <= Ar(N, t, j).va
      BY <1>1, <2>8 DEF Sorted, End
    <3> HIDE DEF Ar, Pages
    <3> QED BY <2>2, <2>3, <2>4, <3>1 DEF Mapped
  <2> QED BY <2>5, <2>6, <2>7, <2>8
<1> QED BY <1>2, <1>5, <1>6, <1>9, <1>10, <1>11, <1>12 DEF PageAdded

\* The area after the page.
LEMMA WiderAfter ==
  ASSUME NEW N, NEW g, NEW d, Struct(N, g, d),
         NEW t \in Task, NEW i \in Idx(N, d, t), NEW area, NEW v, NEW x \in Data,
         NEW f \in SUBSET Permission,
         Wider(N, d, t, i, area, v), PageAdded(N, d, t, i, area, v, x, f)
  PROVE  /\ Ar(N, t, i)' \in Area /\ Ar(N, t, i)'.va = area.va
         /\ Ar(N, t, i)'.n_pages = area.n_pages /\ Ar(N, t, i)'.flags = Ar(N, t, i).flags
         /\ Pages(N, t, i)' = Append(Pages(N, t, i), NewPage)
         /\ Len(Pages(N, t, i)) \in Nat
         /\ Len(Pages(N, t, i)') = Len(Pages(N, t, i)) + 1
         /\ Pages(N, t, i)'[Len(Pages(N, t, i)) + 1] = NewPage
         /\ \A j \in 1..Len(Pages(N, t, i)) : Pages(N, t, i)'[j] = Pages(N, t, i)[j]
         /\ Len(Pages(N, t, i)') <= area.n_pages
         /\ End(N, t, i)' = End(N, t, i)
         /\ Mapped(N, t, i)' = Mapped(N, t, i) \cup {v}
<1>1. AreaAt(N, g, t, i)
  BY DEF Struct
<1>2. /\ area \in Area /\ area.pages = Pages(N, t, i) /\ area.flags = Ar(N, t, i).flags
      /\ Len(area.pages) < area.n_pages
      /\ area.va + area.n_pages = End(N, t, i)
      /\ \/ area.va = Ar(N, t, i).va /\ v = area.va + Len(area.pages)
         \/ area.va = Ar(N, t, i).va - 1 /\ v = area.va
  BY DEF Wider
<1>3. Ar(N, t, i)' = [area EXCEPT !.pages = Append(@, NewPage)] /\ NewPage \in Page
  BY DEF PageAdded
<1>4. /\ Ar(N, t, i)' \in Area /\ Ar(N, t, i)'.va = area.va
      /\ Ar(N, t, i)'.n_pages = area.n_pages /\ Ar(N, t, i)'.flags = area.flags
      /\ Ar(N, t, i)'.pages = Append(area.pages, NewPage)
      /\ area.pages \in Seq(Page) /\ area.va \in Nat /\ area.n_pages \in Nat
  <2> DEFINE s == Append(area.pages, NewPage)
  <2>1. /\ area.pages \in Seq(Page) /\ area.va \in Nat /\ area.n_pages \in Nat
        /\ s \in Seq(Page)
    BY <1>2, <1>3 DEF Area
  <2>2. Ar(N, t, i)' = [area EXCEPT !.pages = s]
    BY <1>3
  <2> HIDE DEF Ar, s
  <2>3. [area EXCEPT !.pages = s] \in Area
    BY <1>2, <2>1 DEF Area
  <2>4. /\ Ar(N, t, i)'.va = area.va /\ Ar(N, t, i)'.n_pages = area.n_pages
        /\ Ar(N, t, i)'.flags = area.flags /\ Ar(N, t, i)'.pages = s
    BY <1>2, <2>2 DEF Area
  <2> QED BY <2>1, <2>2, <2>3, <2>4 DEF s
<1>5. Pages(N, t, i)' = Append(Pages(N, t, i), NewPage) /\ Pages(N, t, i) \in Seq(Page)
  <2>1. Pages(N, t, i)' = Ar(N, t, i)'.pages
    BY Zenon DEF Pages
  <2> QED BY <1>2, <1>4, <2>1
<1>6. /\ Len(Pages(N, t, i)) \in Nat
      /\ Len(Pages(N, t, i)') = Len(Pages(N, t, i)) + 1
      /\ Pages(N, t, i)'[Len(Pages(N, t, i)) + 1] = NewPage
      /\ \A j \in 1..Len(Pages(N, t, i)) : Pages(N, t, i)'[j] = Pages(N, t, i)[j]
  <2> HIDE DEF Pages
  <2> QED BY <1>3, <1>5
<1>7. Len(Pages(N, t, i)') <= area.n_pages
  BY <1>2, <1>4, <1>6
<1>8. End(N, t, i)' = End(N, t, i)
  <2>1. End(N, t, i)' = Ar(N, t, i)'.va + Ar(N, t, i)'.n_pages
    BY Zenon DEF End
  <2> QED BY <1>2, <1>4, <2>1
<1>9. Mapped(N, t, i)' = Mapped(N, t, i) \cup {v}
  <2>1. Mapped(N, t, i)' = area.va..(area.va + (Len(Pages(N, t, i)) + 1) - 1)
    <3>1. Mapped(N, t, i)' = Ar(N, t, i)'.va..(Ar(N, t, i)'.va + Len(Pages(N, t, i)') - 1)
      BY Zenon DEF Mapped
    <3> QED BY <1>4, <1>6, <3>1
  <2>2. Ar(N, t, i).va \in Nat
    BY <1>1 DEF AreaAt, Area
  <2> DEFINE m == Len(Pages(N, t, i))
             b == Ar(N, t, i).va
             c == area.va
  <2>3. Mapped(N, t, i) = b..(b + m - 1)
    BY Zenon DEF Mapped
  <2>4. m \in Nat /\ b \in Nat /\ c \in Nat /\ Mapped(N, t, i)' = c..(c + (m + 1) - 1)
        /\ ((c = b /\ v = c + m) \/ (c = b - 1 /\ v = c))
    BY <1>2, <1>4, <1>6, <2>1, <2>2
  <2> HIDE DEF m, b, c
  <2>5. CASE c = b /\ v = c + m
    BY <2>3, <2>4, <2>5
  <2>6. CASE c = b - 1 /\ v = c
    BY <2>3, <2>4, <2>6
  <2> QED BY <2>4, <2>5, <2>6
<1> QED BY <1>2, <1>4, <1>5, <1>6, <1>7, <1>8, <1>9

LEMMA AddPageStep ==
  ASSUME NEW N, NEW g, NEW d, Struct(N, g, d),
         NEW t \in Task, NEW i \in Idx(N, d, t), NEW area, NEW v, NEW x \in Data,
         NEW f \in SUBSET Permission, Ar(N, t, i).flags \cap Permission \subseteq f,
         Wider(N, d, t, i, area, v), used # Page,
         AddPage(t, Ref(N, t, i), area, v, x, f),
         NEW h, h = [p \in Page |->
                       IF p = NewPage THEN <<t, i, Len(Pages(N, t, i)) + 3>> ELSE g[p]]
  PROVE  /\ Struct(N, h, d)'
         /\ PageAdded(N, d, t, i, area, v, x, f)
<1>1. Types /\ Ghosts(N, g, d) /\ Nodes(N, g) /\ Owners(N, d) /\ Sorted(N, d)
  BY DEF Struct
<1>2. PageAdded(N, d, t, i, area, v, x, f)
  BY PageAddedFacts
<1>3. /\ used' = used \cup {NewPage}
      /\ heap' = [heap EXCEPT ![NewPage] = Frame(x),
                    ![Ref(N, t, i)] = [area EXCEPT !.pages = Append(@, NewPage)]]
      /\ table' = [table EXCEPT ![t][v] = [frame |-> NewPage, flags |-> f]]
      /\ UNCHANGED <<areas, live, args, call, panicked>>
  BY DEF AddPage
<1>4. /\ NewPage \in Page \ used /\ NewPage \notin Held /\ Held' = Held \cup {NewPage}
      /\ \A p \in Held : p \in Page /\ p # NewPage /\ h[p] = g[p]
      /\ h[NewPage] = <<t, i, Len(Pages(N, t, i)) + 3>>
  BY <1>1, <1>2, <1>3 DEF PageAdded, Held, Types
<1>5. /\ \A u \in Task : \A j \in 1..Len(N[u]) : Ref(N, u, j)' = Ref(N, u, j)
      /\ \A u \in Task : \A j \in Idx(N, d, u) : <<u, j>> # <<t, i>> => Same(N, N, u, j)
  BY <1>2 DEF PageAdded
<1>6. /\ Ar(N, t, i)' \in Area /\ Ar(N, t, i)'.va = area.va
      /\ Ar(N, t, i)'.n_pages = area.n_pages /\ Ar(N, t, i)'.flags = Ar(N, t, i).flags
      /\ Len(Pages(N, t, i)) \in Nat
      /\ Len(Pages(N, t, i)') = Len(Pages(N, t, i)) + 1
      /\ Pages(N, t, i)'[Len(Pages(N, t, i)) + 1] = NewPage
      /\ \A j \in 1..Len(Pages(N, t, i)) : Pages(N, t, i)'[j] = Pages(N, t, i)[j]
      /\ Len(Pages(N, t, i)') <= area.n_pages
      /\ End(N, t, i)' = End(N, t, i)
      /\ Mapped(N, t, i)' = Mapped(N, t, i) \cup {v}
  BY <1>2, WiderAfter
<1>7. Types'
  <2>1. heap' = [p \in Page |-> heap'[p]]
    BY <1>1, <1>3 DEF Types
  <2>2. v \in UPage /\ [frame |-> NewPage, flags |-> f] \in Entry
    BY <1>4 DEF Wider, Entry
  <2>3. table' \in [Task -> [UPage -> Entry \cup {None}]]
    BY <1>1, <1>3, <2>2 DEF Types
  <2> QED BY <1>1, <1>3, <1>4, <2>1, <2>3 DEF Types
<1>8. Ghosts(N, h, d)'
  BY <1>1 DEF Ghosts
<1>9. Nodes(N, h)'
  <2>1. ASSUME NEW u \in Task, NEW j \in 1..Len(N[u])
        PROVE  /\ N[u][j] \in Held' /\ h[N[u][j]] = <<u, j, 1>>
               /\ heap'[N[u][j]] = [value |-> Ref(N, u, j)', prev |-> At(N[u], j - 1),
                                    next |-> At(N[u], j + 1)]
    <3>1. /\ N[u][j] \in Held /\ g[N[u][j]] = <<u, j, 1>>
          /\ heap[N[u][j]] = [value |-> Ref(N, u, j), prev |-> At(N[u], j - 1),
                              next |-> At(N[u], j + 1)]
      BY <1>1 DEF Nodes
    <3>2. N[u][j] # Ref(N, t, i)
      BY Apart DEF Disjoint
    <3>3. heap'[N[u][j]] = heap[N[u][j]]
      BY <1>2, <1>4, <3>1, <3>2 DEF PageAdded
    <3> QED BY <1>4, <1>5, <3>1, <3>3
  <2>2. \A u \in Task : areas'[u] = Ends(N[u])
    BY <1>1, <1>3 DEF Nodes
  <2> QED BY <2>1, <2>2 DEF Nodes
<1>10. ASSUME NEW u \in Task, NEW j \in Idx(N, d, u), NEW a \in 1..Len(Pages(N, u, j))
       PROVE  /\ Pages(N, u, j)[a] \in Held /\ h[Pages(N, u, j)[a]] = <<u, j, a + 2>>
              /\ heap'[Pages(N, u, j)[a]] \in [data : Data]
  <2>1. AreaAt(N, g, u, j)
    BY DEF Struct
  <2>2. /\ Pages(N, u, j)[a] \in Held /\ g[Pages(N, u, j)[a]] = <<u, j, a + 2>>
        /\ heap[Pages(N, u, j)[a]] \in [data : Data]
    BY <2>1 DEF AreaAt
  <2>3. Ref(N, t, i) # Pages(N, u, j)[a]
    BY Apart DEF Disjoint
  <2>4. heap'[Pages(N, u, j)[a]] = heap[Pages(N, u, j)[a]]
    BY <1>2, <1>4, <2>2, <2>3 DEF PageAdded
  <2> QED BY <1>4, <2>2, <2>4
<1>11. ASSUME NEW u \in Task, NEW j \in Idx(N, d, u)
       PROVE  AreaAt(N, h, u, j)'
  <2>1. AreaAt(N, g, u, j)
    BY DEF Struct
  <2>2. Ref(N, u, j) \in Held /\ g[Ref(N, u, j)] = <<u, j, 2>> /\ h[Ref(N, u, j)] = <<u, j, 2>>
    BY <1>4, <2>1 DEF AreaAt
  <2>3. CASE <<u, j>> # <<t, i>>
    <3>1. Same(N, N, u, j)
      BY <1>5, <2>3
    <3>2. g[Ref(N, u, j)] = h[Ref(N, u, j)] /\ Ref(N, u, j) \in Held'
      BY <1>4, <2>2
    <3>3. \A a \in 1..Len(Pages(N, u, j)) :
            /\ Pages(N, u, j)[a] \in Held' /\ g[Pages(N, u, j)[a]] = h[Pages(N, u, j)[a]]
            /\ heap'[Pages(N, u, j)[a]] \in [data : Data]
      BY <1>4, <1>10
    <3> QED BY <2>1, <3>1, <3>2, <3>3, SameAt
  <2>4. CASE u = t /\ j = i
    <3>1. Ref(N, t, i)' = Ref(N, t, i) /\ Ref(N, t, i)' \in Held'
          /\ h[Ref(N, t, i)'] = <<t, i, 2>>
      <4>1. i \in 1..Len(N[t])
        BY Places
      <4> QED BY <1>4, <1>5, <2>2, <2>4, <4>1
    <3>2. ASSUME NEW a \in 1..Len(Pages(N, t, i)')
          PROVE  /\ Pages(N, t, i)'[a] \in Held'
                 /\ h[Pages(N, t, i)'[a]] = <<t, i, a + 2>>
                 /\ heap'[Pages(N, t, i)'[a]] \in [data : Data]
      <4>1. CASE a \in 1..Len(Pages(N, t, i))
        <5>1. /\ Pages(N, t, i)[a] \in Held /\ h[Pages(N, t, i)[a]] = <<t, i, a + 2>>
              /\ heap'[Pages(N, t, i)[a]] \in [data : Data]
          BY <1>10, <4>1
        <5>2. Pages(N, t, i)'[a] = Pages(N, t, i)[a]
          BY <1>6, <4>1
        <5> QED BY <1>4, <5>1, <5>2
      <4>2. CASE a = Len(Pages(N, t, i)) + 1
        <5>1. Pages(N, t, i)'[a] = NewPage /\ heap'[NewPage] = Frame(x)
          BY <1>2, <1>6, <4>2 DEF PageAdded
        <5>2. a + 2 = Len(Pages(N, t, i)) + 3
          BY <1>6, <4>2
        <5> QED BY <1>4, <5>1, <5>2 DEF Frame
      <4>3. a \in 1..Len(Pages(N, t, i)) \/ a = Len(Pages(N, t, i)) + 1
        <5> DEFINE m == Len(Pages(N, t, i))
        <5>1. m \in Nat /\ a \in 1..(m + 1)
          BY <1>6
        <5> HIDE DEF m
        <5>2. a \in 1..m \/ a = m + 1
          BY <5>1
        <5> QED BY <5>2 DEF m
      <4> QED BY <4>1, <4>2, <4>3
    <3>3. Len(Pages(N, t, i)') <= Ar(N, t, i)'.n_pages
      BY <1>6
    <3> QED BY <1>6, <2>4, <3>1, <3>2, <3>3 DEF AreaAt
  <2> QED BY <2>3, <2>4
<1>12. Owners(N, d)'
  <2>1. ASSUME NEW p \in Held', p # NewPage
        PROVE  \E u \in Task : \E j \in 1..Len(N[u]) :
                 \/ p = N[u][j]
                 \/ /\ j \in Idx(N, d, u)
                    /\ p = Ref(N, u, j)' \/ \E a \in 1..Len(Pages(N, u, j)') : p = Pages(N, u, j)'[a]
    <3>1. PICK u \in Task : \E j \in 1..Len(N[u]) :
            \/ p = N[u][j]
            \/ /\ j \in Idx(N, d, u)
               /\ p = Ref(N, u, j) \/ \E a \in 1..Len(Pages(N, u, j)) : p = Pages(N, u, j)[a]
      BY <1>1, <1>4, <2>1 DEF Owners
    <3>2. PICK j \in 1..Len(N[u]) :
            \/ p = N[u][j]
            \/ /\ j \in Idx(N, d, u)
               /\ p = Ref(N, u, j) \/ \E a \in 1..Len(Pages(N, u, j)) : p = Pages(N, u, j)[a]
      BY <3>1
    <3>3. ASSUME j \in Idx(N, d, u), NEW a \in 1..Len(Pages(N, u, j)), p = Pages(N, u, j)[a]
          PROVE  \E b \in 1..Len(Pages(N, u, j)') : p = Pages(N, u, j)'[b]
      <4>1. CASE <<u, j>> # <<t, i>>
        <5>1. Pages(N, u, j)' = Pages(N, u, j)
          BY <1>5, <3>3, <4>1 DEF Same
        <5> QED BY <3>3, <5>1
      <4>2. CASE u = t /\ j = i
        <5>1. a \in 1..Len(Pages(N, t, i)) /\ p = Pages(N, t, i)[a]
          BY <3>3, <4>2
        <5>2. a \in 1..Len(Pages(N, t, i)') /\ p = Pages(N, t, i)'[a]
          BY <1>6, <5>1
        <5> QED BY <4>2, <5>2
      <4> QED BY <4>1, <4>2
    <3>4. Ref(N, u, j)' = Ref(N, u, j)
      BY <1>5
    <3> QED BY <3>2, <3>3, <3>4
  <2>2. \E j \in 1..Len(N[t]) :
          /\ j \in Idx(N, d, t)
          /\ \E a \in 1..Len(Pages(N, t, j)') : NewPage = Pages(N, t, j)'[a]
    <3>1. i \in 1..Len(N[t])
      BY Places
    <3>2. Len(Pages(N, t, i)) + 1 \in 1..Len(Pages(N, t, i)')
      BY <1>6
    <3> QED BY <1>6, <3>1, <3>2
  <2> QED BY <2>1, <2>2 DEF Owners
<1>13. Sorted(N, d)'
  <2> SUFFICES ASSUME NEW u \in Task, NEW j \in Idx(N, d, u), NEW k \in Idx(N, d, u), j < k
               PROVE  End(N, u, j)' <= Ar(N, u, k)'.va
    BY DEF Sorted
  <2>1. End(N, u, j) <= Ar(N, u, k).va
    BY <1>1 DEF Sorted
  <2>2. End(N, u, j)' = End(N, u, j)
    <3>1. CASE <<u, j>> # <<t, i>>
      BY <1>5, <3>1 DEF Same
    <3>2. CASE u = t /\ j = i
      BY <1>6, <3>2
    <3> QED BY <3>1, <3>2
  <2>3. CASE <<u, k>> # <<t, i>>
    <3>1. Ar(N, u, k)' = Ar(N, u, k)
      BY <1>5, <2>3 DEF Same
    <3> QED BY <2>1, <2>2, <3>1
  <2>4. CASE u = t /\ k = i
    <3>1. End(N, t, j) <= area.va
      BY <2>4 DEF Wider
    <3> QED BY <1>6, <2>2, <2>4, <3>1
  <2> QED BY <2>3, <2>4
<1>14. ASSUME NEW u \in Task, NEW j \in Idx(N, d, u)
       PROVE  TableAt(N, u, j)'
  <2>1. TableAt(N, u, j)
    BY DEF Struct
  <2>2. \A w \in Mapped(N, u, j) : w \in UPage /\ <<u, w>> # <<t, v>>
    <3>1. \A w \in Mapped(N, u, j) : w \in UPage
      BY <2>1 DEF TableAt
    <3>2. u = t => v \notin Mapped(N, u, j)
      BY <1>2 DEF PageAdded
    <3> QED BY <3>1, <3>2
  <2>3. \A w \in Mapped(N, u, j) : table'[u][w] = table[u][w]
    BY <1>2, <2>2 DEF PageAdded
  <2>4. CASE <<u, j>> # <<t, i>>
    BY <1>5, <2>1, <2>3, <2>4, SameTable
  <2>5. CASE u = t /\ j = i
    <3>1. table'[t][v] = [frame |-> NewPage, flags |-> f] /\ v \in UPage
      BY <1>2 DEF PageAdded, Wider
    <3>2. table'[t][v] # None
      BY <1>4, <3>1, MemoryAssumption
    <3>3. \A w \in Mapped(N, t, i) :
            /\ w \in UPage /\ table'[t][w] # None
            /\ \E a \in 1..Len(Pages(N, t, i)) : table'[t][w].frame = Pages(N, t, i)[a]
            /\ Ar(N, t, i).flags \cap Permission \subseteq table'[t][w].flags
      BY <2>1, <2>3, <2>5 DEF TableAt
    <3>4. \A w \in Mapped(N, t, i) : table'[t][w].frame \in Held
      BY <1>10, <3>3
    <3>5. \A w, y \in Mapped(N, t, i) : table'[t][w].frame = table'[t][y].frame => w = y
      BY <2>1, <2>3, <2>5 DEF TableAt
    <3>6. \A a \in 1..Len(Pages(N, t, i)) : \E w \in Mapped(N, t, i) :
            table'[t][w].frame = Pages(N, t, i)[a]
      BY <2>1, <2>3, <2>5 DEF TableAt
    <3>7. /\ 1..Len(Pages(N, t, i)') = (1..Len(Pages(N, t, i))) \cup {Len(Pages(N, t, i)) + 1}
      BY <1>6
    <3>8. /\ table'[t][v].frame = NewPage /\ table'[t][v].flags = f
      BY <3>1
    <3>9. ASSUME NEW w \in Mapped(N, t, i)'
          PROVE  /\ w \in UPage /\ table'[t][w] # None
                 /\ \E a \in 1..Len(Pages(N, t, i)') : table'[t][w].frame = Pages(N, t, i)'[a]
                 /\ Ar(N, t, i)'.flags \cap Permission \subseteq table'[t][w].flags
      <4>1. CASE w = v
        <5>1. Len(Pages(N, t, i)) + 1 \in 1..Len(Pages(N, t, i)')
          BY <3>7
        <5> QED BY <1>6, <3>1, <3>2, <3>8, <4>1, <5>1
      <4>2. CASE w \in Mapped(N, t, i)
        <5>1. PICK a \in 1..Len(Pages(N, t, i)) : table'[t][w].frame = Pages(N, t, i)[a]
          BY <3>3, <4>2
        <5>2. a \in 1..Len(Pages(N, t, i)') /\ Pages(N, t, i)'[a] = Pages(N, t, i)[a]
          BY <1>6, <3>7
        <5> QED BY <1>6, <3>3, <4>2, <5>1, <5>2
      <4> QED BY <1>6, <4>1, <4>2
    <3>10. \A w, y \in Mapped(N, t, i)' : table'[t][w].frame = table'[t][y].frame => w = y
      BY <1>4, <1>6, <3>4, <3>5, <3>8
    <3>11. ASSUME NEW a \in 1..Len(Pages(N, t, i)')
           PROVE  \E w \in Mapped(N, t, i)' : table'[t][w].frame = Pages(N, t, i)'[a]
      BY <1>6, <3>6, <3>7, <3>8
    <3> QED BY <2>5, <3>9, <3>10, <3>11 DEF TableAt
  <2> QED BY <2>4, <2>5
<1>15. ASSUME NEW u \in Task, d[u] = 0 PROVE TableOf(N, u)'
  <2> SUFFICES ASSUME NEW w \in UPage, table'[u][w] # None
               PROVE  \E j \in 1..Len(N[u]) : w \in Mapped(N, u, j)'
    BY DEF TableOf
  <2>1. Idx(N, d, u) = 1..Len(N[u])
    BY <1>15 DEF Idx
  <2>2. CASE u = t /\ w = v
    BY <1>6, <2>1, <2>2
  <2>3. CASE <<u, w>> # <<t, v>>
    <3>1. table[u][w] # None
      BY <1>2, <2>3 DEF PageAdded
    <3>2. PICK j \in 1..Len(N[u]) : w \in Mapped(N, u, j)
      BY <1>15, <3>1 DEF Struct, TableOf
    <3>3. CASE <<u, j>> # <<t, i>>
      BY <1>5, <2>1, <3>2, <3>3 DEF Same
    <3>4. CASE u = t /\ j = i
      BY <1>6, <3>2, <3>4
    <3> QED BY <3>3, <3>4
  <2> QED BY <2>2, <2>3
<1>16. Struct(N, h, d)'
  BY <1>7, <1>8, <1>9, <1>11, <1>12, <1>13, <1>14, <1>15 DEF Struct
<1> QED BY <1>2, <1>16
-----------------------------------------------------------------------------
(* An area more                                                            *)

AreaAdded(N, M2, d, t, area) ==
  /\ NewPage \in Page \ used /\ NextPage \in Page \ used /\ NewPage # NextPage
  /\ heap'[NewPage] = area
  /\ heap'[NextPage] = [value |-> NewPage, prev |-> At(N[t], Len(N[t])), next |-> NULL]
  /\ Len(N[t]) > 0 =>
       heap'[N[t][Len(N[t])]] = [heap[N[t][Len(N[t])]] EXCEPT !.next = NextPage]
  /\ \A p \in Page : p # NewPage /\ p # NextPage /\ p # At(N[t], Len(N[t])) =>
       heap'[p] = heap[p]
  /\ areas'[t] = Ends(M2[t])
  /\ \A u \in Task : u # t => areas'[u] = areas[u]
  /\ \A u \in Task : \A j \in Idx(N, d, u) : Same(N, M2, u, j)
  /\ Ref(M2, t, Len(N[t]) + 1)' = NewPage
  /\ Ar(M2, t, Len(N[t]) + 1)' = area

\* The list with a node more.
LEMMA Appended ==
  ASSUME NEW s \in Seq(Page), NEW p \in Page
  PROVE  /\ Append(s, p) \in Seq(Page) /\ Len(s) \in Nat
         /\ Len(Append(s, p)) = Len(s) + 1
         /\ Append(s, p)[Len(s) + 1] = p
         /\ \A j \in 1..Len(s) : Append(s, p)[j] = s[j]
         /\ \A j \in 0..Len(s) : At(Append(s, p), j) = At(s, j)
         /\ At(Append(s, p), Len(s) + 1) = p
         /\ At(Append(s, p), Len(s) + 2) = NULL
         /\ Ends(Append(s, p)) = [first |-> IF s = << >> THEN p ELSE At(s, 1), last |-> p]
<1>1. /\ Append(s, p) \in Seq(Page) /\ Len(s) \in Nat
      /\ Len(Append(s, p)) = Len(s) + 1
      /\ Append(s, p)[Len(s) + 1] = p
      /\ \A j \in 1..Len(s) : Append(s, p)[j] = s[j]
  OBVIOUS
<1> DEFINE n == Len(s)
           a == Append(s, p)
<1>2. n \in Nat /\ Len(a) = n + 1 /\ a[n + 1] = p /\ \A j \in 1..n : a[j] = s[j]
  BY <1>1
<1>3. s = << >> <=> n = 0
  OBVIOUS
<1> HIDE DEF n, a
<1>4. /\ \A j \in 0..n : At(a, j) = At(s, j)
      /\ At(a, n + 1) = p /\ At(a, n + 2) = NULL
  BY <1>2 DEF At, n
<1>5. At(a, 1) = IF s = << >> THEN p ELSE At(s, 1)
  BY <1>2, <1>3, <1>4 DEF At
<1>6. Ends(a) = [first |-> IF s = << >> THEN p ELSE At(s, 1), last |-> p]
  BY <1>2, <1>4, <1>5 DEF Ends
<1> QED BY <1>1, <1>4, <1>6 DEF n, a

LEMMA AreaAddedFacts ==
  ASSUME NEW N, NEW g, NEW d, Struct(N, g, d),
         NEW t \in Task, NEW area, Room,
         AddArea(t, [memory |-> Created(area), list |-> areas[t]]),
         NEW M2, M2 = [N EXCEPT ![t] = Append(@, NextPage)]
  PROVE  AreaAdded(N, M2, d, t, area)
<1> DEFINE p == NewPage
           q == NextPage
           n == Len(N[t])
           old == At(N[t], n)
<1>1. Types /\ Ghosts(N, g, d) /\ Nodes(N, g)
  BY DEF Struct
<1>2. p \in Page \ used /\ q \in Page \ used /\ p # q
  BY <1>1, NewFacts DEF Types
<1>3. /\ N[t] \in Seq(Page) /\ n \in Nat /\ areas[t] = Ends(N[t])
      /\ M2[t] = Append(N[t], q) /\ \A u \in Task : u # t => M2[u] = N[u]
  BY <1>1 DEF Ghosts, Nodes
<1>4. old # NULL <=> n > 0
  <2>1. \A j \in 1..n : N[t][j] \in Page /\ N[t][j] # NULL
    BY <1>3, MemoryAssumption
  <2> QED BY <1>3, <2>1 DEF At
<1>5. n > 0 => old = N[t][n] /\ old \in Held /\ old \in Page /\ old # p /\ old # q
  <2> SUFFICES ASSUME n > 0 PROVE old = N[t][n] /\ old \in Held /\ old \in Page /\ old # p /\ old # q
    OBVIOUS
  <2>1. n \in 1..n
    BY <1>3
  <2>2. old = N[t][n] /\ old \in Held
    BY <1>1, <2>1 DEF At, Nodes
  <2> QED BY <1>1, <1>2, <2>2 DEF Held, Types
<1> DEFINE m == Created(area)
           linked == IF old = NULL THEN m ELSE [m EXCEPT ![old].next = q]
<1>6. /\ m[p] = area /\ m[q] = list_node_create(p)
      /\ m = [r \in Page |-> m[r]]
      /\ \A r \in Page : r # p /\ r # q => m[r] = heap[r]
  <2>1. m = [heap EXCEPT ![p] = area, ![q] = list_node_create(p)]
    BY DEF Created
  <2>2. heap = [r \in Page |-> heap[r]]
    BY <1>1 DEF Types
  <2> HIDE DEF m, p, q
  <2> QED BY <1>2, <2>1, <2>2
<1> HIDE DEF m
<1>7. /\ linked[p] = area /\ linked[q] = list_node_create(p)
      /\ linked = [r \in Page |-> linked[r]]
      /\ n > 0 => linked[old] = [heap[old] EXCEPT !.next = q]
      /\ \A r \in Page : r # p /\ r # q /\ r # old => linked[r] = heap[r]
  <2>1. CASE n > 0
    <3>1. linked = [m EXCEPT ![old].next = q] /\ old \in Page /\ old # p /\ old # q
      BY <1>4, <1>5, <2>1
    <3> HIDE DEF linked, p, q, old
    <3> QED BY <1>2, <1>6, <3>1
  <2>2. CASE ~(n > 0)
    <3>1. linked = m
      BY <1>4, <2>2
    <3> HIDE DEF linked, p, q, old
    <3> QED BY <1>6, <2>2, <3>1
  <2> QED BY <2>1, <2>2
<1>8. /\ heap' = [linked EXCEPT ![q].prev = old]
      /\ areas' = [areas EXCEPT ![t] =
                     [first |-> IF areas[t].first = NULL THEN q ELSE areas[t].first,
                      last |-> q]]
  <2>1. areas[t].last = old
    BY <1>3 DEF Ends
  <2> QED BY <2>1 DEF AddArea, list_push, m
<1> HIDE DEF linked
<1>9. /\ heap'[p] = area
      /\ heap'[q] = [value |-> p, prev |-> old, next |-> NULL]
      /\ n > 0 => heap'[old] = [heap[old] EXCEPT !.next = q]
      /\ \A r \in Page : r # p /\ r # q /\ r # old => heap'[r] = heap[r]
  <2>1. heap'[q] = [list_node_create(p) EXCEPT !.prev = old]
        /\ \A r \in Page : r # q => heap'[r] = linked[r]
    <3> HIDE DEF p, q, old
    <3> QED BY <1>2, <1>7, <1>8
  <2>2. heap'[q] = [value |-> p, prev |-> old, next |-> NULL]
    BY <2>1 DEF list_node_create
  <2> HIDE DEF p, q, old
  <2> QED BY <1>2, <1>5, <1>7, <2>1, <2>2
<1>10. /\ areas'[t] = Ends(M2[t])
       /\ \A u \in Task : u # t => areas'[u] = areas[u]
  <2>1. areas = [u \in Task |-> areas[u]]
    BY <1>1 DEF Types
  <2>2. areas[t].first = At(N[t], 1)
    BY <1>3 DEF Ends
  <2>3. At(N[t], 1) = NULL <=> N[t] = << >>
    <3>1. \A j \in 1..n : N[t][j] \in Page /\ N[t][j] # NULL
      BY <1>3, MemoryAssumption
    <3>2. N[t] = << >> <=> n = 0
      BY <1>3
    <3> QED BY <1>3, <3>1, <3>2 DEF At
  <2>4. Ends(M2[t]) = [first |-> IF N[t] = << >> THEN q ELSE At(N[t], 1), last |-> q]
    BY <1>2, <1>3, Appended
  <2> QED BY <1>8, <2>1, <2>2, <2>3, <2>4
<1>11. ASSUME NEW u \in Task, NEW j \in Idx(N, d, u)
       PROVE  Same(N, M2, u, j)
  <2>1. /\ j \in 1..Len(N[u]) /\ N[u][j] \in Held /\ Ref(N, u, j) \in Held
    BY Places
  <2>2. M2[u][j] = N[u][j]
    BY <1>2, <1>3, <2>1, Appended
  <2>3. heap'[N[u][j]].value = heap[N[u][j]].value
    <3>1. N[u][j] \in Page /\ N[u][j] # p /\ N[u][j] # q
      BY <1>1, <1>2, <2>1 DEF Held, Types
    <3>2. CASE N[u][j] # old
      BY <1>9, <3>1, <3>2
    <3>3. CASE N[u][j] = old
      <4>1. n > 0
        BY <1>4, <3>1, <3>3, MemoryAssumption
      <4>2. heap[N[u][j]] = [value |-> Ref(N, u, j), prev |-> At(N[u], j - 1),
                             next |-> At(N[u], j + 1)]
        BY <1>1, <2>1 DEF Nodes
      <4>3. heap'[N[u][j]] = [heap[N[u][j]] EXCEPT !.next = q]
        BY <1>9, <3>3, <4>1
      <4> HIDE DEF q, old
      <4> QED BY <4>2, <4>3
    <3> QED BY <3>2, <3>3
  <2>4. heap'[Ref(N, u, j)] = heap[Ref(N, u, j)]
    <3>1. Ref(N, u, j) \in Page /\ Ref(N, u, j) # p /\ Ref(N, u, j) # q
      BY <1>1, <1>2, <2>1 DEF Held, Types
    <3>2. Ref(N, u, j) # old
      <4>1. CASE n > 0
        <5>1. n \in 1..n /\ old = N[t][n]
          BY <1>3, <1>5, <4>1
        <5> QED BY <5>1, Apart DEF Disjoint
      <4>2. CASE ~(n > 0)
        BY <1>4, <3>1, <4>2, MemoryAssumption
      <4> QED BY <4>1, <4>2
    <3> QED BY <1>9, <3>1, <3>2
  <2> QED BY <2>2, <2>3, <2>4, SameArea
<1>12. Ref(M2, t, n + 1)' = p /\ Ar(M2, t, n + 1)' = area
  <2>1. M2[t][n + 1] = q
    BY <1>2, <1>3, Appended
  <2>2. Ref(M2, t, n + 1)' = p
    BY <1>9, <2>1 DEF Ref
  <2> QED BY <1>9, <2>2 DEF Ar
<1> QED BY <1>2, <1>5, <1>9, <1>10, <1>11, <1>12 DEF AreaAdded
LEMMA AddAreaStep ==
  ASSUME NEW N, NEW g, NEW d, Struct(N, g, d),
         NEW t \in Task, d[t] = 0, NEW area \in Area, area.pages = << >>, Room,
         \A j \in 1..Len(N[t]) : End(N, t, j) <= area.va,
         AddArea(t, [memory |-> Created(area), list |-> areas[t]]),
         NEW M2, M2 = [N EXCEPT ![t] = Append(@, NextPage)],
         NEW h, h = [p \in Page |-> IF p = NextPage THEN <<t, Len(N[t]) + 1, 1>>
                                    ELSE IF p = NewPage THEN <<t, Len(N[t]) + 1, 2>>
                                    ELSE g[p]]
  PROVE  /\ Struct(M2, h, d)'
         /\ AreaAdded(N, M2, d, t, area)
<1> DEFINE p == NewPage
           q == NextPage
           n == Len(N[t])
           old == At(N[t], n)
<1>1. Types /\ Ghosts(N, g, d) /\ Nodes(N, g) /\ Owners(N, d) /\ Sorted(N, d)
  BY DEF Struct
<1>2. AreaAdded(N, M2, d, t, area)
  BY AreaAddedFacts
<1>3. /\ used' = used \cup {p, q}
      /\ UNCHANGED <<table, live, args, panicked>>
  BY DEF AddArea
<1>4. /\ p \in Page \ used /\ q \in Page \ used /\ p # q
      /\ Held' = Held \cup {p, q} /\ p \notin Held /\ q \notin Held
      /\ \A r \in Held : r \in Page /\ r # p /\ r # q /\ h[r] = g[r]
      /\ h[p] = <<t, n + 1, 2>> /\ h[q] = <<t, n + 1, 1>>
  <2>1. p \in Page \ used /\ q \in Page \ used /\ p # q
    BY <1>2 DEF AreaAdded
  <2> HIDE DEF p, q
  <2> QED BY <1>1, <1>3, <2>1 DEF Held, Types, p, q
<1>5. /\ N[t] \in Seq(Page) /\ n \in Nat
      /\ M2 \in [Task -> Seq(Page)] /\ M2[t] = Append(N[t], q)
      /\ \A u \in Task : u # t => M2[u] = N[u]
      /\ Len(M2[t]) = n + 1 /\ M2[t][n + 1] = q
      /\ \A j \in 1..n : M2[t][j] = N[t][j]
      /\ \A j \in 0..n : At(M2[t], j) = At(N[t], j)
      /\ At(M2[t], n + 1) = q /\ At(M2[t], n + 2) = NULL
  <2>1. N \in [Task -> Seq(Page)] /\ q \in Page
    BY <1>1, <1>4 DEF Ghosts
  <2>2. M2[t] = Append(N[t], q) /\ \A u \in Task : u # t => M2[u] = N[u]
    BY <2>1
  <2>3. N[t] \in Seq(Page)
    BY <2>1
  <2>4. Append(N[t], q) \in Seq(Page)
    BY <2>1, <2>3, Appended
  <2>5. M2 \in [Task -> Seq(Page)]
    <3> HIDE DEF q
    <3> QED BY <2>1, <2>4 DEF q
  <2> HIDE DEF q
  <2> QED BY <2>1, <2>2, <2>3, <2>5, Appended
<1>6. /\ Idx(N, d, t) = 1..n /\ Idx(M2, d, t) = 1..(n + 1)
      /\ \A u \in Task : u # t => Idx(M2, d, u) = Idx(N, d, u)
      /\ \A u \in Task : \A j \in Idx(M2, d, u) :
           (u = t /\ j = n + 1) \/ (j \in Idx(N, d, u) /\ <<u, j>> # <<t, n + 1>>)
  <2>1. Idx(N, d, t) = 1..n /\ Idx(M2, d, t) = 1..(n + 1)
    BY <1>5 DEF Idx
  <2>2. \A u \in Task : u # t => Idx(M2, d, u) = Idx(N, d, u)
    BY <1>5 DEF Idx
  <2>3. ASSUME NEW u \in Task, NEW j \in Idx(M2, d, u)
        PROVE  (u = t /\ j = n + 1) \/ (j \in Idx(N, d, u) /\ <<u, j>> # <<t, n + 1>>)
    <3>1. CASE u # t
      BY <2>2, <3>1
    <3>2. CASE u = t
      <4>1. j \in 1..(n + 1)
        BY <2>1, <3>2
      <4> HIDE DEF n
      <4>2. j = n + 1 \/ (j \in 1..n /\ j # n + 1)
        BY <1>5, <4>1
      <4> QED BY <2>1, <3>2, <4>2
    <3> QED BY <3>1, <3>2
  <2> QED BY <2>1, <2>2, <2>3
<1>7. \A u \in Task : \A j \in Idx(N, d, u) : Same(N, M2, u, j)
  BY <1>2 DEF AreaAdded
<1>8. /\ Ref(M2, t, n + 1)' = p /\ Ar(M2, t, n + 1)' = area
      /\ Pages(M2, t, n + 1)' = << >> /\ Mapped(M2, t, n + 1)' = {}
      /\ area.va \in Nat /\ area.n_pages \in Nat
  <2>1. Ref(M2, t, n + 1)' = p /\ Ar(M2, t, n + 1)' = area
    BY <1>2 DEF AreaAdded
  <2>2. area.va \in Nat /\ area.n_pages \in Nat
    BY DEF Area
  <2>3. Pages(M2, t, n + 1)' = << >>
    BY <2>1, Zenon DEF Pages
  <2>4. Mapped(M2, t, n + 1)' = area.va..(area.va + Len(<< >>) - 1)
    BY <2>1, <2>3, Zenon DEF Mapped
  <2>5. area.va..(area.va + Len(<< >>) - 1) = {}
    BY <2>2
  <2> QED BY <2>1, <2>2, <2>3, <2>4, <2>5
<1>9. Types'
  <2>1. heap' = [r \in Page |-> heap'[r]]
    <3>1. heap' = (list_push(Created(area), areas[t], q)).memory
      BY DEF AddArea
    <3>2. heap = [r \in Page |-> heap[r]]
      BY <1>1 DEF Types
    <3> QED BY <3>1, <3>2 DEF list_push, Created
  <2>2. areas' = [u \in Task |-> areas'[u]]
    <3>1. \E s : areas' = [areas EXCEPT ![t] = s]
      BY DEF AddArea
    <3>2. areas = [u \in Task |-> areas[u]]
      BY <1>1 DEF Types
    <3> QED BY <3>1, <3>2
  <2> QED BY <1>1, <1>3, <1>4, <2>1, <2>2 DEF Types
<1>10. Ghosts(M2, h, d)'
  <2>1. \A u \in Task : d[u] <= Len(M2[u])
    BY <1>1, <1>5 DEF Ghosts
  <2> QED BY <1>1, <1>5, <2>1 DEF Ghosts
<1>11. /\ n > 0 => old = N[t][n] /\ n \in 1..n
       /\ n = 0 => old = NULL
  <2> HIDE DEF n
  <2> QED BY <1>5 DEF At, n
<1>12. ASSUME NEW u \in Task, NEW j \in 1..Len(N[u]), <<u, j>> # <<t, n>>
       PROVE  N[u][j] \in Held /\ heap'[N[u][j]] = heap[N[u][j]]
  <2>1. N[u][j] \in Held
    BY <1>1 DEF Nodes
  <2>2. N[u][j] # old
    <3>1. CASE n > 0
      BY <1>11, <1>12, <3>1, Apart DEF Disjoint
    <3>2. CASE ~(n > 0)
      <4>1. old = NULL
        BY <1>5, <1>11, <3>2
      <4> QED BY <1>4, <2>1, <4>1, MemoryAssumption
    <3> QED BY <3>1, <3>2
  <2> QED BY <1>2, <1>4, <2>1, <2>2 DEF AreaAdded
<1>13. Nodes(M2, h)'
  <2>1. ASSUME NEW u \in Task PROVE areas'[u] = Ends(M2[u])
    BY <1>1, <1>2, <1>5 DEF AreaAdded, Nodes
  <2>2. ASSUME NEW u \in Task, NEW j \in 1..Len(M2[u])
        PROVE  /\ M2[u][j] \in Held' /\ h[M2[u][j]] = <<u, j, 1>>
               /\ heap'[M2[u][j]] = [value |-> Ref(M2, u, j)', prev |-> At(M2[u], j - 1),
                                     next |-> At(M2[u], j + 1)]
    <3>0. Ref(M2, u, j)' = heap'[M2[u][j]].value
      BY Zenon DEF Ref
    <3>1. CASE u # t
      <4>1. M2[u] = N[u] /\ j \in 1..Len(N[u])
        BY <1>5, <3>1
      <4>2. /\ N[u][j] \in Held /\ g[N[u][j]] = <<u, j, 1>>
            /\ heap[N[u][j]] = [value |-> Ref(N, u, j), prev |-> At(N[u], j - 1),
                                next |-> At(N[u], j + 1)]
        BY <1>1, <4>1 DEF Nodes
      <4>3. heap'[N[u][j]] = heap[N[u][j]]
        BY <1>12, <3>1, <4>1
      <4>4. Ref(M2, u, j)' = Ref(N, u, j)
        BY <3>0, <4>1, <4>3 DEF Ref
      <4>5. M2[u][j] = N[u][j] /\ At(M2[u], j - 1) = At(N[u], j - 1)
            /\ At(M2[u], j + 1) = At(N[u], j + 1)
        BY <4>1
      <4>6. M2[u][j] \in Held' /\ h[M2[u][j]] = <<u, j, 1>>
        <5>1. h[N[u][j]] = g[N[u][j]] /\ N[u][j] \in Held'
          <6> HIDE DEF p, q
          <6> QED BY <1>4, <4>2
        <5> QED BY <4>2, <4>5, <5>1, Zenon
      <4>7. heap'[M2[u][j]] = [value |-> Ref(N, u, j), prev |-> At(N[u], j - 1),
                               next |-> At(N[u], j + 1)]
        BY <4>2, <4>3, <4>5, Zenon
      <4> HIDE DEF Ref
      <4> QED BY <4>4, <4>5, <4>6, <4>7, Zenon
    <3>2. CASE u = t /\ j \in 1..n
      <4>1. M2[t][j] = N[t][j] /\ j \in 1..Len(N[t]) /\ At(M2[t], j - 1) = At(N[t], j - 1)
        <5>1. j \in 1..Len(N[t])
          BY <3>2
        <5> HIDE DEF n
        <5>2. j - 1 \in 0..n
          BY <1>5, <3>2
        <5> QED BY <1>5, <3>2, <5>1, <5>2
      <4>2. /\ N[t][j] \in Held /\ g[N[t][j]] = <<t, j, 1>>
            /\ heap[N[t][j]] = [value |-> Ref(N, t, j), prev |-> At(N[t], j - 1),
                                next |-> At(N[t], j + 1)]
        BY <1>1, <4>1 DEF Nodes
      <4>3. h[N[t][j]] = <<t, j, 1>> /\ N[t][j] \in Held'
        BY <1>4, <4>2
      <4>4. CASE j = n
        <5>1. heap'[N[t][j]] = [heap[N[t][j]] EXCEPT !.next = q]
          <6>1. n > 0
            BY <1>5, <3>2
          <6> QED BY <1>2, <4>4, <6>1 DEF AreaAdded
        <5>2. At(M2[t], j + 1) = q
          BY <1>5, <4>4
        <5>3. heap'[N[t][j]] = [value |-> Ref(N, t, j), prev |-> At(N[t], j - 1), next |-> q]
          <6> HIDE DEF q
          <6> QED BY <4>2, <5>1
        <5>4. Ref(M2, u, j)' = Ref(N, t, j)
          <6> HIDE DEF Ref
          <6> QED BY <3>0, <3>2, <4>1, <5>3
        <5> HIDE DEF q, Ref
        <5> QED BY <3>2, <4>1, <4>3, <5>2, <5>3, <5>4
      <4>5. CASE j # n
        <5>1. heap'[N[t][j]] = heap[N[t][j]]
          BY <1>12, <4>1, <4>5
        <5>2. At(M2[t], j + 1) = At(N[t], j + 1)
          <6>1. j + 1 \in 0..n
            <7> HIDE DEF n
            <7> QED BY <1>5, <3>2, <4>5
          <6> QED BY <1>5, <6>1
        <5>3. heap'[M2[t][j]] = [value |-> Ref(N, t, j), prev |-> At(N[t], j - 1),
                                 next |-> At(N[t], j + 1)]
          BY <4>1, <4>2, <5>1, Zenon
        <5>4. Ref(M2, u, j)' = Ref(N, t, j)
          <6>1. heap'[M2[t][j]].value = heap[N[t][j]].value
            BY <4>1, <5>1, Zenon
          <6> QED BY <3>0, <3>2, <6>1, Zenon DEF Ref
        <5> HIDE DEF Ref
        <5> QED BY <3>2, <4>1, <4>3, <5>2, <5>3, <5>4, Zenon
      <4> QED BY <4>4, <4>5
    <3>3. CASE u = t /\ j = n + 1
      <4>1. M2[t][j] = q /\ q \in Held' /\ h[q] = <<t, j, 1>>
        BY <1>4, <1>5, <3>3
      <4>2. heap'[q] = [value |-> p, prev |-> At(N[t], n), next |-> NULL]
        BY <1>2 DEF AreaAdded
      <4>3. At(M2[t], j - 1) = At(N[t], n) /\ At(M2[t], j + 1) = NULL
        <5>1. j - 1 = n /\ j + 1 = n + 2 /\ n \in 0..n
          <6> HIDE DEF n
          <6> QED BY <1>5, <3>3
        <5> QED BY <1>5, <5>1
      <4> HIDE DEF p, q
      <4> QED BY <3>0, <3>3, <4>1, <4>2, <4>3
    <3>4. u # t \/ (u = t /\ j \in 1..n) \/ (u = t /\ j = n + 1)
      <4> SUFFICES ASSUME u = t PROVE j \in 1..n \/ j = n + 1
        OBVIOUS
      <4>1. j \in 1..(n + 1)
        BY <1>5
      <4> HIDE DEF n
      <4> QED BY <1>5, <4>1
    <3> QED BY <3>1, <3>2, <3>3, <3>4
  <2> QED BY <2>1, <2>2 DEF Nodes
<1>14. ASSUME NEW u \in Task, NEW j \in Idx(M2, d, u)
       PROVE  AreaAt(M2, h, u, j)'
  <2>1. CASE u = t /\ j = n + 1
    <3>1. Ref(M2, t, n + 1)' \in Held' /\ h[Ref(M2, t, n + 1)'] = <<t, n + 1, 2>>
      BY <1>4, <1>8
    <3>2. Len(Pages(M2, t, n + 1)') = 0
      BY <1>8
    <3>3. Ar(M2, t, n + 1)' \in Area' /\ Len(Pages(M2, t, n + 1)') <= Ar(M2, t, n + 1)'.n_pages
      BY <1>8, <3>2
    <3>4. 1..Len(Pages(M2, t, n + 1)') = {}
      BY <3>2
    <3> HIDE DEF Ref, Ar, Pages, n
    <3>5. \A a \in 1..Len(Pages(M2, t, n + 1)') :
            /\ Pages(M2, t, n + 1)'[a] \in Held'
            /\ h[Pages(M2, t, n + 1)'[a]] = <<t, n + 1, a + 2>>
            /\ heap'[Pages(M2, t, n + 1)'[a]] \in [data : Data]
      BY <3>4
    <3>6. AreaAt(M2, h, t, n + 1)'
      BY <3>1, <3>3, <3>5, Zenon DEF AreaAt
    <3> QED BY <2>1, <3>6
  <2>2. CASE j \in Idx(N, d, u)
    <3>1. AreaAt(N, g, u, j) /\ Same(N, M2, u, j)
      BY <1>7, <2>2 DEF Struct
    <3>2. Ref(N, u, j) \in Held' /\ h[Ref(N, u, j)] = g[Ref(N, u, j)]
      BY <1>4, <3>1 DEF AreaAt
    <3>3. ASSUME NEW a \in 1..Len(Pages(N, u, j))
          PROVE  /\ Pages(N, u, j)[a] \in Held'
                 /\ h[Pages(N, u, j)[a]] = g[Pages(N, u, j)[a]]
                 /\ heap'[Pages(N, u, j)[a]] \in [data : Data]
      <4>1. Pages(N, u, j)[a] \in Held /\ heap[Pages(N, u, j)[a]] \in [data : Data]
        BY <3>1 DEF AreaAt
      <4>2. Pages(N, u, j)[a] # old
        <5>1. CASE n > 0
          BY <1>11, <2>2, <5>1, Apart DEF Disjoint
        <5>2. CASE ~(n > 0)
          <6>1. old = NULL
            BY <1>5, <1>11, <5>2
          <6> QED BY <1>4, <4>1, <6>1, MemoryAssumption
        <5> QED BY <5>1, <5>2
      <4>3. heap'[Pages(N, u, j)[a]] = heap[Pages(N, u, j)[a]]
        BY <1>2, <1>4, <4>1, <4>2 DEF AreaAdded
      <4> QED BY <1>4, <4>1, <4>3
    <3> QED BY <3>1, <3>2, <3>3, SameAt
  <2> QED BY <1>6, <2>1, <2>2
<1>15. Owners(M2, d)'
  <2>1. ASSUME NEW r \in Held', r # p, r # q
        PROVE  \E u \in Task : \E j \in 1..Len(M2[u]) :
                 \/ r = M2[u][j]
                 \/ /\ j \in Idx(M2, d, u)
                    /\ r = Ref(M2, u, j)' \/ \E a \in 1..Len(Pages(M2, u, j)') : r = Pages(M2, u, j)'[a]
    <3>1. PICK u \in Task : \E j \in 1..Len(N[u]) :
            \/ r = N[u][j]
            \/ /\ j \in Idx(N, d, u)
               /\ r = Ref(N, u, j) \/ \E a \in 1..Len(Pages(N, u, j)) : r = Pages(N, u, j)[a]
      BY <1>1, <1>4, <2>1 DEF Owners
    <3>2. PICK j \in 1..Len(N[u]) :
            \/ r = N[u][j]
            \/ /\ j \in Idx(N, d, u)
               /\ r = Ref(N, u, j) \/ \E a \in 1..Len(Pages(N, u, j)) : r = Pages(N, u, j)[a]
      BY <3>1
    <3>3. j \in 1..Len(M2[u]) /\ M2[u][j] = N[u][j]
      <4>1. CASE u = t
        <5>1. j \in 1..n /\ j \in 1..(n + 1)
          <6> HIDE DEF n
          <6> QED BY <1>5, <4>1 DEF n
        <5> QED BY <1>5, <4>1, <5>1
      <4>2. CASE u # t
        BY <1>5, <4>2
      <4> QED BY <4>1, <4>2
    <3>4. j \in Idx(N, d, u) => /\ j \in Idx(M2, d, u) /\ Ref(M2, u, j)' = Ref(N, u, j)
                                /\ Pages(M2, u, j)' = Pages(N, u, j)
      <4> SUFFICES ASSUME j \in Idx(N, d, u)
                   PROVE  /\ j \in Idx(M2, d, u) /\ Ref(M2, u, j)' = Ref(N, u, j)
                          /\ Pages(M2, u, j)' = Pages(N, u, j)
        OBVIOUS
      <4>1. Same(N, M2, u, j)
        BY <1>7
      <4>2. j \in Idx(M2, d, u)
        <5>1. u = t => j \in 1..(n + 1)
          <6>1. u = t => j \in 1..n
            BY <1>6
          <6> HIDE DEF n
          <6> QED BY <1>5, <6>1
        <5> QED BY <1>6, <5>1
      <4> QED BY <4>1, <4>2 DEF Same
    <3> HIDE DEF Ref, Pages
    <3> QED BY <3>2, <3>3, <3>4
  <2>2. /\ n + 1 \in 1..Len(M2[t]) /\ n + 1 \in Idx(M2, d, t) /\ q = M2[t][n + 1]
        /\ p = Ref(M2, t, n + 1)'
    <3>1. n + 1 \in 1..(n + 1)
      <4> HIDE DEF n
      <4> QED BY <1>5
    <3> QED BY <1>5, <1>6, <1>8, <3>1
  <2> DEFINE Place(r) ==
        \E u \in Task : \E j \in 1..Len(M2[u]) :
          \/ r = M2[u][j]
          \/ /\ j \in Idx(M2, d, u)
             /\ r = Ref(M2, u, j)' \/ \E a \in 1..Len(Pages(M2, u, j)') : r = Pages(M2, u, j)'[a]
  <2>3. Place(p) /\ Place(q)
    <3> HIDE DEF n, p, q, Ref, Pages
    <3> QED BY <2>2
  <2>4. \A r \in Held' : Place(r)
    <3>1. \A r \in Held' : r # p /\ r # q => Place(r)
      BY <2>1
    <3> HIDE DEF Place, p, q
    <3> QED BY <2>3, <3>1
  <2> QED BY <2>4, Zenon DEF Owners
<1>16. Sorted(M2, d)'
  <2> SUFFICES ASSUME NEW u \in Task, NEW j \in Idx(M2, d, u), NEW k \in Idx(M2, d, u), j < k
               PROVE  End(M2, u, j)' <= Ar(M2, u, k)'.va
    BY DEF Sorted
  <2>1. j \in Idx(N, d, u)
    <3> SUFFICES ASSUME u = t, j = n + 1 PROVE FALSE
      BY <1>6
    <3>1. k \in 1..(n + 1)
      BY <1>6
    <3> HIDE DEF n
    <3> QED BY <1>5, <3>1
  <2>2. End(M2, u, j)' = End(N, u, j)
    BY <1>7, <2>1 DEF Same
  <2>3. CASE k \in Idx(N, d, u)
    <3>1. Ar(M2, u, k)' = Ar(N, u, k)
      BY <1>7, <2>3 DEF Same
    <3>2. End(N, u, j) <= Ar(N, u, k).va
      BY <1>1, <2>1, <2>3 DEF Sorted
    <3> QED BY <2>2, <3>1, <3>2
  <2>4. CASE u = t /\ k = n + 1
    <3>1. End(N, t, j) <= area.va
      BY <1>6, <2>1, <2>4
    <3> QED BY <1>8, <2>2, <2>4, <3>1
  <2> QED BY <1>6, <2>3, <2>4
<1>17. ASSUME NEW u \in Task, NEW j \in Idx(M2, d, u)
       PROVE  TableAt(M2, u, j)'
  <2>1. CASE u = t /\ j = n + 1
    <3>1. 1..Len(Pages(M2, t, n + 1)') = {}
      BY <1>8
    <3> QED BY <1>8, <2>1, <3>1 DEF TableAt
  <2>2. CASE j \in Idx(N, d, u)
    BY <1>3, <1>7, <2>2, SameTable DEF Struct
  <2> QED BY <1>6, <2>1, <2>2
<1>18. ASSUME NEW u \in Task, d[u] = 0 PROVE TableOf(M2, u)'
  <2> SUFFICES ASSUME NEW w \in UPage, table'[u][w] # None
               PROVE  \E j \in 1..Len(M2[u]) : w \in Mapped(M2, u, j)'
    BY DEF TableOf
  <2>1. PICK j \in 1..Len(N[u]) : w \in Mapped(N, u, j)
    BY <1>3, <1>18 DEF Struct, TableOf
  <2>2. j \in Idx(N, d, u)
    BY <1>18 DEF Idx
  <2>3. Mapped(M2, u, j)' = Mapped(N, u, j)
    BY <1>7, <2>2 DEF Same
  <2>4. j \in 1..Len(M2[u])
    <3>1. u = t => j \in 1..(n + 1)
      <4>1. u = t => j \in 1..n
        OBVIOUS
      <4> HIDE DEF n
      <4> QED BY <1>5, <4>1
    <3> QED BY <1>5, <3>1
  <2> QED BY <2>1, <2>3, <2>4
<1>19. Struct(M2, h, d)'
  BY <1>9, <1>10, <1>13, <1>14, <1>15, <1>16, <1>17, <1>18 DEF Struct
<1> QED BY <1>2, <1>19

-----------------------------------------------------------------------------
(* The lists of the tasks                                                  *)

\* A walk finds them, also when freed pages of theirs are still linked.
LEMMA WalkNodes ==
  ASSUME NEW N, NEW g, NEW d, Struct(N, g, d), NEW t \in Task,
         NEW w, w = [p \in Page |-> w[p]],
         \A i \in 1..Len(N[t]) : w[N[t][i]].next = heap[N[t][i]].next
  PROVE  Walk(w, areas[t]) = N[t]
<1>1. DOMAIN w = Page /\ IsFiniteSet(Page) /\ NULL \notin Page
  BY MemoryAssumption
<1>2. /\ N[t] \in Seq(Page) /\ areas[t] = Ends(N[t])
      /\ \A i \in 1..Len(N[t]) : heap[N[t][i]].next = At(N[t], i + 1)
  <2>1. Ghosts(N, g, d) /\ Nodes(N, g)
    BY DEF Struct
  <2>2. N[t] \in Seq(Page) /\ areas[t] = Ends(N[t])
    BY <2>1 DEF Ghosts, Nodes
  <2>3. ASSUME NEW i \in 1..Len(N[t]) PROVE heap[N[t][i]].next = At(N[t], i + 1)
    <3>1. heap[N[t][i]] = [value |-> Ref(N, t, i), prev |-> At(N[t], i - 1),
                           next |-> At(N[t], i + 1)]
      BY <2>1 DEF Nodes
    <3> HIDE DEF At, Ref
    <3> QED BY <3>1
  <2> QED BY <2>2, <2>3
<1>3. IsInjective(N[t])
  <2>1. \A i, j \in 1..Len(N[t]) : N[t][i] = N[t][j] => i = j
    BY Apart DEF Disjoint
  <2> QED BY <1>2, <2>1 DEF IsInjective
<1>4. areas[t].first = At(N[t], 1)
  BY <1>2 DEF Ends
<1>5. Path(N[t], areas[t].first, w)
  BY <1>1, <1>2, <1>3, <1>4 DEF Path
<1> QED BY <1>1, <1>5, WalkPath

\* No area of the list begins behind the new one: its node stays for the end.
LEMMA InsertedLast ==
  ASSUME NEW N, NEW g, NEW d, Struct(N, g, d), NEW t \in Task, d[t] = 0,
         NEW area, Room, NEW va \in Int,
         \A j \in 1..Len(N[t]) : Ar(N, t, j).va <= va
  PROVE  Inserted(Created(area), areas[t], NextPage, va)
           = [memory |-> Created(area), list |-> areas[t]]
<1> DEFINE m == Created(area)
           l == N[t]
           r == [memory |-> m, list |-> areas[t]]
<1>1. Types /\ Ghosts(N, g, d)
  BY DEF Struct
<1>2. NewPage \in Page \ used /\ NextPage \in Page \ used
  BY <1>1, NewFacts DEF Types
<1>3. m = [p \in Page |-> m[p]] /\ \A p \in Held : m[p] = heap[p]
  <2>1. heap = [p \in Page |-> heap[p]]
    BY <1>1 DEF Types
  <2>2. \A p \in Held : p \in Page /\ p # NewPage /\ p # NextPage
    BY <1>1, <1>2 DEF Held, Types
  <2> QED BY <1>2, <2>1, <2>2 DEF Created
<1>4. \A i \in 1..Len(l) : l[i] \in Held /\ Ref(N, t, i) \in Held
  <2>1. Idx(N, d, t) = 1..Len(l)
    BY DEF Idx
  <2> QED BY <2>1, Places
<1>5. Walk(m, areas[t]) = l
  <2>1. \A i \in 1..Len(l) : m[l[i]].next = heap[l[i]].next
    BY <1>3, <1>4
  <2> HIDE DEF m
  <2> QED BY <1>3, <2>1, WalkNodes
<1>6. \A i \in 1..Len(l) : ~(AreaOf(m, l[i]).va > va)
  <2> TAKE i \in 1..Len(l)
  <2>1. AreaOf(m, l[i]) = Ar(N, t, i)
    <3>1. m[l[i]].value = Ref(N, t, i)
      BY <1>3, <1>4 DEF Ref
    <3>2. m[Ref(N, t, i)] = Ar(N, t, i)
      BY <1>3, <1>4 DEF Ar
    <3> QED BY <3>1, <3>2 DEF AreaOf
  <2>2. i \in Idx(N, d, t)
    BY DEF Idx
  <2>3. Ar(N, t, i).va \in Nat /\ Ar(N, t, i).va <= va
    <3>1. AreaAt(N, g, t, i)
      BY <2>2 DEF Struct
    <3> QED BY <3>1 DEF AreaAt, Area
  <2> QED BY <2>1, <2>3
<1>7. Len(l) \in Nat
  BY <1>1 DEF Ghosts
<1> HIDE DEF m
<1> DEFINE Is(f, w) ==
             f = [i \in 0..Len(w) |->
                    IF i = 0 THEN r
                    ELSE IF AreaOf(m, w[i]).va > va
                         THEN list_insert_before(f[i - 1].memory, f[i - 1].list, NextPage, w[i])
                         ELSE f[i - 1]]
           Value(w) == (CHOOSE f : Is(f, w))[Len(w)]
<1>8. Inserted(m, areas[t], NextPage, va) = Value(Walk(m, areas[t]))
  BY Zenon DEF Inserted
<1>9. Inserted(m, areas[t], NextPage, va) = Value(l)
  <2> HIDE DEF Value
  <2> QED BY <1>5, <1>8
<1> DEFINE f == CHOOSE x : Is(x, l)
<1> HIDE DEF r, l
<1>10. Is(f, l)
  <2> DEFINE e == [i \in 0..Len(l) |-> r]
  <2>1. Is(e, l)
    <3>1. \A i \in 0..Len(l) : i # 0 => i \in 1..Len(l) /\ i - 1 \in 0..Len(l)
      BY <1>7
    <3>2. \A i \in 0..Len(l) :
            r = IF i = 0 THEN r
                ELSE IF AreaOf(m, l[i]).va > va
                     THEN list_insert_before(e[i - 1].memory, e[i - 1].list, NextPage, l[i])
                     ELSE e[i - 1]
      BY <1>6, <3>1
    <3> QED BY <3>2
  <2> HIDE DEF Is, e
  <2> QED BY <2>1
<1> HIDE DEF f
<1>11. f[0] = r /\ \A i \in 1..Len(l) : f[i] = f[i - 1]
  <2>1. \A i \in 0..Len(l) :
          f[i] = IF i = 0 THEN r
                 ELSE IF AreaOf(m, l[i]).va > va
                      THEN list_insert_before(f[i - 1].memory, f[i - 1].list, NextPage, l[i])
                      ELSE f[i - 1]
    BY <1>10
  <2>2. 0 \in 0..Len(l) /\ \A i \in 1..Len(l) : i \in 0..Len(l) /\ i # 0
    BY <1>7
  <2> QED BY <1>6, <2>1, <2>2
<1>12. f[Len(l)] = r
  <2> DEFINE X == {i \in 0..Len(l) : f[i] = r}
  <2>1. 0 \in X
    BY <1>7, <1>11
  <2>2. ASSUME NEW i \in 1..Len(l), i - 1 \in X PROVE i \in X
    BY <1>7, <1>11, <2>2
  <2> HIDE DEF X
  <2>3. \A i \in 0..Len(l) : i \in X
    BY <1>7, <2>1, <2>2, Induct
  <2>4. Len(l) \in X
    BY <1>7, <2>3
  <2> QED BY <2>4 DEF X
<1> QED BY <1>9, <1>12 DEF f, r, m

-----------------------------------------------------------------------------
(* An area less                                                            *)

LEMMA DecrefStep ==
  ASSUME NEW N, NEW g, NEW d, Struct(N, g, d), NEW t \in Task, d[t] < Len(N[t]),
         DecrefArea, call.node = N[t][d[t] + 1],
         NEW d2, d2 = [d EXCEPT ![t] = @ + 1]
  PROVE  /\ Struct(N, g, d2)'
         /\ \A u \in Task : \A j \in Idx(N, d2, u) : Same(N, N, u, j)
<1> DEFINE i == d[t] + 1
           a == Ref(N, t, i)
           s == Pages(N, t, i)
<1>1. Types /\ Ghosts(N, g, d) /\ Nodes(N, g) /\ Owners(N, d) /\ Sorted(N, d)
  BY DEF Struct
<1>2. /\ d[t] \in Nat /\ Len(N[t]) \in Nat /\ i \in Idx(N, d, t) /\ i \in 1..Len(N[t])
      /\ d2 \in [Task -> Nat] /\ d2[t] = i
      /\ \A u \in Task : u # t => d2[u] = d[u]
  <2>1. d \in [Task -> Nat] /\ N[t] \in Seq(Page)
    BY <1>1 DEF Ghosts
  <2>2. d[t] \in Nat /\ Len(N[t]) \in Nat
    BY <2>1
  <2> QED BY <2>1, <2>2 DEF Idx
<1>3. AreaAt(N, g, t, i) /\ Ar(N, t, i).refcount = 1 /\ s \in Seq(Page)
  <2>1. AreaAt(N, g, t, i)
    BY <1>2 DEF Struct
  <2> QED BY <2>1 DEF AreaAt, Area, Pages
<1>4. \A p : p \in ToSet(s) <=> \E k \in 1..Len(s) : p = s[k]
  <2>1. DOMAIN s = 1..Len(s)
    BY <1>3
  <2> QED BY <2>1 DEF ToSet
<1> DEFINE freed == ToSet(s) \cup {a}
<1>5. /\ used' = used \ freed
      /\ heap' = [p \in Page |-> IF p \in freed THEN Free
                                 ELSE IF p = a THEN [heap[p] EXCEPT !.refcount = @ - 1]
                                 ELSE heap[p]]
      /\ UNCHANGED <<areas, table, live, args, panicked>>
  <2>1. heap[call.node].value = a
    BY DEF Ref
  <2>2. heap[a].refcount = 1 /\ heap[a].pages = s
    BY <1>3 DEF Ar, Pages
  <2> HIDE DEF a, s
  <2> QED BY <2>1, <2>2 DEF DecrefArea
<1>6. freed \subseteq Held
  BY <1>3, <1>4 DEF AreaAt
<1>7. /\ heap' = [p \in Page |-> heap'[p]]
      /\ \A p \in Held : p \notin freed => heap'[p] = heap[p]
      /\ Held' = Held \ freed
  <2>1. Held \subseteq Page
    BY <1>1 DEF Held, Types
  <2>2. heap' = [p \in Page |-> IF p \in freed THEN Free ELSE heap[p]]
    BY <1>5
  <2> HIDE DEF freed
  <2>3. Held' = Held \ freed
    BY <1>5 DEF Held
  <2> QED BY <2>1, <2>2, <2>3
<1>8. ASSUME NEW u \in Task, NEW j \in 1..Len(N[u])
      PROVE  N[u][j] \in Held /\ N[u][j] \notin freed /\ heap'[N[u][j]] = heap[N[u][j]]
  <2>1. N[u][j] \in Held
    BY <1>1 DEF Nodes
  <2>2. N[u][j] \notin freed
    BY <1>2, <1>4, Apart DEF Disjoint
  <2> QED BY <1>7, <2>1, <2>2
<1>9. ASSUME NEW u \in Task, NEW j \in Idx(N, d2, u)
      PROVE  j \in Idx(N, d, u) /\ <<u, j>> # <<t, i>> /\ j \in 1..Len(N[u])
  <2>1. /\ d[u] \in Nat /\ Len(N[u]) \in Nat
    BY <1>1 DEF Ghosts
  <2>2. CASE u = t
    <3>1. j \in (i + 1)..Len(N[t])
      BY <1>2, <2>2 DEF Idx
    <3> QED BY <1>2, <2>2, <3>1 DEF Idx
  <2>3. CASE u # t
    BY <1>2, <2>1, <2>3 DEF Idx
  <2> QED BY <2>2, <2>3
<1>10. ASSUME NEW u \in Task, NEW j \in Idx(N, d, u), <<u, j>> # <<t, i>>
       PROVE  /\ Ref(N, u, j) \in Held /\ Ref(N, u, j) \notin freed
              /\ \A k \in 1..Len(Pages(N, u, j)) :
                   Pages(N, u, j)[k] \in Held /\ Pages(N, u, j)[k] \notin freed
  <2>1. /\ Ref(N, u, j) \in Held
        /\ \A k \in 1..Len(Pages(N, u, j)) : Pages(N, u, j)[k] \in Held
    BY Places
  <2>2. Disjoint(N, d, u, t) /\ Disjoint(N, d, t, u)
    BY Apart
  <2>3. Ref(N, u, j) \notin freed
    <3>1. Ref(N, u, j) # a
      BY <1>2, <1>10, <2>2 DEF Disjoint
    <3>2. \A k \in 1..Len(s) : Ref(N, u, j) # s[k]
      BY <1>2, <2>2 DEF Disjoint
    <3> QED BY <1>4, <3>1, <3>2
  <2>4. ASSUME NEW k \in 1..Len(Pages(N, u, j)) PROVE Pages(N, u, j)[k] \notin freed
    <3>1. Pages(N, u, j)[k] # a
      BY <1>2, <2>2 DEF Disjoint
    <3>2. \A b \in 1..Len(s) : Pages(N, u, j)[k] # s[b]
      BY <1>2, <1>10, <2>2 DEF Disjoint
    <3> QED BY <1>4, <3>1, <3>2
  <2> QED BY <2>1, <2>3, <2>4
<1>11. ASSUME NEW u \in Task, NEW j \in Idx(N, d2, u)
       PROVE  Same(N, N, u, j)
  <2>1. heap'[N[u][j]].value = heap[N[u][j]].value
    BY <1>8, <1>9
  <2>2. heap'[Ref(N, u, j)] = heap[Ref(N, u, j)]
    <3>1. Ref(N, u, j) \in Held /\ Ref(N, u, j) \notin freed
      BY <1>9, <1>10
    <3> QED BY <1>7, <3>1
  <2> QED BY <2>1, <2>2, SameArea
<1>12. Types'
  BY <1>1, <1>5, <1>6, <1>7 DEF Types, Held
<1>13. Ghosts(N, g, d2)'
  BY <1>1, <1>2 DEF Ghosts
<1>14. Nodes(N, g)'
  <2>1. ASSUME NEW u \in Task, NEW j \in 1..Len(N[u])
        PROVE  /\ N[u][j] \in Held' /\ g[N[u][j]] = <<u, j, 1>>
               /\ heap'[N[u][j]] = [value |-> Ref(N, u, j)', prev |-> At(N[u], j - 1),
                                    next |-> At(N[u], j + 1)]
    <3>1. /\ g[N[u][j]] = <<u, j, 1>>
          /\ heap[N[u][j]] = [value |-> Ref(N, u, j), prev |-> At(N[u], j - 1),
                              next |-> At(N[u], j + 1)]
      BY <1>1 DEF Nodes
    <3>2. Ref(N, u, j)' = Ref(N, u, j)
      BY <1>8 DEF Ref
    <3> HIDE DEF Ref, At
    <3> QED BY <1>7, <1>8, <3>1, <3>2
  <2> QED BY <1>1, <1>5, <2>1 DEF Nodes
<1>15. ASSUME NEW u \in Task, NEW j \in Idx(N, d2, u)
       PROVE  AreaAt(N, g, u, j)'
  <2>1. AreaAt(N, g, u, j) /\ Same(N, N, u, j)
    BY <1>9, <1>11 DEF Struct
  <2>2. /\ Ref(N, u, j) \in Held'
        /\ \A k \in 1..Len(Pages(N, u, j)) : Pages(N, u, j)[k] \in Held'
    BY <1>7, <1>9, <1>10
  <2>3. ASSUME NEW k \in 1..Len(Pages(N, u, j))
        PROVE  heap'[Pages(N, u, j)[k]] \in [data : Data]
    <3>1. heap'[Pages(N, u, j)[k]] = heap[Pages(N, u, j)[k]]
      BY <1>7, <1>9, <1>10
    <3> QED BY <2>1, <3>1 DEF AreaAt
  <2> QED BY <2>1, <2>2, <2>3, SameAt
<1>16. Owners(N, d2)'
  <2>1. ASSUME NEW p \in Held'
        PROVE  \E u \in Task : \E j \in 1..Len(N[u]) :
                 \/ p = N[u][j]
                 \/ /\ j \in Idx(N, d2, u)
                    /\ p = Ref(N, u, j)' \/ \E k \in 1..Len(Pages(N, u, j)') : p = Pages(N, u, j)'[k]
    <3>1. PICK u \in Task : \E j \in 1..Len(N[u]) :
            \/ p = N[u][j]
            \/ /\ j \in Idx(N, d, u)
               /\ p = Ref(N, u, j) \/ \E k \in 1..Len(Pages(N, u, j)) : p = Pages(N, u, j)[k]
      BY <1>1, <1>7 DEF Owners
    <3>2. PICK j \in 1..Len(N[u]) :
            \/ p = N[u][j]
            \/ /\ j \in Idx(N, d, u)
               /\ p = Ref(N, u, j) \/ \E k \in 1..Len(Pages(N, u, j)) : p = Pages(N, u, j)[k]
      BY <3>1
    <3>3. CASE p = N[u][j]
      BY <3>3
    <3>4. CASE p # N[u][j]
      <4>1. <<u, j>> # <<t, i>>
        BY <1>4, <1>7, <3>2, <3>4
      <4>2. j \in Idx(N, d2, u)
        <5>1. d[u] \in Nat /\ Len(N[u]) \in Nat /\ j \in Idx(N, d, u)
          BY <1>1, <3>2, <3>4 DEF Ghosts
        <5>2. CASE u = t
          BY <1>2, <4>1, <5>1, <5>2 DEF Idx
        <5>3. CASE u # t
          BY <1>2, <5>1, <5>3 DEF Idx
        <5> QED BY <5>2, <5>3
      <4>3. Ref(N, u, j)' = Ref(N, u, j) /\ Pages(N, u, j)' = Pages(N, u, j)
        BY <1>11, <4>2 DEF Same
      <4> HIDE DEF Ref, Pages
      <4> QED BY <3>2, <3>4, <4>2, <4>3
    <3> QED BY <3>3, <3>4
  <2> QED BY <2>1 DEF Owners
<1>17. Sorted(N, d2)'
  <2> SUFFICES ASSUME NEW u \in Task, NEW j \in Idx(N, d2, u), NEW k \in Idx(N, d2, u), j < k
               PROVE  End(N, u, j)' <= Ar(N, u, k)'.va
    BY DEF Sorted
  <2>1. End(N, u, j) <= Ar(N, u, k).va
    BY <1>1, <1>9 DEF Sorted
  <2>2. End(N, u, j)' = End(N, u, j) /\ Ar(N, u, k)' = Ar(N, u, k)
    BY <1>11 DEF Same
  <2> QED BY <2>1, <2>2
<1>18. \A u \in Task : \A j \in Idx(N, d2, u) : TableAt(N, u, j)'
  BY <1>5, <1>9, <1>11, SameTable DEF Struct
<1>19. ASSUME NEW u \in Task, d2[u] = 0 PROVE TableOf(N, u)'
  <2>1. u # t /\ d[u] = 0
    BY <1>2, <1>19
  <2>2. \A j \in 1..Len(N[u]) : Mapped(N, u, j)' = Mapped(N, u, j)
    <3> TAKE j \in 1..Len(N[u])
    <3>1. j \in Idx(N, d2, u)
      BY <1>19 DEF Idx
    <3> QED BY <1>11, <3>1 DEF Same
  <2>3. TableOf(N, u)
    BY <2>1 DEF Struct
  <2> HIDE DEF Mapped
  <2> QED BY <1>5, <2>2, <2>3 DEF TableOf
<1>20. Struct(N, g, d2)'
  BY <1>12, <1>13, <1>14, <1>15, <1>16, <1>17, <1>18, <1>19 DEF Struct
<1> QED BY <1>11, <1>20

\* The step changes nothing but nodes of the list.
OnlyNodes(N, t) ==
  \A p \in Page : (\A k \in 1..Len(N[t]) : p # N[t][k]) => heap'[p] = heap[p]

LEMMA DecrefDoneStep ==
  ASSUME NEW N, NEW g, NEW d, Struct(N, g, d), NEW t \in Task, d[t] = Len(N[t]),
         DecrefDone, call.task = t, call.pc = "exit" => t # 1,
         NEW M2, M2 = [N EXCEPT ![t] = << >>],
         NEW d2, d2 = [d EXCEPT ![t] = 0]
  PROVE  /\ Struct(M2, g, d2)'
         /\ \A u \in Task : u # t => \A j \in Idx(N, d, u) : Same(N, M2, u, j)
         /\ OnlyNodes(N, t)
<1> DEFINE freed == ToSet(N[t])
<1>1. Types /\ Ghosts(N, g, d) /\ Nodes(N, g) /\ Owners(N, d) /\ Sorted(N, d)
  BY DEF Struct
<1>2. /\ N[t] \in Seq(Page) /\ Len(N[t]) \in Nat
      /\ M2 \in [Task -> Seq(Page)] /\ M2[t] = << >> /\ Len(M2[t]) = 0
      /\ \A u \in Task : u # t => M2[u] = N[u]
      /\ d2 \in [Task -> Nat] /\ d2[t] = 0
      /\ \A u \in Task : u # t => d2[u] = d[u]
  <2>1. N \in [Task -> Seq(Page)] /\ d \in [Task -> Nat]
    BY <1>1 DEF Ghosts
  <2>2. N[t] \in Seq(Page) /\ << >> \in Seq(Page)
    BY <2>1
  <2> QED BY <2>1, <2>2
<1>3. \A p : p \in freed <=> \E k \in 1..Len(N[t]) : p = N[t][k]
  <2>1. DOMAIN N[t] = 1..Len(N[t])
    BY <1>2
  <2> QED BY <2>1 DEF ToSet
<1>4. list_destroyed(t) = freed
  <2> DEFINE w == [p \in Page |-> kfreed(heap[p])]
  <2>1. \A k \in 1..Len(N[t]) : w[N[t][k]].next = heap[N[t][k]].next
    <3> TAKE k \in 1..Len(N[t])
    <3>1. N[t][k] \in Page
      BY <1>2
    <3>2. heap[N[t][k]] = [value |-> Ref(N, t, k), prev |-> At(N[t], k - 1),
                           next |-> At(N[t], k + 1)]
      BY <1>1 DEF Nodes
    <3> HIDE DEF Ref, At
    <3> QED BY <3>1, <3>2 DEF kfreed
  <2>2. w = [p \in Page |-> w[p]]
    OBVIOUS
  <2>3. list_destroyed(t) = ToSet(Walk(w, areas[t]))
    BY DEF list_destroyed
  <2> HIDE DEF w
  <2>4. Walk(w, areas[t]) = N[t]
    BY <2>1, <2>2, WalkNodes
  <2> QED BY <2>3, <2>4
<1> HIDE DEF freed
<1>5. /\ used' = used \ freed
      /\ heap' = [p \in Page |-> IF p \in freed THEN Free ELSE heap[p]]
      /\ areas' = [areas EXCEPT ![t] = list_init]
      /\ table' = [table EXCEPT ![t] = Empty]
      /\ live' = live \/ (live' = live \ {t} /\ t # 1)
      /\ args' = args
  <2>1. /\ used' = used \ list_destroyed(t)
        /\ heap' = [p \in Page |-> IF p \in list_destroyed(t) THEN Free ELSE heap[p]]
        /\ areas' = [areas EXCEPT ![t] = list_init]
        /\ table' = [table EXCEPT ![t] = Empty]
        /\ args' = args
    BY DEF DecrefDone
  <2>2. live' = live \/ (live' = live \ {t} /\ t # 1)
    <3>1. CASE call.pc = "exec"
      BY <3>1 DEF DecrefDone
    <3>2. CASE call.pc = "exit"
      BY <3>2 DEF DecrefDone
    <3> QED BY <3>1, <3>2 DEF DecrefDone
  <2> QED BY <1>4, <2>1, <2>2
<1>6. freed \subseteq Held /\ Held \subseteq Page
  <2>1. \A k \in 1..Len(N[t]) : N[t][k] \in Held
    BY <1>1 DEF Nodes
  <2>2. Held \subseteq Page
    BY <1>1 DEF Held, Types
  <2> QED BY <1>3, <2>1, <2>2
<1>7. /\ heap' = [p \in Page |-> heap'[p]]
      /\ \A p \in Held : p \notin freed => heap'[p] = heap[p]
      /\ Held' = Held \ freed
  <2>1. Held' = Held \ freed
    BY <1>5 DEF Held
  <2> QED BY <1>5, <1>6, <2>1
<1>8. ASSUME NEW u \in Task, u # t, NEW j \in 1..Len(N[u])
      PROVE  N[u][j] \in Held /\ N[u][j] \notin freed /\ heap'[N[u][j]] = heap[N[u][j]]
  <2>1. N[u][j] \in Held
    BY <1>1 DEF Nodes
  <2>2. N[u][j] \notin freed
    BY <1>3, <1>8, Apart DEF Disjoint
  <2> QED BY <1>7, <2>1, <2>2
<1>9. /\ Idx(N, d, t) = {} /\ Idx(M2, d2, t) = {}
      /\ \A u \in Task : u # t => Idx(M2, d2, u) = Idx(N, d, u)
  BY <1>2 DEF Idx
<1>10. ASSUME NEW u \in Task, NEW j \in Idx(N, d, u)
       PROVE  /\ u # t
              /\ Ref(N, u, j) \in Held /\ Ref(N, u, j) \notin freed
              /\ \A k \in 1..Len(Pages(N, u, j)) :
                   Pages(N, u, j)[k] \in Held /\ Pages(N, u, j)[k] \notin freed
  <2>1. /\ Ref(N, u, j) \in Held
        /\ \A k \in 1..Len(Pages(N, u, j)) : Pages(N, u, j)[k] \in Held
    BY Places
  <2>2. Disjoint(N, d, t, u)
    BY Apart
  <2>3. \A k \in 1..Len(N[t]) : N[t][k] # Ref(N, u, j)
    BY <2>2 DEF Disjoint
  <2>4. \A k \in 1..Len(N[t]) : \A b \in 1..Len(Pages(N, u, j)) : N[t][k] # Pages(N, u, j)[b]
    BY <2>2 DEF Disjoint
  <2> QED BY <1>3, <1>9, <2>1, <2>3, <2>4
<1>11. ASSUME NEW u \in Task, u # t, NEW j \in Idx(N, d, u)
       PROVE  Same(N, M2, u, j)
  <2>1. j \in 1..Len(N[u])
    BY <1>1 DEF Ghosts, Idx
  <2>2. heap'[N[u][j]].value = heap[N[u][j]].value
    BY <1>8, <1>11, <2>1
  <2>3. heap'[Ref(N, u, j)] = heap[Ref(N, u, j)]
    BY <1>7, <1>10
  <2>4. M2[u][j] = N[u][j]
    BY <1>2, <1>11
  <2> QED BY <2>2, <2>3, <2>4, SameArea
<1>12. Types'
  <2>1. Empty \in [UPage -> Entry \cup {None}]
    BY DEF Empty
  <2>2. table' \in [Task -> [UPage -> Entry \cup {None}]]
    <3> HIDE DEF Empty
    <3> QED BY <1>1, <1>5, <2>1 DEF Types
  <2>3. areas' = [u \in Task |-> areas'[u]]
    BY <1>1, <1>5 DEF Types
  <2>4. used' \subseteq Page /\ args' \subseteq used'
    BY <1>1, <1>5, <1>6 DEF Types, Held
  <2> QED BY <1>1, <1>5, <1>7, <2>2, <2>3, <2>4 DEF Types
<1>13. Ghosts(M2, g, d2)'
  BY <1>1, <1>2 DEF Ghosts
<1>14. Nodes(M2, g)'
  <2>1. ASSUME NEW u \in Task PROVE areas'[u] = Ends(M2[u])
    <3>1. CASE u = t
      <4>1. areas'[t] = list_init
        BY <1>1, <1>5 DEF Types
      <4>2. Ends(M2[t]) = list_init
        BY <1>2 DEF Ends, At, list_init
      <4> QED BY <3>1, <4>1, <4>2
    <3>2. CASE u # t
      <4>1. areas'[u] = areas[u]
        BY <1>1, <1>5, <3>2 DEF Types
      <4> QED BY <1>1, <1>2, <3>2, <4>1 DEF Nodes
    <3> QED BY <3>1, <3>2
  <2>2. ASSUME NEW u \in Task, NEW j \in 1..Len(M2[u])
        PROVE  /\ M2[u][j] \in Held' /\ g[M2[u][j]] = <<u, j, 1>>
               /\ heap'[M2[u][j]] = [value |-> Ref(M2, u, j)', prev |-> At(M2[u], j - 1),
                                     next |-> At(M2[u], j + 1)]
    <3>1. u # t /\ M2[u] = N[u] /\ j \in 1..Len(N[u])
      BY <1>2
    <3>2. /\ g[N[u][j]] = <<u, j, 1>>
          /\ heap[N[u][j]] = [value |-> Ref(N, u, j), prev |-> At(N[u], j - 1),
                              next |-> At(N[u], j + 1)]
      BY <1>1, <3>1 DEF Nodes
    <3>3. Ref(M2, u, j)' = Ref(N, u, j)
      BY <1>8, <3>1 DEF Ref
    <3>4. heap'[N[u][j]] = heap[N[u][j]] /\ N[u][j] \in Held'
      BY <1>7, <1>8, <3>1
    <3> HIDE DEF Ref, At
    <3> QED BY <3>1, <3>2, <3>3, <3>4
  <2> QED BY <2>1, <2>2 DEF Nodes
<1>15. ASSUME NEW u \in Task, NEW j \in Idx(M2, d2, u)
       PROVE  u # t /\ j \in Idx(N, d, u) /\ Same(N, M2, u, j)
  BY <1>9, <1>11
<1>16. ASSUME NEW u \in Task, NEW j \in Idx(M2, d2, u)
       PROVE  AreaAt(M2, g, u, j)'
  <2>1. AreaAt(N, g, u, j) /\ Same(N, M2, u, j)
    BY <1>15 DEF Struct
  <2>2. /\ Ref(N, u, j) \in Held'
        /\ \A k \in 1..Len(Pages(N, u, j)) : Pages(N, u, j)[k] \in Held'
    BY <1>7, <1>10, <1>15
  <2>3. ASSUME NEW k \in 1..Len(Pages(N, u, j))
        PROVE  heap'[Pages(N, u, j)[k]] \in [data : Data]
    <3>1. heap'[Pages(N, u, j)[k]] = heap[Pages(N, u, j)[k]]
      BY <1>7, <1>10, <1>15
    <3> QED BY <2>1, <3>1 DEF AreaAt
  <2> QED BY <2>1, <2>2, <2>3, SameAt
<1>17. Owners(M2, d2)'
  <2>1. ASSUME NEW p \in Held'
        PROVE  \E u \in Task : \E j \in 1..Len(M2[u]) :
                 \/ p = M2[u][j]
                 \/ /\ j \in Idx(M2, d2, u)
                    /\ p = Ref(M2, u, j)' \/ \E k \in 1..Len(Pages(M2, u, j)') : p = Pages(M2, u, j)'[k]
    <3>1. PICK u \in Task : \E j \in 1..Len(N[u]) :
            \/ p = N[u][j]
            \/ /\ j \in Idx(N, d, u)
               /\ p = Ref(N, u, j) \/ \E k \in 1..Len(Pages(N, u, j)) : p = Pages(N, u, j)[k]
      BY <1>1, <1>7 DEF Owners
    <3>2. PICK j \in 1..Len(N[u]) :
            \/ p = N[u][j]
            \/ /\ j \in Idx(N, d, u)
               /\ p = Ref(N, u, j) \/ \E k \in 1..Len(Pages(N, u, j)) : p = Pages(N, u, j)[k]
      BY <3>1
    <3>3. u # t
      <4> SUFFICES ASSUME u = t PROVE FALSE
        OBVIOUS
      <4>1. p = N[t][j]
        BY <1>9, <3>2
      <4> QED BY <1>3, <1>7, <4>1
    <3>4. M2[u] = N[u] /\ Idx(M2, d2, u) = Idx(N, d, u)
      BY <1>2, <1>9, <3>3
    <3>5. j \in Idx(N, d, u) => Ref(M2, u, j)' = Ref(N, u, j) /\ Pages(M2, u, j)' = Pages(N, u, j)
      BY <1>11, <3>3 DEF Same
    <3> HIDE DEF Ref, Pages
    <3> QED BY <3>2, <3>4, <3>5
  <2> QED BY <2>1 DEF Owners
<1>18. Sorted(M2, d2)'
  <2> SUFFICES ASSUME NEW u \in Task, NEW j \in Idx(M2, d2, u), NEW k \in Idx(M2, d2, u), j < k
               PROVE  End(M2, u, j)' <= Ar(M2, u, k)'.va
    BY DEF Sorted
  <2>1. End(N, u, j) <= Ar(N, u, k).va
    BY <1>1, <1>15 DEF Sorted
  <2>2. End(M2, u, j)' = End(N, u, j) /\ Ar(M2, u, k)' = Ar(N, u, k)
    BY <1>15 DEF Same
  <2> QED BY <2>1, <2>2
<1>19. \A u \in Task : u # t => table'[u] = table[u]
  BY <1>1, <1>5 DEF Types
<1>20. \A u \in Task : \A j \in Idx(M2, d2, u) : TableAt(M2, u, j)'
  BY <1>15, <1>19, SameTable DEF Struct
<1>21. ASSUME NEW u \in Task, d2[u] = 0 PROVE TableOf(M2, u)'
  <2>1. CASE u = t
    <3>1. table'[t] = Empty
      BY <1>1, <1>5 DEF Types
    <3>2. \A v \in UPage : table'[t][v] = None
      BY <3>1 DEF Empty
    <3> QED BY <2>1, <3>2 DEF TableOf
  <2>2. CASE u # t
    <3>1. d[u] = 0 /\ M2[u] = N[u]
      BY <1>2, <1>21, <2>2
    <3>2. \A j \in 1..Len(N[u]) : Mapped(M2, u, j)' = Mapped(N, u, j)
      <4> TAKE j \in 1..Len(N[u])
      <4>1. j \in Idx(N, d, u)
        BY <3>1 DEF Idx
      <4> QED BY <1>11, <2>2, <4>1 DEF Same
    <3>3. TableOf(N, u)
      BY <3>1 DEF Struct
    <3> HIDE DEF Mapped
    <3> QED BY <1>19, <2>2, <3>1, <3>2, <3>3 DEF TableOf
  <2> QED BY <2>1, <2>2
<1>22. Struct(M2, g, d2)'
  BY <1>12, <1>13, <1>14, <1>16, <1>17, <1>18, <1>20, <1>21 DEF Struct
<1>23. OnlyNodes(N, t)
  BY <1>3, <1>5 DEF OnlyNodes
<1>24. \A u \in Task : u # t => \A j \in Idx(N, d, u) : Same(N, M2, u, j)
  BY <1>11
<1> QED BY <1>22, <1>23, <1>24

-----------------------------------------------------------------------------
(* Steps that leave the structure alone                                    *)

\* At most the contents of some frames F change.
LEMMA KeptStep ==
  ASSUME NEW N, NEW g, NEW d, Struct(N, g, d), NEW F,
         \A u \in Task : \A j \in 1..Len(N[u]) : N[u][j] \notin F,
         \A u \in Task : \A j \in Idx(N, d, u) : Ref(N, u, j) \notin F,
         heap' = [p \in Page |-> heap'[p]],
         \A p \in Held : IF p \in F THEN heap'[p] \in [data : Data] ELSE heap'[p] = heap[p],
         UNCHANGED <<areas, table>>, Held' = Held,
         used' \subseteq Page, args' \subseteq used', live' \subseteq Task, 1 \in live'
  PROVE  /\ Struct(N, g, d)'
         /\ \A u \in Task : \A j \in Idx(N, d, u) : Same(N, N, u, j)
<1>1. Types /\ Ghosts(N, g, d) /\ Nodes(N, g) /\ Owners(N, d) /\ Sorted(N, d)
  BY DEF Struct
<1>2. ASSUME NEW u \in Task, NEW j \in 1..Len(N[u])
      PROVE  N[u][j] \in Held /\ heap'[N[u][j]] = heap[N[u][j]] /\ Ref(N, u, j)' = Ref(N, u, j)
  <2>1. N[u][j] \in Held /\ N[u][j] \notin F
    BY Places
  <2> QED BY <2>1 DEF Ref
<1>3. ASSUME NEW u \in Task, NEW j \in Idx(N, d, u)
      PROVE  Same(N, N, u, j)
  <2>1. j \in 1..Len(N[u]) /\ Ref(N, u, j) \in Held /\ Ref(N, u, j) \notin F
    BY Places
  <2>2. heap'[N[u][j]].value = heap[N[u][j]].value
    BY <1>2, <2>1
  <2>3. heap'[Ref(N, u, j)] = heap[Ref(N, u, j)]
    BY <2>1
  <2> QED BY <2>2, <2>3, SameArea
<1>4. Types'
  BY <1>1 DEF Types
<1>5. Ghosts(N, g, d)'
  BY <1>1 DEF Ghosts
<1>6. Nodes(N, g)'
  <2>1. ASSUME NEW u \in Task, NEW j \in 1..Len(N[u])
        PROVE  /\ N[u][j] \in Held' /\ g[N[u][j]] = <<u, j, 1>>
               /\ heap'[N[u][j]] = [value |-> Ref(N, u, j)', prev |-> At(N[u], j - 1),
                                    next |-> At(N[u], j + 1)]
    <3>1. /\ g[N[u][j]] = <<u, j, 1>>
          /\ heap[N[u][j]] = [value |-> Ref(N, u, j), prev |-> At(N[u], j - 1),
                              next |-> At(N[u], j + 1)]
      BY <1>1 DEF Nodes
    <3> HIDE DEF Ref, At
    <3> QED BY <1>2, <3>1
  <2> QED BY <1>1, <2>1 DEF Nodes
<1>7. ASSUME NEW u \in Task, NEW j \in Idx(N, d, u)
      PROVE  AreaAt(N, g, u, j)'
  <2>1. AreaAt(N, g, u, j) /\ Same(N, N, u, j)
    BY <1>3 DEF Struct
  <2>2. /\ Ref(N, u, j) \in Held'
        /\ \A k \in 1..Len(Pages(N, u, j)) : Pages(N, u, j)[k] \in Held'
    BY Places
  <2>3. ASSUME NEW k \in 1..Len(Pages(N, u, j))
        PROVE  heap'[Pages(N, u, j)[k]] \in [data : Data]
    BY <2>1, <2>2 DEF AreaAt
  <2> QED BY <2>1, <2>2, <2>3, SameAt
<1>8. Owners(N, d)'
  <2>1. ASSUME NEW p \in Held'
        PROVE  \E u \in Task : \E j \in 1..Len(N[u]) :
                 \/ p = N[u][j]
                 \/ /\ j \in Idx(N, d, u)
                    /\ p = Ref(N, u, j)' \/ \E k \in 1..Len(Pages(N, u, j)') : p = Pages(N, u, j)'[k]
    <3>1. PICK u \in Task : \E j \in 1..Len(N[u]) :
            \/ p = N[u][j]
            \/ /\ j \in Idx(N, d, u)
               /\ p = Ref(N, u, j) \/ \E k \in 1..Len(Pages(N, u, j)) : p = Pages(N, u, j)[k]
      BY <1>1 DEF Owners
    <3>2. \A j \in Idx(N, d, u) : /\ Ref(N, u, j)' = Ref(N, u, j)
                                  /\ Pages(N, u, j)' = Pages(N, u, j)
      BY <1>3 DEF Same
    <3> HIDE DEF Ref, Pages
    <3> QED BY <3>1, <3>2
  <2> QED BY <2>1 DEF Owners
<1>9. Sorted(N, d)'
  <2> SUFFICES ASSUME NEW u \in Task, NEW j \in Idx(N, d, u), NEW k \in Idx(N, d, u), j < k
               PROVE  End(N, u, j)' <= Ar(N, u, k)'.va
    BY DEF Sorted
  <2>1. End(N, u, j) <= Ar(N, u, k).va
    BY <1>1 DEF Sorted
  <2>2. End(N, u, j)' = End(N, u, j) /\ Ar(N, u, k)' = Ar(N, u, k)
    BY <1>3 DEF Same
  <2> QED BY <2>1, <2>2
<1>10. \A u \in Task : \A j \in Idx(N, d, u) : TableAt(N, u, j)'
  BY <1>3, SameTable DEF Struct
<1>11. ASSUME NEW u \in Task, d[u] = 0 PROVE TableOf(N, u)'
  <2>1. \A j \in 1..Len(N[u]) : Mapped(N, u, j)' = Mapped(N, u, j)
    <3> TAKE j \in 1..Len(N[u])
    <3>1. j \in Idx(N, d, u)
      BY <1>11 DEF Idx
    <3> QED BY <1>3, <3>1 DEF Same
  <2>2. TableOf(N, u)
    BY <1>11 DEF Struct
  <2> HIDE DEF Mapped
  <2> QED BY <2>1, <2>2 DEF TableOf
<1>12. Struct(N, g, d)'
  BY <1>4, <1>5, <1>6, <1>7, <1>8, <1>9, <1>10, <1>11 DEF Struct
<1> QED BY <1>3, <1>12

-----------------------------------------------------------------------------
(* The invariant                                                           *)

Full(N, t, i) == Len(Pages(N, t, i)) = Ar(N, t, i).n_pages

\* A memory that programs run in: it ends with the stack, whose last page is
\* the last page there is, and the rest ends before the stack region.
Complete(N, t) ==
  /\ Len(N[t]) > 0
  /\ \A i \in 1..Len(N[t]) : Full(N, t, i)
  /\ \A i \in 1..(Len(N[t]) - 1) : End(N, t, i) < USERSTACKMIN
  /\ "STACK" \in Ar(N, t, Len(N[t])).flags
  /\ Ar(N, t, Len(N[t])).va >= USERSTACKMIN
  /\ End(N, t, Len(N[t])) = USERSTACK

\* The first k segments of the file have their areas.
Loaded(N, t, k) ==
  /\ Len(N[t]) = k
  /\ \A i \in 1..k : /\ Ar(N, t, i).va = Segments[i].va
                     /\ Ar(N, t, i).n_pages = Segments[i].n_pages
                     /\ Ar(N, t, i).flags = Segments[i].flags

\* The areas of c are like the first ones of t.
Copied(N, t, c) ==
  /\ Len(N[c]) <= Len(N[t])
  /\ \A i \in 1..Len(N[c]) : /\ Ar(N, c, i).va = Ar(N, t, i).va
                             /\ Ar(N, c, i).n_pages = Ar(N, t, i).n_pages
                             /\ Ar(N, c, i).flags = Ar(N, t, i).flags

\* Where the kernel function is that runs.
LoadAt(N, t, k) ==
  /\ call = Load(t, k)
  /\ Loaded(N, t, k - 1)
  /\ \A i \in 1..(k - 1) : Full(N, t, i)

LoadPageAt(N, t, k) ==
  /\ call = [pc |-> "load_page", task |-> t, index |-> k, area |-> Ref(N, t, k)]
  /\ k \in 1..Len(Segments)
  /\ Loaded(N, t, k)
  /\ \A i \in 1..(k - 1) : Full(N, t, i)

CloneAt(N, t, c) ==
  /\ call = [pc |-> "clone", task |-> t, child |-> c, node |-> At(N[t], Len(N[c]) + 1)]
  /\ c \notin live
  /\ Copied(N, t, c)
  /\ \A i \in 1..Len(N[c]) : Full(N, c, i)

ClonePageAt(N, t, c) ==
  /\ call = [pc |-> "clone_page", task |-> t, child |-> c,
             node |-> N[t][Len(N[c])], area |-> Ref(N, c, Len(N[c]))]
  /\ c \notin live
  /\ Len(N[c]) > 0 /\ Copied(N, t, c)
  /\ \A i \in 1..(Len(N[c]) - 1) : Full(N, c, i)

FreeAt(N, d, t) ==
  /\ \/ call = [pc |-> "exec", task |-> t, node |-> At(N[t], d[t] + 1)]
     \/ call = [pc |-> "exit", task |-> t, node |-> At(N[t], d[t] + 1)] /\ t # 1
  /\ \A u \in Task : u # t => d[u] = 0

GrowAt(N, t, v) ==
  call = [pc |-> "grow", task |-> t, area |-> Ref(N, t, Len(N[t])), page |-> v]

\* All areas are there.
All(d) == \A u \in Task : d[u] = 0

CallOK(N, d) ==
  \/ All(d) /\ call = User
  \/ All(d) /\ \E t \in live : \E k \in 1..(Len(Segments) + 1) : LoadAt(N, t, k) \/ LoadPageAt(N, t, k)
  \/ All(d) /\ \E t \in live : \E c \in Task : CloneAt(N, t, c) \/ ClonePageAt(N, t, c)
  \/ \E t \in live : FreeAt(N, d, t)
  \/ All(d) /\ \E t \in live : \E v \in USERSTACKMIN..(USERSTACK - 1) : GrowAt(N, t, v)

\* The task that fork is making.
Child(t) == call.pc \in {"clone", "clone_page"} /\ t = call.child

Tasks(N) ==
  /\ \A t \in Whole : Complete(N, t)
  /\ \A t \in Task \ live : ~Child(t) => N[t] = << >> /\ table[t] = Empty

Sound(N, g, d) == Struct(N, g, d) /\ Tasks(N) /\ CallOK(N, d)

IInv == \E N, g, d : Sound(N, g, d)

\* What an area looked like, it looks like after a step that leaves it alone.
LEMMA SameFull ==
  ASSUME NEW N, NEW N2, NEW t, NEW i, Same(N, N2, t, i), Full(N, t, i)
  PROVE  Full(N2, t, i)'
<1>1. Ar(N2, t, i)' = Ar(N, t, i) /\ Pages(N2, t, i)' = Pages(N, t, i)
  BY DEF Same
<1> HIDE DEF Ar, Pages
<1>2. Len(Pages(N2, t, i)') = Ar(N2, t, i)'.n_pages
  BY <1>1 DEF Full
<1> QED BY <1>2, Zenon DEF Full

LEMMA SameComplete ==
  ASSUME NEW N, NEW N2, NEW t, N2[t] = N[t], Len(N[t]) \in Nat,
         \A i \in 1..Len(N[t]) : Same(N, N2, t, i),
         Complete(N, t)
  PROVE  Complete(N2, t)'
<1>1. \A i \in 1..Len(N[t]) : Full(N2, t, i)'
  BY SameFull DEF Complete
<1>2. \A i \in 1..Len(N[t]) : Ar(N2, t, i)' = Ar(N, t, i) /\ End(N2, t, i)' = End(N, t, i)
  BY DEF Same
<1>3. /\ Len(N[t]) \in 1..Len(N[t])
      /\ \A i \in 1..(Len(N[t]) - 1) : i \in 1..Len(N[t])
  BY DEF Complete
<1> HIDE DEF Ar, End
<1>4. /\ \A i \in 1..(Len(N[t]) - 1) : End(N2, t, i)' < USERSTACKMIN
      /\ "STACK" \in Ar(N2, t, Len(N2[t]))'.flags
      /\ Ar(N2, t, Len(N2[t]))'.va >= USERSTACKMIN
      /\ End(N2, t, Len(N2[t]))' = USERSTACK
  BY <1>2, <1>3 DEF Complete
<1>5. Len(N2[t]) > 0
  BY DEF Complete
<1> QED BY <1>1, <1>4, <1>5 DEF Complete

LEMMA SameLoaded ==
  ASSUME NEW N, NEW N2, NEW t, NEW k, Len(N2[t]) = Len(N[t]),
         \A i \in 1..Len(N[t]) : Same(N, N2, t, i),
         Loaded(N, t, k)
  PROVE  Loaded(N2, t, k)'
<1>1. \A i \in 1..k : Ar(N2, t, i)' = Ar(N, t, i)
  BY DEF Same, Loaded
<1>2. Segments' = Segments
  BY DEF Segments
<1> HIDE DEF Ar, Segments
<1>3. /\ Len(N2[t]) = k
      /\ \A i \in 1..k : /\ Ar(N2, t, i)'.va = Segments[i].va
                         /\ Ar(N2, t, i)'.n_pages = Segments[i].n_pages
                         /\ Ar(N2, t, i)'.flags = Segments[i].flags
  BY <1>1 DEF Loaded
<1> QED BY <1>2, <1>3 DEF Loaded

LEMMA SameCopied ==
  ASSUME NEW N, NEW N2, NEW t, NEW c, Len(N2[t]) = Len(N[t]), Len(N2[c]) = Len(N[c]),
         Len(N[t]) \in Nat, Len(N[c]) \in Nat,
         \A i \in 1..Len(N[t]) : Same(N, N2, t, i),
         \A i \in 1..Len(N[c]) : Same(N, N2, c, i),
         Copied(N, t, c)
  PROVE  Copied(N2, t, c)'
<1>1. /\ \A i \in 1..Len(N[t]) : Ar(N2, t, i)' = Ar(N, t, i)
      /\ \A i \in 1..Len(N[c]) : Ar(N2, c, i)' = Ar(N, c, i)
      /\ Len(N[c]) <= Len(N[t])
  BY DEF Same, Copied
<1>2. \A i \in 1..Len(N[c]) : i \in 1..Len(N[t])
  BY <1>1
<1> HIDE DEF Ar
<1>3. /\ Len(N2[c]) <= Len(N2[t])
      /\ \A i \in 1..Len(N2[c]) : /\ Ar(N2, c, i)'.va = Ar(N2, t, i)'.va
                                  /\ Ar(N2, c, i)'.n_pages = Ar(N2, t, i)'.n_pages
                                  /\ Ar(N2, c, i)'.flags = Ar(N2, t, i)'.flags
  BY <1>1, <1>2 DEF Copied
<1> QED BY <1>3 DEF Copied

-----------------------------------------------------------------------------
(* What a step leaves of the memory that a program sees                    *)

\* The frame behind an entry of a table is a page of an area.
LEMMA EntryFrame ==
  ASSUME NEW N, NEW g, NEW d, Struct(N, g, d), NEW t \in Task, d[t] = 0,
         NEW v \in UPage, table[t][v] # None
  PROVE  \E i \in Idx(N, d, t) : \E j \in 1..Len(Pages(N, t, i)) :
           /\ v \in Mapped(N, t, i) /\ table[t][v].frame = Pages(N, t, i)[j]
           /\ heap[table[t][v].frame] \in [data : Data]
           /\ Pages(N, t, i)[j] \in Held
<1>1. PICK i \in 1..Len(N[t]) : v \in Mapped(N, t, i)
  BY DEF Struct, TableOf
<1>2. i \in Idx(N, d, t)
  BY DEF Idx
<1>3. TableAt(N, t, i) /\ AreaAt(N, g, t, i)
  BY <1>2 DEF Struct
<1> HIDE DEF Pages, Mapped
<1>4. PICK j \in 1..Len(Pages(N, t, i)) : table[t][v].frame = Pages(N, t, i)[j]
  BY <1>1, <1>3 DEF TableAt
<1>5. heap[Pages(N, t, i)[j]] \in [data : Data] /\ Pages(N, t, i)[j] \in Held
  BY <1>3, <1>4 DEF AreaAt
<1> QED BY <1>1, <1>2, <1>4, <1>5

LEMMA EntryFacts ==
  ASSUME NEW N, NEW g, NEW d, Struct(N, g, d), NEW t \in Task, d[t] = 0,
         NEW v \in UPage, table[t][v] # None
  PROVE  /\ table[t][v].frame \in Held /\ table[t][v].frame \in Page
         /\ heap[table[t][v].frame] \in [data : Data]
         /\ \A u \in Task : \A j \in 1..Len(N[u]) : table[t][v].frame # N[u][j]
         /\ \A u \in Task : \A j \in Idx(N, d, u) : table[t][v].frame # Ref(N, u, j)
         /\ \A u \in Task : u # t => \A j \in Idx(N, d, u) : \A b \in 1..Len(Pages(N, u, j)) :
              table[t][v].frame # Pages(N, u, j)[b]
<1>1. PICK i \in Idx(N, d, t) : \E j \in 1..Len(Pages(N, t, i)) :
        /\ table[t][v].frame = Pages(N, t, i)[j]
        /\ heap[table[t][v].frame] \in [data : Data] /\ Pages(N, t, i)[j] \in Held
  BY EntryFrame
<1>2. PICK j \in 1..Len(Pages(N, t, i)) :
        /\ table[t][v].frame = Pages(N, t, i)[j]
        /\ heap[table[t][v].frame] \in [data : Data] /\ Pages(N, t, i)[j] \in Held
  BY <1>1
<1>3. Held \subseteq Page
  BY DEF Struct, Types, Held
<1>4. ASSUME NEW u \in Task
      PROVE  /\ \A k \in 1..Len(N[u]) : table[t][v].frame # N[u][k]
             /\ \A k \in Idx(N, d, u) : table[t][v].frame # Ref(N, u, k)
             /\ u # t => \A k \in Idx(N, d, u) : \A b \in 1..Len(Pages(N, u, k)) :
                  table[t][v].frame # Pages(N, u, k)[b]
  <2>1. Disjoint(N, d, u, t)
    BY Apart
  <2> QED BY <1>2, <2>1 DEF Disjoint
<1> QED BY <1>2, <1>3, <1>4

\* A task sees after the step what it saw before.
Kept(t) ==
  \A v \in UPage :
    /\ table'[t][v] = table[t][v]
    /\ table[t][v] # None => heap'[table[t][v].frame] = heap[table[t][v].frame]

\* Every segment of the file can be read.
Readable == \A i \in 1..Len(Program) : "r" \in Program[i].flags

Stays == UNCHANGED <<heap, table, live, call>>

\* The page v of t is there now, holding x, and nothing else has changed.
Filled(t, v, x, f) ==
  /\ live' = live /\ call' = call
  /\ v \in UPage /\ table[t][v] = None
  /\ table'[t][v] # None /\ table'[t][v].flags = f
  /\ heap'[table'[t][v].frame].data = x
  /\ \A w \in UPage : w # v => table'[t][w] = table[t][w]
  /\ \A w \in UPage : table[t][w] # None =>
       heap'[table[t][w].frame] = heap[table[t][w].frame]
  /\ \A u \in Task : u # t => Kept(u)

\* The next page of the file is there now.
PageLoaded(t) == \E v, f : Filled(t, v, FileImage[v], f) /\ (Readable => "r" \in f)

LEMMA PageKept ==
  ASSUME NEW N, NEW g, NEW d, Struct(N, g, d), All(d), NEW t \in Task, NEW i \in Idx(N, d, t),
         NEW area, NEW v \in UPage, NEW x, NEW f \in SUBSET Permission,
         PageAdded(N, d, t, i, area, v, x, f), live' = live, call' = call
  PROVE  Filled(t, v, x, f)
<1>1. /\ NewPage \in Page \ used
      /\ \A p \in Page : p # NewPage /\ p # Ref(N, t, i) => heap'[p] = heap[p]
      /\ heap'[NewPage] = Frame(x)
      /\ table'[t][v] = [frame |-> NewPage, flags |-> f]
      /\ \A u \in Task, w \in UPage : <<u, w>> # <<t, v>> => table'[u][w] = table[u][w]
      /\ \A j \in Idx(N, d, t) : v \notin Mapped(N, t, j)
  BY DEF PageAdded
<1>2. ASSUME NEW u \in Task, NEW w \in UPage, table[u][w] # None
      PROVE  heap'[table[u][w].frame] = heap[table[u][w].frame]
  <2>1. /\ table[u][w].frame \in Held /\ table[u][w].frame \in Page
        /\ table[u][w].frame # Ref(N, t, i)
    <3>1. d[u] = 0
      BY DEF All
    <3> HIDE DEF Ref
    <3> QED BY <1>2, <3>1, EntryFacts
  <2>2. table[u][w].frame # NewPage
    BY <1>1, <2>1 DEF Held
  <2> QED BY <1>1, <2>1, <2>2
<1>3. table[t][v] = None
  <2>1. d[t] = 0
    BY DEF All
  <2>2. table[t][v] # None => \E j \in Idx(N, d, t) : v \in Mapped(N, t, j)
    BY <2>1, EntryFrame
  <2> QED BY <1>1, <2>2
<1>4. /\ table'[t][v] # None /\ table'[t][v].flags = f
      /\ heap'[table'[t][v].frame].data = x
  BY <1>1, MemoryAssumption DEF Frame
<1>5. \A u \in Task : u # t => Kept(u)
  BY <1>1, <1>2 DEF Kept
<1> QED BY <1>1, <1>2, <1>3, <1>4, <1>5 DEF Filled

LEMMA AreaKept ==
  ASSUME NEW N, NEW g, NEW d, Struct(N, g, d), All(d), NEW t \in Task, NEW area, NEW M2,
         AreaAdded(N, M2, d, t, area), table' = table
  PROVE  \A u \in Task : Kept(u)
<1>1. /\ NewPage \in Page \ used /\ NextPage \in Page \ used
      /\ \A p \in Page : p # NewPage /\ p # NextPage /\ p # At(N[t], Len(N[t])) =>
           heap'[p] = heap[p]
  BY DEF AreaAdded
<1>2. ASSUME NEW u \in Task, NEW w \in UPage, table[u][w] # None
      PROVE  heap'[table[u][w].frame] = heap[table[u][w].frame]
  <2>1. /\ table[u][w].frame \in Held /\ table[u][w].frame \in Page
        /\ \A j \in 1..Len(N[t]) : table[u][w].frame # N[t][j]
    <3>1. d[u] = 0
      BY DEF All
    <3> QED BY <1>2, <3>1, EntryFacts
  <2>2. table[u][w].frame # NewPage /\ table[u][w].frame # NextPage
    BY <1>1, <2>1 DEF Held
  <2>3. table[u][w].frame # At(N[t], Len(N[t]))
    BY <2>1, MemoryAssumption DEF At
  <2> QED BY <1>1, <2>1, <2>2, <2>3
<1> QED BY <1>2 DEF Kept

-----------------------------------------------------------------------------
(* Steps that change nothing but the call                                  *)

LEMMA CallCases ==
  ASSUME NEW N, NEW d, CallOK(N, d)
  PROVE  /\ call.pc = "user" => All(d) /\ call = User
         /\ call.pc = "load" =>
              All(d) /\ \E t \in live : \E k \in 1..(Len(Segments) + 1) : LoadAt(N, t, k)
         /\ call.pc = "load_page" =>
              All(d) /\ \E t \in live : \E k \in 1..(Len(Segments) + 1) : LoadPageAt(N, t, k)
         /\ call.pc = "clone" =>
              All(d) /\ \E t \in live : \E c \in Task : CloneAt(N, t, c)
         /\ call.pc = "clone_page" =>
              All(d) /\ \E t \in live : \E c \in Task : ClonePageAt(N, t, c)
         /\ call.pc = "exec" \/ call.pc = "exit" => \E t \in live : FreeAt(N, d, t)
         /\ call.pc = "grow" =>
              All(d) /\ \E t \in live : \E v \in USERSTACKMIN..(USERSTACK - 1) : GrowAt(N, t, v)
<1>1. call = User => call.pc = "user"
  BY DEF User
<1>2. \A t, k : LoadAt(N, t, k) => call.pc = "load"
  BY DEF LoadAt, Load
<1>3. \A t, k : LoadPageAt(N, t, k) => call.pc = "load_page"
  BY DEF LoadPageAt
<1>4. \A t, c : CloneAt(N, t, c) => call.pc = "clone"
  BY DEF CloneAt
<1>5. \A t, c : ClonePageAt(N, t, c) => call.pc = "clone_page"
  BY DEF ClonePageAt
<1>6. \A t : FreeAt(N, d, t) => call.pc = "exec" \/ call.pc = "exit"
  BY DEF FreeAt
<1>7. \A t, v : GrowAt(N, t, v) => call.pc = "grow"
  BY DEF GrowAt
<1> QED BY <1>1, <1>2, <1>3, <1>4, <1>5, <1>6, <1>7 DEF CallOK

LEMMA WholeIs ==
  /\ call.pc \in {"user", "clone", "clone_page", "grow"} => Whole = live
  /\ call.pc \in {"load", "load_page", "exec", "exit"} => Whole = live \ {call.task}
  /\ call.pc \notin {"clone", "clone_page"} => \A u : ~Child(u)
BY DEF Whole, Loads, Exits, Child

\* The same after a step.
LEMMA WholeNext ==
  /\ call'.pc \in {"user", "clone", "clone_page", "grow"} => Whole' = live'
  /\ call'.pc \in {"load", "load_page", "exec", "exit"} => Whole' = live' \ {call'.task}
  /\ call'.pc \notin {"clone", "clone_page"} => \A u \in Task : ~Child(u)'
<1>1. Whole' = {t \in live' : /\ ~(call'.pc \in {"exec", "load", "load_page"} /\ t = call'.task)
                              /\ ~(call'.pc = "exit" /\ t = call'.task)}
  BY DEF Whole, Loads, Exits
<1>2. \A u \in Task : Child(u)' <=> call'.pc \in {"clone", "clone_page"} /\ u = call'.child
  BY DEF Child
<1> QED BY <1>1, <1>2

LEMMA CallStep ==
  ASSUME NEW N, NEW g, NEW d, Struct(N, g, d),
         UNCHANGED <<heap, areas, table>>, Held' = Held,
         used' \subseteq Page, args' \subseteq used', live' \subseteq Task, 1 \in live',
         \A u \in Whole' : d[u] = 0 /\ Complete(N, u),
         \A u \in Task \ live' : ~Child(u)' => N[u] = << >> /\ table[u] = Empty
  PROVE  /\ Struct(N, g, d)' /\ Tasks(N)'
         /\ \A u \in Task : \A j \in Idx(N, d, u) : Same(N, N, u, j)
<1>1. heap' = [p \in Page |-> heap'[p]]
  BY DEF Struct, Types
<1>2. /\ Struct(N, g, d)'
      /\ \A u \in Task : \A j \in Idx(N, d, u) : Same(N, N, u, j)
  <2> DEFINE F == {}
  <2>1. /\ \A u \in Task : \A j \in 1..Len(N[u]) : N[u][j] \notin F
        /\ \A u \in Task : \A j \in Idx(N, d, u) : Ref(N, u, j) \notin F
        /\ \A p \in Held : IF p \in F THEN heap'[p] \in [data : Data] ELSE heap'[p] = heap[p]
    OBVIOUS
  <2> HIDE DEF F
  <2> QED BY <1>1, <2>1, KeptStep
<1>3. ASSUME NEW u \in Whole' PROVE Complete(N, u)'
  <2>1. u \in Task
    BY DEF Whole
  <2>2. Len(N[u]) \in Nat /\ Idx(N, d, u) = 1..Len(N[u])
    BY <2>1 DEF Struct, Ghosts, Idx
  <2> QED BY <1>2, <2>1, <2>2, SameComplete
<1>4. Tasks(N)'
  <2>1. Empty' = Empty
    BY DEF Empty
  <2> HIDE DEF Empty
  <2> QED BY <1>3, <2>1 DEF Tasks
<1> QED BY <1>2, <1>4

\* What the structure says of the tasks whose areas are all there.
LEMMA AllFacts ==
  ASSUME NEW N, NEW g, NEW d, Struct(N, g, d), All(d)
  PROVE  \A u \in Task : Len(N[u]) \in Nat /\ Idx(N, d, u) = 1..Len(N[u])
BY DEF Struct, Ghosts, Idx, All

LEMMA LoadNextStep ==
  ASSUME NEW N, NEW g, NEW d, Sound(N, g, d), LoadNext
  PROVE  Sound(N, g, d)'
<1>1. Struct(N, g, d) /\ Tasks(N) /\ CallOK(N, d) /\ call.pc = "load_page"
  BY DEF Sound, LoadNext
<1>2. All(d)
  BY <1>1, CallCases
<1>3. PICK t \in live, k \in 1..(Len(Segments) + 1) : LoadPageAt(N, t, k)
  BY <1>1, CallCases
<1>4. call = [pc |-> "load_page", task |-> t, index |-> k, area |-> Ref(N, t, k)]
      /\ k \in 1..Len(Segments) /\ Loaded(N, t, k) /\ \A i \in 1..(k - 1) : Full(N, t, i)
  BY <1>3 DEF LoadPageAt
<1>5. UNCHANGED <<heap, used, areas, table, live, args>>
      /\ call' = Load(t, k + 1) /\ Len(Pages(N, t, k)) >= Ar(N, t, k).n_pages
  <2>1. call.task = t /\ call.index = k /\ call.area = Ref(N, t, k)
    <3> HIDE DEF Ref
    <3> QED BY <1>4
  <2> QED BY <2>1 DEF LoadNext, Pages, Ar
<1>6. t \in Task /\ Types
  BY <1>1 DEF Struct, Types
<1>7. k \in Nat /\ Len(N[t]) = k /\ k + 1 \in 1..(Len(Segments) + 1) /\ Len(Segments) \in Nat
  <2>1. Len(Segments) \in Nat
    BY SegmentFacts
  <2> QED BY <1>4, <2>1 DEF Loaded
<1>8. Whole' = Whole /\ \A u \in Task : ~Child(u) /\ ~Child(u)'
  <2>1. call'.pc = "load" /\ call'.task = t /\ call.task = t
    BY <1>4, <1>5 DEF Load
  <2> QED BY <1>1, <1>5, <2>1, WholeIs, WholeNext
<1>9. /\ Struct(N, g, d)' /\ Tasks(N)'
      /\ \A u \in Task : \A j \in Idx(N, d, u) : Same(N, N, u, j)
  <2>1. Held' = Held
    BY <1>5 DEF Held
  <2>2. \A u \in Whole' : d[u] = 0 /\ Complete(N, u)
    BY <1>1, <1>2, <1>6, <1>8 DEF Tasks, All, Whole, Types
  <2>3. \A u \in Task \ live' : ~Child(u)' => N[u] = << >> /\ table[u] = Empty
    BY <1>1, <1>5, <1>8 DEF Tasks
  <2> QED BY <1>1, <1>5, <1>6, <2>1, <2>2, <2>3, CallStep DEF Types
<1>10. \A j \in 1..Len(N[t]) : Same(N, N, t, j)
  BY <1>1, <1>2, <1>6, <1>9, AllFacts
<1>11. \A i \in 1..k : Full(N, t, i)'
  <2>1. Full(N, t, k)
    <3>1. AreaAt(N, g, t, k)
      <4>1. k \in Idx(N, d, t)
        BY <1>1, <1>2, <1>6, <1>7, <1>4, AllFacts
      <4> QED BY <1>1, <1>6, <4>1 DEF Struct
    <3>2. Len(Pages(N, t, k)) \in Nat /\ Ar(N, t, k).n_pages \in Nat
          /\ Len(Pages(N, t, k)) <= Ar(N, t, k).n_pages
      BY <3>1 DEF AreaAt, Area, Pages
    <3> QED BY <1>5, <3>2 DEF Full
  <2>2. \A i \in 1..k : i = k \/ i \in 1..(k - 1)
    BY <1>7
  <2>3. \A i \in 1..k : Full(N, t, i)
    BY <1>4, <2>1, <2>2
  <2> QED BY <1>7, <1>10, <2>3, SameFull
<1>12. Loaded(N, t, k)'
  BY <1>4, <1>10, SameLoaded
<1>13. LoadAt(N, t, k + 1)'
  <2>1. (k + 1) - 1 = k
    BY <1>7
  <2>2. call' = Load(t, k + 1)
    BY <1>5
  <2> QED BY <1>11, <1>12, <2>1, <2>2 DEF LoadAt, Load
<1>14. CallOK(N, d)'
  <2>1. All(d)' /\ t \in live' /\ Len(Segments)' = Len(Segments)
    BY <1>2, <1>5 DEF All, Segments
  <2> HIDE DEF Segments
  <2> QED BY <1>7, <1>13, <2>1 DEF CallOK
<1> QED BY <1>9, <1>14 DEF Sound

\* All segments and the stack: a memory that programs run in.
LEMMA LoadedComplete ==
  ASSUME NEW N, NEW t, Loaded(N, t, Len(Segments)),
         \A i \in 1..Len(Segments) : Full(N, t, i)
  PROVE  Complete(N, t)
<1> DEFINE n == Len(Program)
<1>1. n \in Nat /\ Len(Segments) = n + 1 /\ Len(N[t]) = n + 1 /\ Len(N[t]) - 1 = n
  BY SegmentFacts DEF Loaded
<1>2. \A i \in 1..(n + 1) : /\ Ar(N, t, i).va = Segments[i].va
                            /\ Ar(N, t, i).n_pages = Segments[i].n_pages
                            /\ Ar(N, t, i).flags = Segments[i].flags
  BY <1>1 DEF Loaded
<1>3. \A i \in 1..n : End(N, t, i) < USERSTACKMIN
  <2> TAKE i \in 1..n
  <2>1. i \in 1..(n + 1) /\ Segments[i].va + Segments[i].n_pages < USERSTACKMIN
    BY <1>1, SegmentFacts
  <2> QED BY <1>2, <2>1 DEF End
<1>4. /\ "STACK" \in Ar(N, t, n + 1).flags
      /\ Ar(N, t, n + 1).va = USERSTACK - 1 /\ Ar(N, t, n + 1).n_pages = 1
  <2>1. n + 1 \in 1..(n + 1)
    BY <1>1
  <2>2. Segments[n + 1] = [va |-> USERSTACK - 1, n_pages |-> 1, flags |-> {"r", "w", "STACK"}]
    BY SegmentFacts
  <2> HIDE DEF n
  <2>3. /\ Segments[n + 1].va = USERSTACK - 1 /\ Segments[n + 1].n_pages = 1
        /\ Segments[n + 1].flags = {"r", "w", "STACK"}
    BY <2>2
  <2> QED BY <1>2, <2>1, <2>3
<1> HIDE DEF n
<1>5. /\ Ar(N, t, n + 1).va >= USERSTACKMIN /\ End(N, t, n + 1) = USERSTACK
  BY <1>4, MemoryAssumption DEF End
<1>6. \A i \in 1..(n + 1) : Full(N, t, i)
  BY <1>1
<1> QED BY <1>1, <1>3, <1>4, <1>5, <1>6 DEF Complete

\* A copy of all areas is like the memory it is made from.
LEMMA CopiedComplete ==
  ASSUME NEW N, NEW t, NEW c, Copied(N, t, c), Len(N[t]) \in Nat, Len(N[c]) = Len(N[t]),
         \A i \in 1..Len(N[c]) : Full(N, c, i), Complete(N, t)
  PROVE  Complete(N, c)
<1>1. \A i \in 1..Len(N[t]) : /\ Ar(N, c, i).va = Ar(N, t, i).va
                              /\ Ar(N, c, i).flags = Ar(N, t, i).flags
                              /\ End(N, c, i) = End(N, t, i)
  BY DEF Copied, End
<1>2. /\ Len(N[t]) \in 1..Len(N[t])
      /\ \A i \in 1..(Len(N[t]) - 1) : i \in 1..Len(N[t])
  BY DEF Complete
<1> QED BY <1>1, <1>2 DEF Complete

LEMMA LoadDoneStep ==
  ASSUME NEW N, NEW g, NEW d, Sound(N, g, d), LoadDone
  PROVE  Sound(N, g, d)'
<1>1. Struct(N, g, d) /\ Tasks(N) /\ CallOK(N, d) /\ call.pc = "load"
  BY DEF Sound, LoadDone
<1>2. All(d)
  BY <1>1, CallCases
<1>3. PICK t \in live, k \in 1..(Len(Segments) + 1) : LoadAt(N, t, k)
  BY <1>1, CallCases
<1>4. call = Load(t, k) /\ Loaded(N, t, k - 1) /\ \A i \in 1..(k - 1) : Full(N, t, i)
  BY <1>3 DEF LoadAt
<1>5. UNCHANGED <<heap, used, areas, table, live, args>>
      /\ call' = User /\ k > Len(Segments)
  BY <1>4 DEF LoadDone, Load
<1>6. t \in Task /\ Types
  BY <1>1 DEF Struct, Types
<1>7. k - 1 = Len(Segments)
  <2>1. Len(Segments) \in Nat
    BY SegmentFacts
  <2> QED BY <1>5, <2>1
<1>8. Whole' = live /\ Whole = live \ {t} /\ \A u \in Task : ~Child(u) /\ ~Child(u)'
  <2>1. call'.pc = "user" /\ call.task = t
    BY <1>4, <1>5 DEF Load, User
  <2> QED BY <1>1, <1>5, <2>1, WholeIs, WholeNext
<1>9. Complete(N, t)
  BY <1>4, <1>7, LoadedComplete
<1>10. Struct(N, g, d)' /\ Tasks(N)'
  <2>1. Held' = Held
    BY <1>5 DEF Held
  <2>2. \A u \in Whole' : d[u] = 0 /\ Complete(N, u)
    BY <1>1, <1>2, <1>6, <1>8, <1>9 DEF Tasks, All, Types
  <2>3. \A u \in Task \ live' : ~Child(u)' => N[u] = << >> /\ table[u] = Empty
    BY <1>1, <1>5, <1>8 DEF Tasks
  <2> QED BY <1>1, <1>5, <1>6, <2>1, <2>2, <2>3, CallStep DEF Types
<1>11. CallOK(N, d)'
  BY <1>2, <1>5 DEF CallOK, All, User
<1> QED BY <1>10, <1>11 DEF Sound

LEMMA CloneNextStep ==
  ASSUME NEW N, NEW g, NEW d, Sound(N, g, d), CloneNext
  PROVE  Sound(N, g, d)'
<1>1. Struct(N, g, d) /\ Tasks(N) /\ CallOK(N, d) /\ call.pc = "clone_page"
  BY DEF Sound, CloneNext
<1>2. All(d)
  BY <1>1, CallCases
<1>3. PICK t \in live, c \in Task : ClonePageAt(N, t, c)
  BY <1>1, CallCases
<1> DEFINE k == Len(N[c])
<1>4. /\ call = [pc |-> "clone_page", task |-> t, child |-> c,
                 node |-> N[t][k], area |-> Ref(N, c, k)]
      /\ c \notin live /\ k > 0 /\ Copied(N, t, c) /\ \A i \in 1..(k - 1) : Full(N, c, i)
  BY <1>3 DEF ClonePageAt
<1>5. t \in Task /\ Types
  BY <1>1 DEF Struct, Types
<1>6. /\ k \in Nat /\ Len(N[t]) \in Nat /\ k \in 1..Len(N[t]) /\ k \in 1..Len(N[c])
      /\ Idx(N, d, c) = 1..Len(N[c]) /\ Idx(N, d, t) = 1..Len(N[t])
  <2>1. k \in Nat /\ Len(N[t]) \in Nat
    BY <1>1, <1>2, <1>5, AllFacts
  <2> QED BY <1>1, <1>2, <1>4, <1>5, <2>1, AllFacts DEF Copied
<1>7. /\ UNCHANGED <<heap, used, areas, table, live, args>>
      /\ call' = [pc |-> "clone", task |-> t, child |-> c, node |-> At(N[t], k + 1)]
      /\ Len(Pages(N, c, k)) >= Ar(N, c, k).n_pages
  <2>1. /\ call.task = t /\ call.child = c /\ call.area = Ref(N, c, k)
        /\ call.node = N[t][k]
    <3> HIDE DEF Ref, k
    <3> QED BY <1>4
  <2>2. heap[N[t][k]].next = At(N[t], k + 1)
    <3>1. heap[N[t][k]] = [value |-> Ref(N, t, k), prev |-> At(N[t], k - 1),
                           next |-> At(N[t], k + 1)]
      BY <1>1, <1>5, <1>6 DEF Struct, Nodes
    <3> HIDE DEF At, Ref, k
    <3> QED BY <3>1
  <2> HIDE DEF At, k
  <2> QED BY <2>1, <2>2 DEF CloneNext, Pages, Ar
<1>8. Whole' = live /\ Whole = live /\ \A u \in Task : Child(u)' <=> Child(u)
  <2>1. call'.pc = "clone" /\ call'.child = c /\ call.child = c
    BY <1>4, <1>7
  <2> QED BY <1>1, <1>7, <2>1, WholeIs, WholeNext DEF Child
<1>9. /\ Struct(N, g, d)' /\ Tasks(N)'
      /\ \A u \in Task : \A j \in Idx(N, d, u) : Same(N, N, u, j)
  <2>1. Held' = Held
    BY <1>7 DEF Held
  <2>2. \A u \in Whole' : d[u] = 0 /\ Complete(N, u)
    BY <1>1, <1>2, <1>5, <1>8 DEF Tasks, All, Types
  <2>3. \A u \in Task \ live' : ~Child(u)' => N[u] = << >> /\ table[u] = Empty
    BY <1>1, <1>7, <1>8 DEF Tasks
  <2> QED BY <1>1, <1>5, <1>7, <2>1, <2>2, <2>3, CallStep DEF Types
<1>10. Copied(N, t, c)'
  BY <1>4, <1>5, <1>6, <1>9, SameCopied
<1>11. \A i \in 1..k : Full(N, c, i)'
  <2>1. Full(N, c, k)
    <3>1. AreaAt(N, g, c, k)
      BY <1>1, <1>6 DEF Struct
    <3>2. Len(Pages(N, c, k)) \in Nat /\ Ar(N, c, k).n_pages \in Nat
          /\ Len(Pages(N, c, k)) <= Ar(N, c, k).n_pages
      BY <3>1 DEF AreaAt, Area, Pages
    <3> QED BY <1>7, <3>2 DEF Full
  <2>2. \A i \in 1..k : i = k \/ i \in 1..(k - 1)
    <3> HIDE DEF k
    <3> QED BY <1>6
  <2>3. \A i \in 1..k : Full(N, c, i)
    BY <1>4, <2>1, <2>2
  <2> QED BY <1>6, <1>9, <2>3, SameFull
<1>12. CloneAt(N, t, c)'
  BY <1>4, <1>7, <1>10, <1>11 DEF CloneAt
<1>13. CallOK(N, d)'
  BY <1>2, <1>7, <1>12 DEF CallOK, All
<1> QED BY <1>9, <1>13 DEF Sound

LEMMA CloneDoneStep ==
  ASSUME NEW N, NEW g, NEW d, Sound(N, g, d), CloneDone
  PROVE  Sound(N, g, d)'
<1>1. Struct(N, g, d) /\ Tasks(N) /\ CallOK(N, d) /\ call.pc = "clone"
  BY DEF Sound, CloneDone
<1>2. All(d)
  BY <1>1, CallCases
<1>3. PICK t \in live, c \in Task : CloneAt(N, t, c)
  BY <1>1, CallCases
<1>4. /\ call = [pc |-> "clone", task |-> t, child |-> c, node |-> At(N[t], Len(N[c]) + 1)]
      /\ c \notin live /\ Copied(N, t, c) /\ \A i \in 1..Len(N[c]) : Full(N, c, i)
  BY <1>3 DEF CloneAt
<1>5. t \in Task /\ Types
  BY <1>1 DEF Struct, Types
<1>6. /\ UNCHANGED <<heap, used, areas, table, args>>
      /\ live' = live \cup {c} /\ call' = User /\ At(N[t], Len(N[c]) + 1) = NULL
  <2>1. call.child = c /\ call.node = At(N[t], Len(N[c]) + 1)
    <3> HIDE DEF At
    <3> QED BY <1>4
  <2> QED BY <2>1 DEF CloneDone
<1>7. Len(N[c]) = Len(N[t]) /\ Len(N[t]) \in Nat
  <2>1. Len(N[c]) \in Nat /\ Len(N[t]) \in Nat /\ N[t] \in Seq(Page) /\ Len(N[c]) <= Len(N[t])
    BY <1>1, <1>4, <1>5 DEF Struct, Ghosts, Copied
  <2>2. \A i \in 1..Len(N[t]) : N[t][i] # NULL
    BY <2>1, MemoryAssumption
  <2>3. ~(Len(N[c]) + 1 \in 1..Len(N[t]))
    BY <1>6, <2>2 DEF At
  <2> QED BY <2>1, <2>3
<1>8. /\ Whole' = live \cup {c} /\ Whole = live
      /\ \A u \in Task : ~Child(u)' /\ (Child(u) => u = c)
  <2>1. call'.pc = "user" /\ call.child = c
    BY <1>4, <1>6 DEF User
  <2> QED BY <1>1, <1>6, <2>1, WholeIs, WholeNext DEF Child
<1>9. Complete(N, c)
  BY <1>1, <1>4, <1>7, <1>8, CopiedComplete DEF Tasks
<1>10. Struct(N, g, d)' /\ Tasks(N)'
  <2>1. Held' = Held
    BY <1>6 DEF Held
  <2>2. \A u \in Whole' : d[u] = 0 /\ Complete(N, u)
    BY <1>1, <1>2, <1>5, <1>8, <1>9 DEF Tasks, All, Types
  <2>3. \A u \in Task \ live' : ~Child(u)' => N[u] = << >> /\ table[u] = Empty
    BY <1>1, <1>6, <1>8 DEF Tasks
  <2> QED BY <1>1, <1>5, <1>6, <2>1, <2>2, <2>3, CallStep DEF Types
<1>11. CallOK(N, d)'
  BY <1>2, <1>6 DEF CallOK, All, User
<1> QED BY <1>10, <1>11 DEF Sound

LEMMA GrowDoneStep ==
  ASSUME NEW N, NEW g, NEW d, Sound(N, g, d), GrowDone
  PROVE  Sound(N, g, d)'
<1>1. Struct(N, g, d) /\ Tasks(N) /\ CallOK(N, d) /\ call.pc = "grow"
  BY DEF Sound, GrowDone
<1>2. All(d)
  BY <1>1, CallCases
<1>3. Types /\ UNCHANGED <<heap, used, areas, table, live, args>> /\ call' = User
  BY <1>1 DEF Struct, GrowDone
<1>4. Whole' = live /\ Whole = live /\ \A u \in Task : ~Child(u) /\ ~Child(u)'
  <2>1. call'.pc = "user"
    BY <1>3 DEF User
  <2> QED BY <1>1, <1>3, <2>1, WholeIs, WholeNext
<1>5. Struct(N, g, d)' /\ Tasks(N)'
  <2>1. Held' = Held
    BY <1>3 DEF Held
  <2>2. \A u \in Whole' : d[u] = 0 /\ Complete(N, u)
    BY <1>1, <1>2, <1>3, <1>4 DEF Tasks, All, Types
  <2>3. \A u \in Task \ live' : ~Child(u)' => N[u] = << >> /\ table[u] = Empty
    BY <1>1, <1>3, <1>4 DEF Tasks
  <2> QED BY <1>1, <1>3, <2>1, <2>2, <2>3, CallStep DEF Types
<1>6. CallOK(N, d)'
  BY <1>2, <1>3 DEF CallOK, All, User
<1> QED BY <1>5, <1>6 DEF Sound

\* The panic, and the halted machine.
LEMMA StutterStep ==
  ASSUME NEW N, NEW g, NEW d, Sound(N, g, d),
         UNCHANGED <<heap, used, areas, table, live, args, call>>
  PROVE  Sound(N, g, d)'
<1>1. Struct(N, g, d) /\ Tasks(N) /\ CallOK(N, d) /\ Types
  BY DEF Sound, Struct
<1>2. Struct(N, g, d)'
  <2> DEFINE F == {}
  <2>1. /\ \A u \in Task : \A j \in 1..Len(N[u]) : N[u][j] \notin F
        /\ \A u \in Task : \A j \in Idx(N, d, u) : Ref(N, u, j) \notin F
        /\ \A p \in Held : IF p \in F THEN heap'[p] \in [data : Data] ELSE heap'[p] = heap[p]
    OBVIOUS
  <2>2. Held' = Held /\ heap' = [p \in Page |-> heap'[p]]
    BY <1>1 DEF Held, Types
  <2> HIDE DEF F
  <2> QED BY <1>1, <2>1, <2>2, KeptStep DEF Types
<1>3. Tasks(N)'
  BY <1>1 DEF Tasks, Whole, Loads, Exits, Child, Complete, Full, Ref, Ar, Pages, End, Empty
<1>4. CallOK(N, d)'
  <2>1. \A t, k : LoadAt(N, t, k) => LoadAt(N, t, k)'
    BY DEF LoadAt, Loaded, Full, Ref, Ar, Pages, Load, Segments
  <2>2. \A t, k : LoadPageAt(N, t, k) => LoadPageAt(N, t, k)'
    BY DEF LoadPageAt, Loaded, Full, Ref, Ar, Pages, Segments
  <2>3. \A t, c : CloneAt(N, t, c) => CloneAt(N, t, c)'
    BY DEF CloneAt, Copied, Full, Ref, Ar, Pages
  <2>4. \A t, c : ClonePageAt(N, t, c) => ClonePageAt(N, t, c)'
    BY DEF ClonePageAt, Copied, Full, Ref, Ar, Pages
  <2>5. \A t : FreeAt(N, d, t) => FreeAt(N, d, t)'
    BY DEF FreeAt
  <2>6. \A t, v : GrowAt(N, t, v) => GrowAt(N, t, v)'
    BY DEF GrowAt, Ref
  <2>7. All(d)' = All(d) /\ Len(Segments)' = Len(Segments) /\ User' = User
    BY DEF All, Segments, User
  <2> HIDE DEF Segments
  <2> QED BY <1>1, <2>1, <2>2, <2>3, <2>4, <2>5, <2>6, <2>7 DEF CallOK
<1> QED BY <1>2, <1>3, <1>4 DEF Sound

\* Of a program that runs.
LEMMA RunsFacts ==
  ASSUME NEW N, NEW g, NEW d, Sound(N, g, d), NEW t, Runs(t)
  PROVE  /\ Struct(N, g, d) /\ Tasks(N) /\ Types /\ All(d) /\ call = User
         /\ t \in live /\ t \in Task /\ Whole = live
         /\ \A u : ~Child(u)
         /\ \A u \in live : Complete(N, u)
         /\ \A u \in Task \ live : N[u] = << >> /\ table[u] = Empty
         /\ areas[t].first = At(N[t], 1)
<1>1. Struct(N, g, d) /\ Tasks(N) /\ CallOK(N, d) /\ call.pc = "user" /\ t \in live
  BY DEF Sound, Runs
<1>2. All(d) /\ call = User
  BY <1>1, CallCases
<1>3. Types /\ t \in Task
  BY <1>1 DEF Struct, Types
<1>4. Whole = live /\ \A u : ~Child(u)
  BY <1>1, WholeIs
<1>5. areas[t].first = At(N[t], 1)
  <2>1. areas[t] = Ends(N[t])
    BY <1>1, <1>3 DEF Struct, Nodes
  <2> QED BY <2>1 DEF Ends
<1> QED BY <1>1, <1>2, <1>3, <1>4, <1>5 DEF Tasks

LEMMA ForkStep ==
  ASSUME NEW N, NEW g, NEW d, Sound(N, g, d), NEW t, Fork(t)
  PROVE  Sound(N, g, d)'
<1>0. PICK c : c = CHOOSE u \in Task : u \notin live
  OBVIOUS
<1>1. /\ Runs(t) /\ live # Task
      /\ areas' = [areas EXCEPT ![c] = list_init]
      /\ table' = [table EXCEPT ![c] = Empty]
      /\ call' = [pc |-> "clone", task |-> t, child |-> c, node |-> areas[t].first]
      /\ UNCHANGED <<heap, used, live, args>>
  BY <1>0 DEF Fork
<1>2. /\ Struct(N, g, d) /\ Tasks(N) /\ Types /\ All(d)
      /\ t \in live /\ t \in Task
      /\ \A u \in live : Complete(N, u)
      /\ \A u \in Task \ live : N[u] = << >> /\ table[u] = Empty
      /\ areas[t].first = At(N[t], 1)
  BY <1>1, RunsFacts
<1>3. c \in Task /\ c \notin live
  <2>1. live \subseteq Task
    BY <1>2 DEF Types
  <2> QED BY <1>0, <1>1, <2>1
<1>4. Len(N[c]) = 0 /\ areas' = areas /\ table' = table
  <2>1. N[c] = << >> /\ table[c] = Empty /\ Len(<< >>) = 0
    BY <1>2, <1>3
  <2>2. areas[c] = list_init
    <3>1. areas[c] = Ends(N[c])
      BY <1>2, <1>3 DEF Struct, Nodes
    <3> QED BY <2>1, <3>1 DEF Ends, At, list_init
  <2>3. areas = [u \in Task |-> areas[u]] /\ table \in [Task -> [UPage -> Entry \cup {None}]]
    BY <1>2 DEF Types
  <2> HIDE DEF Empty, list_init
  <2> QED BY <1>1, <1>3, <2>1, <2>2, <2>3
<1>5. Whole' = live /\ \A u \in Task : Child(u)' <=> u = c
  <2>1. call'.pc = "clone" /\ call'.child = c
    BY <1>1
  <2> QED BY <1>1, <2>1, WholeNext DEF Child
<1>6. Struct(N, g, d)' /\ Tasks(N)'
  <2>1. Held' = Held
    BY <1>1 DEF Held
  <2>2. \A u \in Whole' : d[u] = 0 /\ Complete(N, u)
    BY <1>2, <1>5 DEF All, Types
  <2>3. \A u \in Task \ live' : ~Child(u)' => N[u] = << >> /\ table[u] = Empty
    BY <1>1, <1>2
  <2> QED BY <1>1, <1>2, <1>4, <2>1, <2>2, <2>3, CallStep DEF Types
<1>7. CloneAt(N, t, c)'
  <2>1. call' = [pc |-> "clone", task |-> t, child |-> c, node |-> At(N[t], Len(N[c]) + 1)]
    BY <1>1, <1>2, <1>4
  <2>2. 1..Len(N[c]) = {} /\ Len(N[c]) <= Len(N[t])
    BY <1>2, <1>4, AllFacts
  <2>3. \A i \in 1..Len(N[c]) : FALSE
    BY <2>2
  <2>4. Copied(N, t, c)'
    BY <2>2, <2>3 DEF Copied
  <2>5. \A i \in 1..Len(N[c]) : Full(N, c, i)'
    BY <2>3
  <2>6. c \notin live'
    BY <1>1, <1>3
  <2> HIDE DEF Full, Copied, At
  <2> QED BY <2>1, <2>4, <2>5, <2>6 DEF CloneAt
<1>8. CallOK(N, d)'
  BY <1>1, <1>2, <1>3, <1>7 DEF CallOK, All
<1> QED BY <1>6, <1>8 DEF Sound

\* A task whose memory is to be given back.
LEMMA FreeStep ==
  ASSUME NEW N, NEW g, NEW d, Sound(N, g, d), NEW t, Runs(t),
         \/ call' = [pc |-> "exec", task |-> t, node |-> areas[t].first]
         \/ call' = [pc |-> "exit", task |-> t, node |-> areas[t].first] /\ t # 1,
         UNCHANGED <<heap, areas, table, live>>,
         Held' = Held, used' \subseteq Page, args' \subseteq used'
  PROVE  Sound(N, g, d)'
<1>1. /\ Struct(N, g, d) /\ Tasks(N) /\ Types /\ All(d)
      /\ t \in live /\ t \in Task
      /\ \A u \in live : Complete(N, u)
      /\ \A u \in Task \ live : N[u] = << >> /\ table[u] = Empty
      /\ areas[t].first = At(N[t], 1)
  BY RunsFacts
<1>2. Whole' \subseteq live
  BY DEF Whole
<1>3. Struct(N, g, d)' /\ Tasks(N)'
  <2>1. \A u \in Whole' : d[u] = 0 /\ Complete(N, u)
    BY <1>1, <1>2 DEF All, Types
  <2>2. \A u \in Task \ live' : ~Child(u)' => N[u] = << >> /\ table[u] = Empty
    BY <1>1
  <2> QED BY <1>1, <2>1, <2>2, CallStep DEF Types
<1>4. FreeAt(N, d, t)'
  <2>1. d[t] + 1 = 1 /\ \A u \in Task : u # t => d[u] = 0
    BY <1>1 DEF All
  <2> HIDE DEF At
  <2> QED BY <1>1, <2>1 DEF FreeAt
<1>5. CallOK(N, d)'
  BY <1>1, <1>4 DEF CallOK
<1> QED BY <1>3, <1>5 DEF Sound

LEMMA ExecveStep ==
  ASSUME NEW N, NEW g, NEW d, Sound(N, g, d), NEW t, Execve(t)
  PROVE  Sound(N, g, d)'
<1>1. CASE ~Room
  BY <1>1, StutterStep DEF Execve, panic
<1>2. CASE Room
  <2>1. /\ Runs(t)
        /\ used' = used \cup {NewPage, NextPage}
        /\ args' = args \cup {NewPage, NextPage}
        /\ call' = [pc |-> "exec", task |-> t, node |-> areas[t].first]
        /\ UNCHANGED <<heap, areas, table, live>>
    BY <1>2 DEF Execve
  <2>2. Types
    BY <2>1, RunsFacts
  <2>3. NewPage \in Page \ used /\ NextPage \in Page \ used
    BY <1>2, <2>2, NewFacts DEF Types
  <2>4. Held' = Held /\ used' \subseteq Page /\ args' \subseteq used'
    BY <2>1, <2>2, <2>3 DEF Held, Types
  <2> QED BY <2>1, <2>4, FreeStep
<1> QED BY <1>1, <1>2

LEMMA DestroyStep ==
  ASSUME NEW N, NEW g, NEW d, Sound(N, g, d), NEW t, Runs(t), Destroy(t)
  PROVE  Sound(N, g, d)'
<1>1. CASE t = 1
  BY <1>1, StutterStep DEF Destroy, panic
<1>2. CASE t # 1
  <2>1. /\ call' = [pc |-> "exit", task |-> t, node |-> areas[t].first]
        /\ UNCHANGED <<heap, used, areas, table, live, args>>
    BY <1>2 DEF Destroy
  <2>2. Types
    BY RunsFacts
  <2>3. Held' = Held /\ used' \subseteq Page /\ args' \subseteq used'
    BY <2>1, <2>2 DEF Held, Types
  <2> QED BY <1>2, <2>1, <2>3, FreeStep
<1> QED BY <1>1, <1>2

-----------------------------------------------------------------------------
(* Steps that give memory back                                             *)

LEMMA TasksStep ==
  ASSUME NEW N, NEW M2, NEW g, NEW d, Struct(N, g, d), Tasks(N), live' \subseteq Task,
         \A u \in Whole' :
           \/ Complete(M2, u)'
           \/ /\ u \in Whole /\ d[u] = 0 /\ M2[u] = N[u]
              /\ \A j \in Idx(N, d, u) : Same(N, M2, u, j),
         \A u \in Task \ live' : ~Child(u)' => M2[u] = << >> /\ table'[u] = Empty
  PROVE  Tasks(M2)'
<1>1. ASSUME NEW u \in Whole' PROVE Complete(M2, u)'
  <2>1. u \in Task
    BY DEF Whole
  <2>2. Len(N[u]) \in Nat /\ (d[u] = 0 => Idx(N, d, u) = 1..Len(N[u]))
    BY <2>1 DEF Struct, Ghosts, Idx
  <2>3. u \in Whole => Complete(N, u)
    BY DEF Tasks
  <2> QED BY <2>2, <2>3, SameComplete
<1>2. Empty' = Empty
  BY DEF Empty
<1> HIDE DEF Empty
<1> QED BY <1>1, <1>2 DEF Tasks

LEMMA DecrefAreaStep ==
  ASSUME NEW N, NEW g, NEW d, Sound(N, g, d), DecrefArea
  PROVE  IInv' /\ \A u \in Task : u # call.task => Kept(u)
<1>1. /\ Struct(N, g, d) /\ Tasks(N) /\ CallOK(N, d) /\ Types
      /\ call.pc = "exec" \/ call.pc = "exit"
  BY DEF Sound, DecrefArea, Struct
<1>2. PICK t \in live : FreeAt(N, d, t)
  BY <1>1, CallCases
<1>3. /\ call.task = t /\ call.node = At(N[t], d[t] + 1)
      /\ call.pc = "exit" => t # 1
      /\ \A u \in Task : u # t => d[u] = 0
  <2> HIDE DEF At
  <2> QED BY <1>2 DEF FreeAt
<1>4. t \in Task /\ d[t] \in Nat /\ N[t] \in Seq(Page) /\ Len(N[t]) \in Nat /\ d \in [Task -> Nat]
  BY <1>1 DEF Struct, Types, Ghosts
<1>5. d[t] < Len(N[t]) /\ call.node = N[t][d[t] + 1] /\ d[t] + 1 \in 1..Len(N[t])
  <2>1. d[t] + 1 \in 1..Len(N[t])
    BY <1>3 DEF DecrefArea, At
  <2> QED BY <1>3, <1>4, <2>1 DEF At
<1>6. PICK d2 : d2 = [d EXCEPT ![t] = @ + 1]
  OBVIOUS
<1>7. /\ Struct(N, g, d2)'
      /\ \A u \in Task : \A j \in Idx(N, d2, u) : Same(N, N, u, j)
  BY <1>1, <1>4, <1>5, <1>6, DecrefStep
<1>8. d2[t] = d[t] + 1 /\ \A u \in Task : u # t => d2[u] = d[u]
  BY <1>4, <1>6
<1>9. /\ UNCHANGED <<table, live>>
      /\ call' = [pc |-> call.pc, task |-> t, node |-> At(N[t], d2[t] + 1)]
  <2>1. heap[N[t][d[t] + 1]].next = At(N[t], (d[t] + 1) + 1)
    <3>1. heap[N[t][d[t] + 1]] = [value |-> Ref(N, t, d[t] + 1), prev |-> At(N[t], d[t] + 1 - 1),
                                  next |-> At(N[t], (d[t] + 1) + 1)]
      BY <1>1, <1>4, <1>5 DEF Struct, Nodes
    <3> HIDE DEF At, Ref
    <3> QED BY <3>1
  <2> HIDE DEF At
  <2> QED BY <1>3, <1>5, <1>8, <2>1 DEF DecrefArea
<1>10. Whole' = live \ {t} /\ Whole = live \ {t} /\ \A u \in Task : ~Child(u) /\ ~Child(u)'
  <2>1. call'.pc = call.pc /\ call'.task = t
    BY <1>9
  <2> QED BY <1>1, <1>3, <1>9, <2>1, WholeIs, WholeNext
<1>11. Tasks(N)'
  <2>1. ASSUME NEW u \in Whole'
        PROVE  u \in Whole /\ d[u] = 0 /\ \A j \in Idx(N, d, u) : Same(N, N, u, j)
    <3>1. u \in Task /\ u # t /\ u \in Whole
      BY <1>1, <1>10, <2>1 DEF Types
    <3>2. d[u] = 0 /\ Idx(N, d, u) = Idx(N, d2, u)
      BY <1>3, <1>8, <3>1 DEF Idx
    <3> QED BY <1>7, <3>1, <3>2
  <2>2. \A u \in Task \ live' : ~Child(u)' => N[u] = << >> /\ table'[u] = Empty
    BY <1>1, <1>9, <1>10 DEF Tasks
  <2>3. live' \subseteq Task
    BY <1>1, <1>9 DEF Types
  <2> QED BY <1>1, <2>1, <2>2, <2>3, TasksStep
<1>12. CallOK(N, d2)'
  <2>1. FreeAt(N, d2, t)'
    <3> HIDE DEF At
    <3>1. call'.pc = "exec" \/ (call'.pc = "exit" /\ t # 1)
      <4>1. call'.pc = call.pc
        BY <1>9
      <4> QED BY <1>1, <1>3, <4>1
    <3> QED BY <1>1, <1>3, <1>8, <1>9, <3>1 DEF FreeAt
  <2> QED BY <1>9, <2>1 DEF CallOK
<1>13. Sound(N, g, d2)'
  BY <1>7, <1>11, <1>12 DEF Sound
<1>14. ASSUME NEW u \in Task, u # t PROVE Kept(u)
  <2> DEFINE i == d[t] + 1
  <2>1. i \in Idx(N, d, t) /\ call.node = N[t][i]
    BY <1>4, <1>5 DEF Idx
  <2>2. heap' = [p \in Page |->
                  IF p \in (IF heap[Ref(N, t, i)].refcount = 1
                             THEN ToSet(Pages(N, t, i)) \cup {Ref(N, t, i)} ELSE {}) THEN Free
                  ELSE IF p = Ref(N, t, i) THEN [heap[p] EXCEPT !.refcount = @ - 1]
                  ELSE heap[p]]
    BY <2>1, Zenon DEF DecrefArea, Ref, Pages, Ar
  <2>3. \A p \in ToSet(Pages(N, t, i)) : \E b \in 1..Len(Pages(N, t, i)) : p = Pages(N, t, i)[b]
    <3>1. AreaAt(N, g, t, i)
      BY <1>1, <1>4, <2>1 DEF Struct
    <3>2. Pages(N, t, i) \in Seq(Page)
      BY <3>1 DEF AreaAt, Area, Pages
    <3> HIDE DEF Pages
    <3> QED BY <3>2 DEF ToSet
  <2>4. ASSUME NEW v \in UPage, table[u][v] # None
        PROVE  heap'[table[u][v].frame] = heap[table[u][v].frame]
    <3>1. d[u] = 0
      BY <1>3, <1>14
    <3>2. /\ table[u][v].frame \in Page
          /\ table[u][v].frame # Ref(N, t, i)
          /\ \A b \in 1..Len(Pages(N, t, i)) : table[u][v].frame # Pages(N, t, i)[b]
      <4> HIDE DEF Ref, Pages, i
      <4> QED BY <1>1, <1>4, <1>14, <2>1, <2>4, <3>1, EntryFacts
    <3>3. table[u][v].frame \notin ToSet(Pages(N, t, i))
      BY <2>3, <3>2
    <3> HIDE DEF Ref, Pages, i
    <3> QED BY <2>2, <3>2, <3>3
  <2> QED BY <1>9, <2>4 DEF Kept
<1> QED BY <1>3, <1>13, <1>14 DEF IInv

LEMMA DecrefDoneAllStep ==
  ASSUME NEW N, NEW g, NEW d, Sound(N, g, d), DecrefDone
  PROVE  IInv' /\ \A u \in Task : u # call.task => Kept(u)
<1>1. /\ Struct(N, g, d) /\ Tasks(N) /\ CallOK(N, d) /\ Types
      /\ call.pc = "exec" \/ call.pc = "exit"
  BY DEF Sound, DecrefDone, Struct
<1>2. PICK t \in live : FreeAt(N, d, t)
  BY <1>1, CallCases
<1>3. /\ call.task = t /\ call.node = At(N[t], d[t] + 1)
      /\ call.pc = "exit" => t # 1
      /\ \A u \in Task : u # t => d[u] = 0
  <2> HIDE DEF At
  <2> QED BY <1>2 DEF FreeAt
<1>4. /\ t \in Task /\ d[t] \in Nat /\ N[t] \in Seq(Page) /\ Len(N[t]) \in Nat
      /\ d[t] <= Len(N[t])
      /\ d \in [Task -> Nat] /\ N \in [Task -> Seq(Page)]
  BY <1>1 DEF Struct, Types, Ghosts
<1>5. d[t] = Len(N[t])
  <2>1. \A i \in 1..Len(N[t]) : N[t][i] # NULL
    BY <1>4, MemoryAssumption
  <2>2. ~(d[t] + 1 \in 1..Len(N[t]))
    BY <1>3, <2>1 DEF DecrefDone, At
  <2> QED BY <1>4, <2>2
<1>6. PICK M2 : M2 = [N EXCEPT ![t] = << >>]
  OBVIOUS
<1>7. PICK d2 : d2 = [d EXCEPT ![t] = 0]
  OBVIOUS
<1>8. /\ Struct(M2, g, d2)'
      /\ \A u \in Task : u # t => \A j \in Idx(N, d, u) : Same(N, M2, u, j)
      /\ OnlyNodes(N, t)
      /\ table' = [table EXCEPT ![t] = Empty]
  <2>1. call.task = t /\ (call.pc = "exit" => t # 1) /\ t \in Task /\ DecrefDone
    BY <1>3, <1>4
  <2>2. /\ Struct(M2, g, d2)'
        /\ \A u \in Task : u # t => \A j \in Idx(N, d, u) : Same(N, M2, u, j)
        /\ OnlyNodes(N, t)
    BY <1>1, <1>5, <1>6, <1>7, <2>1, DecrefDoneStep
  <2>3. table' = [table EXCEPT ![t] = Empty]
    BY <1>3 DEF DecrefDone
  <2> QED BY <2>2, <2>3
<1>9. All(d2) /\ M2[t] = << >> /\ \A u \in Task : u # t => M2[u] = N[u]
  BY <1>3, <1>4, <1>6, <1>7 DEF All
<1>10. /\ table'[t] = Empty /\ \A u \in Task : u # t => table'[u] = table[u]
  <2> HIDE DEF Empty
  <2> QED BY <1>1, <1>4, <1>8 DEF Types
<1>11. \/ call' = Load(t, 1) /\ live' = live
       \/ call' = User /\ live' = live \ {t}
  BY <1>3 DEF DecrefDone
<1>12. Whole' = live \ {t} /\ Whole = live \ {t} /\ \A u \in Task : ~Child(u) /\ ~Child(u)'
  <2>1. Whole = live \ {t} /\ \A u \in Task : ~Child(u)
    BY <1>1, <1>3, WholeIs
  <2>2. Whole' = live \ {t} /\ \A u \in Task : ~Child(u)'
    <3>1. CASE call' = Load(t, 1) /\ live' = live
      <4>1. call'.pc = "load" /\ call'.task = t
        BY <3>1 DEF Load
      <4> QED BY <3>1, <4>1, WholeNext
    <3>2. CASE call' = User /\ live' = live \ {t}
      <4>1. call'.pc = "user"
        BY <3>2 DEF User
      <4> QED BY <3>2, <4>1, WholeNext
    <3> QED BY <1>11, <3>1, <3>2
  <2> QED BY <2>1, <2>2
<1>13. Tasks(M2)'
  <2>1. ASSUME NEW u \in Whole'
        PROVE  u \in Whole /\ d[u] = 0 /\ M2[u] = N[u] /\ \A j \in Idx(N, d, u) : Same(N, M2, u, j)
    <3>1. u \in Task /\ u # t /\ u \in Whole
      BY <1>1, <1>12, <2>1 DEF Types
    <3> QED BY <1>3, <1>8, <1>9, <3>1
  <2>2. \A u \in Task \ live' : ~Child(u)' => M2[u] = << >> /\ table'[u] = Empty
    <3> TAKE u \in Task \ live'
    <3>1. CASE u = t
      BY <1>9, <1>10, <3>1
    <3>2. CASE u # t
      <4>1. u \notin live
        BY <1>11, <3>2
      <4> QED BY <1>1, <1>9, <1>10, <1>12, <3>2, <4>1 DEF Tasks
    <3> QED BY <3>1, <3>2
  <2>3. live' \subseteq Task
    BY <1>1, <1>11 DEF Types
  <2> QED BY <1>1, <2>1, <2>2, <2>3, TasksStep
<1>14. CallOK(M2, d2)'
  <2>1. CASE call' = User
    BY <1>9, <2>1 DEF CallOK, All, User
  <2>2. CASE call' = Load(t, 1) /\ live' = live
    <3>1. Len(M2[t]) = 0 /\ 1 - 1 = 0 /\ \A i \in 1..0 : FALSE
      BY <1>9
    <3>2. Loaded(M2, t, 0)'
      BY <3>1 DEF Loaded
    <3>3. \A i \in 1..0 : Full(M2, t, i)'
      BY <3>1
    <3>4. LoadAt(M2, t, 1)'
      <4> HIDE DEF Loaded, Full
      <4> QED BY <2>2, <3>1, <3>2, <3>3 DEF LoadAt, Load
    <3>5. 1 \in 1..(Len(Segments) + 1) /\ Len(Segments)' = Len(Segments)
      BY SegmentFacts DEF Segments
    <3> HIDE DEF Segments
    <3> QED BY <1>9, <2>2, <3>4, <3>5 DEF CallOK, All
  <2> QED BY <1>11, <2>1, <2>2
<1>15. Sound(M2, g, d2)'
  BY <1>8, <1>13, <1>14 DEF Sound
<1>16. ASSUME NEW u \in Task, u # t PROVE Kept(u)
  <2>1. ASSUME NEW v \in UPage, table[u][v] # None
        PROVE  heap'[table[u][v].frame] = heap[table[u][v].frame]
    <3>1. d[u] = 0
      BY <1>3, <1>16
    <3>2. /\ table[u][v].frame \in Page
          /\ \A k \in 1..Len(N[t]) : table[u][v].frame # N[t][k]
      BY <1>1, <1>4, <2>1, <3>1, EntryFacts
    <3> QED BY <1>8, <3>2 DEF OnlyNodes
  <2> QED BY <1>10, <1>16, <2>1 DEF Kept
<1> QED BY <1>3, <1>15, <1>16 DEF IInv

-----------------------------------------------------------------------------
(* Steps of a program, and a page more                                     *)

LEMMA UserWriteStep ==
  ASSUME NEW N, NEW g, NEW d, Sound(N, g, d), NEW t, NEW va \in UPage, UserWrite(t, va)
  PROVE  Sound(N, g, d)'
<1>1. /\ Struct(N, g, d) /\ Tasks(N) /\ Types /\ All(d) /\ call = User
      /\ t \in live /\ t \in Task /\ Whole = live
      /\ \A u : ~Child(u)
  BY RunsFacts DEF UserWrite
<1>2. PICK x \in Written : heap' = [heap EXCEPT ![table[t][va].frame] = Frame(x)]
  BY DEF UserWrite
<1>3. UNCHANGED <<used, areas, table, live, args, call>> /\ table[t][va] # None
  BY DEF UserWrite, Allowed
<1>4. PICK i \in Idx(N, d, t) : \E j \in 1..Len(Pages(N, t, i)) :
         table[t][va].frame = Pages(N, t, i)[j] /\ Pages(N, t, i)[j] \in Held
  BY <1>1, <1>3, EntryFrame DEF All
<1>5. PICK j \in 1..Len(Pages(N, t, i)) :
         table[t][va].frame = Pages(N, t, i)[j] /\ Pages(N, t, i)[j] \in Held
  BY <1>4
<1>6. PICK p : p = Pages(N, t, i)[j]
  OBVIOUS
<1>7. /\ Struct(N, g, d)'
      /\ \A u \in Task : \A k \in Idx(N, d, u) : Same(N, N, u, k)
  <2> DEFINE F == {p}
  <2>1. \A u \in Task : \A k \in 1..Len(N[u]) : N[u][k] \notin F
    BY <1>1, <1>6, Apart DEF Disjoint
  <2>2. \A u \in Task : \A k \in Idx(N, d, u) : Ref(N, u, k) \notin F
    BY <1>1, <1>6, Apart DEF Disjoint
  <2>3. p \in Page /\ heap' = [heap EXCEPT ![p] = Frame(x)] /\ heap = [q \in Page |-> heap[q]]
    BY <1>1, <1>2, <1>5, <1>6 DEF Held, Types
  <2>4. Frame(x) \in [data : Data]
    BY DEF Frame, Data
  <2>5. /\ heap' = [q \in Page |-> heap'[q]]
        /\ \A q \in Held : IF q \in F THEN heap'[q] \in [data : Data] ELSE heap'[q] = heap[q]
    <3>1. Held \subseteq Page
      BY <1>1 DEF Held, Types
    <3> QED BY <2>3, <2>4, <3>1
  <2>6. Held' = Held /\ used' \subseteq Page /\ args' \subseteq used' /\ live' \subseteq Task /\ 1 \in live'
    BY <1>1, <1>3 DEF Held, Types
  <2> HIDE DEF F
  <2> QED BY <1>1, <1>3, <2>1, <2>2, <2>5, <2>6, KeptStep
<1>8. Tasks(N)'
  <2>1. Whole' = Whole /\ \A u \in Task : Child(u)' = Child(u)
    BY <1>3 DEF Whole, Loads, Exits, Child
  <2>2. \A u \in Whole' : u \in Whole /\ d[u] = 0 /\ \A k \in Idx(N, d, u) : Same(N, N, u, k)
    BY <1>1, <1>7, <2>1 DEF All, Types
  <2>3. \A u \in Task \ live' : ~Child(u)' => N[u] = << >> /\ table'[u] = Empty
    BY <1>1, <1>3 DEF Tasks
  <2> QED BY <1>1, <1>3, <2>2, <2>3, TasksStep DEF Types
<1>9. CallOK(N, d)'
  BY <1>1, <1>3 DEF CallOK, All, User
<1> QED BY <1>7, <1>8, <1>9 DEF Sound

LEMMA PageTasks ==
  ASSUME NEW N, NEW g, NEW d, Struct(N, g, d), Tasks(N), All(d),
         NEW t \in Task, NEW i, NEW area, NEW v, NEW x, NEW f,
         used # Page, AddPage(t, Ref(N, t, i), area, v, x, f),
         PageAdded(N, d, t, i, area, v, x, f),
         t \in Whole => Complete(N, t)',
         t \in live \/ Child(t)
  PROVE  /\ Tasks(N)' /\ call' = call /\ live' = live
         /\ \A u \in Task : u # t => \A j \in Idx(N, d, u) : Same(N, N, u, j)
<1>1. /\ call' = call /\ live' = live
      /\ table' = [table EXCEPT ![t][v] = [frame |-> NewPage, flags |-> f]]
      /\ Types
  BY DEF AddPage, Struct
<1>2. \A u \in Task : u # t => \A j \in Idx(N, d, u) : Same(N, N, u, j)
  BY DEF PageAdded
<1>3. Whole' = Whole /\ \A u \in Task : Child(u)' = Child(u)
  BY <1>1 DEF Whole, Loads, Exits, Child
<1>4. \A u \in Task : u # t => table'[u] = table[u]
  BY <1>1 DEF Types
<1>5. \A u \in Whole' :
        \/ Complete(N, u)'
        \/ u \in Whole /\ d[u] = 0 /\ \A j \in Idx(N, d, u) : Same(N, N, u, j)
  <2> TAKE u \in Whole'
  <2>1. u \in Task /\ u \in Whole /\ d[u] = 0
    BY <1>1, <1>3 DEF Whole, All, Types
  <2> QED BY <1>2, <2>1
<1>6. \A u \in Task \ live' : ~Child(u)' => N[u] = << >> /\ table'[u] = Empty
  BY <1>1, <1>3, <1>4 DEF Tasks
<1>7. Tasks(N)'
  BY <1>1, <1>5, <1>6, TasksStep DEF Types
<1> QED BY <1>1, <1>2, <1>7

LEMMA LoadPageStep ==
  ASSUME NEW N, NEW g, NEW d, Sound(N, g, d), LoadPage
  PROVE  IInv' /\ (Stays \/ PageLoaded(call.task))
<1>1. Struct(N, g, d) /\ Tasks(N) /\ CallOK(N, d) /\ Types /\ call.pc = "load_page"
  BY DEF Sound, LoadPage, Struct
<1>2. All(d)
  BY <1>1, CallCases
<1>3. PICK t \in live, k \in 1..(Len(Segments) + 1) : LoadPageAt(N, t, k)
  BY <1>1, CallCases
<1>4. call = [pc |-> "load_page", task |-> t, index |-> k, area |-> Ref(N, t, k)]
      /\ k \in 1..Len(Segments) /\ Loaded(N, t, k) /\ \A i \in 1..(k - 1) : Full(N, t, i)
  BY <1>3 DEF LoadPageAt
<1>5. /\ t \in Task /\ k \in Nat /\ Len(N[t]) = k /\ k \in 1..Len(N[t])
      /\ Idx(N, d, t) = 1..k /\ k \in Idx(N, d, t) /\ Len(Segments) \in Nat
  <2>1. Len(Segments) \in Nat
    BY SegmentFacts
  <2>2. t \in Task /\ k \in Nat /\ Len(N[t]) = k
    BY <1>1, <1>4, <2>1 DEF Types, Loaded
  <2>3. k \in 1..k
    BY <1>4, <2>1, <2>2
  <2> QED BY <1>1, <1>2, <2>1, <2>2, <2>3, AllFacts
<1>6. AreaAt(N, g, t, k)
  BY <1>1, <1>5 DEF Struct
<1>7. PICK area : area = Ar(N, t, k)
  OBVIOUS
<1>8. PICK v : v = area.va + Len(area.pages)
  OBVIOUS
<1>9. PICK x : x = IF k > Len(Program) THEN Zero ELSE v
  OBVIOUS
<1>10. PICK f : f = area.flags \cap Permission
  OBVIOUS
<1>11. Len(area.pages) < area.n_pages /\ AddPage(t, Ref(N, t, k), area, v, x, f)
  <2>1. call.task = t /\ call.index = k /\ call.area = Ref(N, t, k)
    <3> HIDE DEF Ref
    <3> QED BY <1>4
  <2> QED BY <1>7, <1>8, <1>9, <1>10, <2>1 DEF LoadPage, Ar
<1>12. CASE used = Page
  <2>1. Sound(N, g, d)'
    BY <1>11, <1>12, StutterStep DEF AddPage, panic
  <2>2. Stays
    BY <1>11, <1>12 DEF AddPage, panic, Stays
  <2> QED BY <2>1, <2>2 DEF IInv
<1>13. CASE used # Page
  <2>1. /\ area \in Area /\ area.pages = Pages(N, t, k) /\ area.va \in Nat /\ area.n_pages \in Nat
        /\ Len(area.pages) \in Nat
    BY <1>6, <1>7 DEF AreaAt, Area, Pages
  <2>2. area.va = Segments[k].va /\ area.n_pages = Segments[k].n_pages
    BY <1>4, <1>5, <1>7 DEF Loaded
  <2>3. v \in UPage
    <3>1. Segments[k].va + Segments[k].n_pages <= USERSTACK
      <4>1. CASE k \in 1..Len(Program)
        BY <4>1, SegmentFacts, MemoryAssumption
      <4>2. CASE k = Len(Program) + 1
        <5>1. Segments[k].va = USERSTACK - 1 /\ Segments[k].n_pages = 1
          <6>1. Segments[k] = [va |-> USERSTACK - 1, n_pages |-> 1, flags |-> {"r", "w", "STACK"}]
            BY <4>2, SegmentFacts
          <6> QED BY <6>1
        <5> QED BY <5>1, MemoryAssumption
      <4>3. Len(Program) \in Nat /\ Len(Segments) = Len(Program) + 1
        BY SegmentFacts
      <4> QED BY <1>4, <4>1, <4>2, <4>3
    <3> QED BY <1>8, <1>11, <2>1, <2>2, <3>1, MemoryAssumption DEF UPage
  <2>4. x \in Data /\ f \in SUBSET Permission
    BY <1>9, <1>10, <2>3 DEF Data
  <2>5. Wider(N, d, t, k, area, v)
    <3>1. \A j \in Idx(N, d, t) : j < k => End(N, t, j) <= area.va
      BY <1>1, <1>5, <1>7 DEF Struct, Sorted
    <3>2. area.va + area.n_pages = End(N, t, k)
      BY <1>7 DEF End
    <3> QED BY <1>7, <1>8, <1>11, <2>1, <2>3, <3>1, <3>2 DEF Wider
  <2>6. PICK h : h = [p \in Page |->
                        IF p = NewPage THEN <<t, k, Len(Pages(N, t, k)) + 3>> ELSE g[p]]
    OBVIOUS
  <2>7. Struct(N, h, d)' /\ PageAdded(N, d, t, k, area, v, x, f)
    <3>1. Ar(N, t, k).flags \cap Permission \subseteq f
      BY <1>7, <1>10
    <3> QED BY <1>1, <1>5, <1>11, <1>13, <2>4, <2>5, <2>6, <3>1, AddPageStep
  <2>8. t \notin Whole
    BY <1>1, <1>4, WholeIs
  <2>9. /\ Tasks(N)' /\ call' = call /\ live' = live
    BY <1>1, <1>2, <1>5, <1>11, <1>13, <2>7, <2>8, PageTasks
  <2>10. \A j \in 1..(k - 1) : j \in 1..k /\ Same(N, N, t, j)
    <3>1. \A j \in 1..(k - 1) : j \in 1..k /\ j # k
      BY <1>5
    <3> QED BY <1>5, <2>7, <3>1 DEF PageAdded
  <2>11. /\ Ar(N, t, k)'.va = area.va /\ Ar(N, t, k)'.n_pages = area.n_pages
         /\ Ar(N, t, k)'.flags = Ar(N, t, k).flags
    BY <1>1, <1>5, <2>4, <2>5, <2>7, WiderAfter
  <2>12. Loaded(N, t, k)'
    <3>1. ASSUME NEW j \in 1..k
          PROVE  /\ Ar(N, t, j)'.va = Segments[j].va
                 /\ Ar(N, t, j)'.n_pages = Segments[j].n_pages
                 /\ Ar(N, t, j)'.flags = Segments[j].flags
      <4>1. CASE j = k
        BY <1>4, <1>7, <2>11, <4>1 DEF Loaded
      <4>2. CASE j # k
        <5>1. j \in 1..(k - 1)
          BY <1>5, <4>2
        <5>2. Ar(N, t, j)' = Ar(N, t, j)
          BY <2>10, <5>1 DEF Same
        <5> QED BY <1>4, <5>2 DEF Loaded
      <4> QED BY <4>1, <4>2
    <3>2. Segments' = Segments
      BY DEF Segments
    <3> HIDE DEF Ar, Segments
    <3> QED BY <1>5, <3>1, <3>2 DEF Loaded
  <2>13. \A j \in 1..(k - 1) : Full(N, t, j)'
    BY <1>4, <2>10, SameFull
  <2>14. LoadPageAt(N, t, k)'
    <3>1. Ref(N, t, k)' = Ref(N, t, k)
      BY <1>5, <2>7 DEF PageAdded
    <3>2. Segments' = Segments
      BY DEF Segments
    <3> HIDE DEF Ref, Segments
    <3> QED BY <1>4, <2>9, <2>12, <2>13, <3>1, <3>2 DEF LoadPageAt
  <2>15. CallOK(N, d)'
    <3>1. k \in 1..(Len(Segments) + 1) /\ Len(Segments)' = Len(Segments) /\ All(d)'
      BY <1>2 DEF Segments, All
    <3> HIDE DEF Segments
    <3> QED BY <2>9, <2>14, <3>1 DEF CallOK
  <2>16. Sound(N, h, d)'
    BY <2>7, <2>9, <2>15 DEF Sound
  <2>17. Filled(t, v, x, f) /\ t = call.task
    BY <1>1, <1>2, <1>4, <1>5, <2>3, <2>4, <2>7, <2>9, PageKept
  <2>18. x = FileImage[v]
    <3>1. v >= Segments[k].va /\ v <= Segments[k].va + Segments[k].n_pages - 1
      BY <1>8, <1>11, <2>1, <2>2
    <3>2. CASE k \in 1..Len(Program)
      <4>1. v # USERSTACK - 1 /\ ~(k > Len(Program)) /\ Segments[k] = Program[k]
        <5>1. Segments[k].va + Segments[k].n_pages < USERSTACKMIN /\ Segments[k] = Program[k]
          BY <3>2, SegmentFacts
        <5>2. ~(k > Len(Program))
          BY <3>2, SegmentFacts
        <5>3. v \in Nat /\ v < USERSTACKMIN
          <6>1. Segments[k].va \in Nat /\ Segments[k].n_pages \in Nat /\ v \in Nat
            BY <2>1, <2>2, <2>3 DEF UPage
          <6>2. USERSTACKMIN \in Nat
            BY MemoryAssumption
          <6> HIDE DEF Segments
          <6>3. v <= Segments[k].va + Segments[k].n_pages - 1
            BY <3>1
          <6>4. Segments[k].va + Segments[k].n_pages < USERSTACKMIN
            BY <5>1
          <6>5. \A a, b, c, m \in Nat : c <= a + b - 1 /\ a + b < m => c < m
            OBVIOUS
          <6> QED BY <6>1, <6>2, <6>3, <6>4, <6>5, Zenon
        <5> QED BY <5>1, <5>2, <5>3, MemoryAssumption
      <4>2. v \in Program[k].va..(Program[k].va + Program[k].n_pages - 1)
        BY <1>8, <2>1, <2>2, <3>1, <4>1
      <4> QED BY <1>9, <2>3, <3>2, <4>1, <4>2 DEF FileImage
    <3>3. CASE k = Len(Program) + 1
      <4>1. Segments[k].va = USERSTACK - 1 /\ Segments[k].n_pages = 1
        <5>1. Segments[k] = [va |-> USERSTACK - 1, n_pages |-> 1, flags |-> {"r", "w", "STACK"}]
          BY <3>3, SegmentFacts
        <5> QED BY <5>1
      <4>2. v = USERSTACK - 1 /\ k > Len(Program)
        BY <1>8, <2>1, <2>2, <3>1, <3>3, <4>1, SegmentFacts, MemoryAssumption
      <4> QED BY <1>9, <2>3, <4>2 DEF FileImage
    <3>4. Len(Program) \in Nat /\ Len(Segments) = Len(Program) + 1
      BY SegmentFacts
    <3> QED BY <1>4, <3>2, <3>3, <3>4
  <2>19. Readable => "r" \in f
    <3>1. area.flags = Segments[k].flags
      BY <1>4, <1>5, <1>7 DEF Loaded
    <3>2. CASE k \in 1..Len(Program)
      BY <1>10, <3>1, <3>2, SegmentFacts DEF Readable, Permission
    <3>3. CASE k = Len(Program) + 1
      <4>1. Segments[k] = [va |-> USERSTACK - 1, n_pages |-> 1, flags |-> {"r", "w", "STACK"}]
        BY <3>3, SegmentFacts
      <4>2. "r" \in Segments[k].flags
        BY <4>1
      <4> QED BY <1>10, <3>1, <4>2 DEF Permission
    <3>4. Len(Program) \in Nat /\ Len(Segments) = Len(Program) + 1
      BY SegmentFacts
    <3> QED BY <1>4, <3>2, <3>3, <3>4
  <2>20. PageLoaded(t)
    BY <2>17, <2>18, <2>19 DEF PageLoaded
  <2> QED BY <2>16, <2>17, <2>20 DEF IInv
<1> QED BY <1>12, <1>13

LEMMA ClonePageStep ==
  ASSUME NEW N, NEW g, NEW d, Sound(N, g, d), ClonePage
  PROVE  /\ IInv'
         /\ \/ Stays
            \/ \E v : /\ call.task \in Task /\ call.child \in Task \ live
                     /\ v \in UPage /\ table[call.task][v] # None
                     /\ Filled(call.child, v, copy_from_user(call.task, v), Permission)
<1>1. Struct(N, g, d) /\ Tasks(N) /\ CallOK(N, d) /\ Types /\ call.pc = "clone_page"
  BY DEF Sound, ClonePage, Struct
<1>2. All(d)
  BY <1>1, CallCases
<1>3. PICK t \in live, c \in Task : ClonePageAt(N, t, c)
  BY <1>1, CallCases
<1>4. PICK k : k = Len(N[c])
  OBVIOUS
<1>5. /\ call = [pc |-> "clone_page", task |-> t, child |-> c,
                 node |-> N[t][k], area |-> Ref(N, c, k)]
      /\ c \notin live /\ k > 0 /\ Copied(N, t, c) /\ \A i \in 1..(k - 1) : Full(N, c, i)
  BY <1>3, <1>4 DEF ClonePageAt
<1>6. t \in Task /\ t # c
  BY <1>1, <1>5 DEF Types
<1>7. /\ k \in Nat /\ Len(N[t]) \in Nat /\ k \in 1..Len(N[t]) /\ k \in 1..Len(N[c])
      /\ Idx(N, d, c) = 1..k /\ Idx(N, d, t) = 1..Len(N[t])
      /\ k \in Idx(N, d, c) /\ k \in Idx(N, d, t)
  <2>1. k \in Nat /\ Len(N[t]) \in Nat /\ Idx(N, d, c) = 1..k /\ Idx(N, d, t) = 1..Len(N[t])
    BY <1>1, <1>2, <1>4, <1>6, AllFacts
  <2>2. k <= Len(N[t])
    BY <1>4, <1>5 DEF Copied
  <2> QED BY <1>4, <1>5, <2>1, <2>2
<1>8. AreaAt(N, g, c, k) /\ AreaAt(N, g, t, k) /\ TableAt(N, t, k)
  BY <1>1, <1>6, <1>7 DEF Struct
<1>9. PICK area : area = Ar(N, c, k)
  OBVIOUS
<1>10. PICK v : v = area.va + Len(area.pages)
  OBVIOUS
<1>11. PICK x : x = copy_from_user(t, v)
  OBVIOUS
<1>12. PICK f : f = pte_flags_from_vm_flags(area.flags)
  OBVIOUS
<1>13. Len(area.pages) < area.n_pages /\ AddPage(c, Ref(N, c, k), area, v, x, f)
  <2>1. call.task = t /\ call.child = c /\ call.area = Ref(N, c, k)
    <3> HIDE DEF Ref
    <3> QED BY <1>5
  <2> QED BY <1>9, <1>10, <1>11, <1>12, <2>1 DEF ClonePage, clone_page, Ar
<1>14. CASE used = Page
  <2>1. Sound(N, g, d)'
    BY <1>13, <1>14, StutterStep DEF AddPage, panic
  <2>2. Stays
    BY <1>13, <1>14 DEF AddPage, panic, Stays
  <2> QED BY <2>1, <2>2 DEF IInv
<1>15. CASE used # Page
  <2>1. /\ area \in Area /\ area.pages = Pages(N, c, k) /\ area.va \in Nat /\ area.n_pages \in Nat
        /\ Len(area.pages) \in Nat
    BY <1>8, <1>9 DEF AreaAt, Area, Pages
  <2>2. /\ area.va = Ar(N, t, k).va /\ area.n_pages = Ar(N, t, k).n_pages
        /\ area.flags = Ar(N, t, k).flags
    BY <1>4, <1>5, <1>7, <1>9 DEF Copied
  <2>3. v \in Mapped(N, t, k)
    <3>1. t \in Whole
      BY <1>1, WholeIs
    <3>2. Len(Pages(N, t, k)) = area.n_pages
      BY <1>1, <1>7, <2>2, <3>1 DEF Tasks, Complete, Full
    <3>3. Mapped(N, t, k) = area.va..(area.va + area.n_pages - 1)
      BY <2>2, <3>2 DEF Mapped
    <3> QED BY <1>10, <1>13, <2>1, <3>3
  <2>4. v \in UPage /\ table[t][v] # None
    BY <1>8, <2>3 DEF TableAt
  <2>5. x \in Data
    <3>1. heap[table[t][v].frame] \in [data : Data]
      BY <1>1, <1>2, <1>6, <2>4, EntryFrame DEF All
    <3>2. heap[table[t][v].frame].data \in Data
      <4> HIDE DEF Data
      <4> QED BY <3>1
    <3>3. Stale \in Data
      BY DEF Data
    <3> QED BY <1>11, <3>2, <3>3 DEF copy_from_user
  <2>6. f = Permission
    BY <1>12 DEF pte_flags_from_vm_flags
  <2>7. f \in SUBSET Permission
    BY <2>6
  <2>8. Wider(N, d, c, k, area, v)
    <3>1. \A j \in Idx(N, d, c) : j < k => End(N, c, j) <= area.va
      BY <1>1, <1>7, <1>9 DEF Struct, Sorted
    <3>2. area.va + area.n_pages = End(N, c, k)
      BY <1>9 DEF End
    <3> QED BY <1>9, <1>10, <1>13, <2>1, <2>4, <3>1, <3>2 DEF Wider
  <2>9. PICK h : h = [p \in Page |->
                        IF p = NewPage THEN <<c, k, Len(Pages(N, c, k)) + 3>> ELSE g[p]]
    OBVIOUS
  <2>10. Struct(N, h, d)' /\ PageAdded(N, d, c, k, area, v, x, f)
    <3>1. Ar(N, c, k).flags \cap Permission \subseteq f
      BY <2>6
    <3> QED BY <1>1, <1>7, <1>13, <1>15, <2>5, <2>7, <2>8, <2>9, <3>1, AddPageStep
  <2>11. c \notin Whole /\ Child(c)
    BY <1>1, <1>5, WholeIs DEF Child
  <2>12. /\ Tasks(N)' /\ call' = call /\ live' = live
         /\ \A u \in Task : u # c => \A j \in Idx(N, d, u) : Same(N, N, u, j)
    BY <1>1, <1>2, <1>13, <1>15, <2>10, <2>11, PageTasks
  <2>13. \A j \in 1..(k - 1) : j \in 1..k /\ Same(N, N, c, j)
    <3>1. \A j \in 1..(k - 1) : j \in 1..k /\ j # k
      BY <1>7
    <3> QED BY <1>7, <2>10, <3>1 DEF PageAdded
  <2>14. /\ Ar(N, c, k)'.va = area.va /\ Ar(N, c, k)'.n_pages = area.n_pages
         /\ Ar(N, c, k)'.flags = Ar(N, c, k).flags
    BY <1>1, <1>7, <2>5, <2>7, <2>8, <2>10, WiderAfter
  <2>15. Copied(N, t, c)'
    <3>1. ASSUME NEW j \in 1..k
          PROVE  /\ Ar(N, c, j)'.va = Ar(N, t, j)'.va
                 /\ Ar(N, c, j)'.n_pages = Ar(N, t, j)'.n_pages
                 /\ Ar(N, c, j)'.flags = Ar(N, t, j)'.flags
      <4>1. Ar(N, t, j)' = Ar(N, t, j)
        <5>1. j \in Idx(N, d, t)
          BY <1>7
        <5> QED BY <1>6, <2>12, <5>1 DEF Same
      <4>2. /\ Ar(N, c, j).va = Ar(N, t, j).va
            /\ Ar(N, c, j).n_pages = Ar(N, t, j).n_pages
            /\ Ar(N, c, j).flags = Ar(N, t, j).flags
        BY <1>4, <1>5 DEF Copied
      <4>3. CASE j = k
        BY <1>9, <2>14, <4>1, <4>2, <4>3
      <4>4. CASE j # k
        <5>1. j \in 1..(k - 1)
          BY <1>7, <4>4
        <5>2. Ar(N, c, j)' = Ar(N, c, j)
          BY <2>13, <5>1 DEF Same
        <5> QED BY <4>1, <4>2, <5>2
      <4> QED BY <4>3, <4>4
    <3>2. Len(N[c]) <= Len(N[t])
      BY <1>5 DEF Copied
    <3> HIDE DEF Ar
    <3> QED BY <1>4, <3>1, <3>2 DEF Copied
  <2>16. \A j \in 1..(k - 1) : Full(N, c, j)'
    BY <1>5, <2>13, SameFull
  <2>17. ClonePageAt(N, t, c)'
    <3>1. Ref(N, c, k)' = Ref(N, c, k)
      BY <1>7, <2>10 DEF PageAdded
    <3> HIDE DEF Ref
    <3> QED BY <1>4, <1>5, <2>12, <2>15, <2>16, <3>1 DEF ClonePageAt
  <2>18. CallOK(N, d)'
    BY <1>2, <2>12, <2>17 DEF CallOK, All
  <2>19. Sound(N, h, d)'
    BY <2>10, <2>12, <2>18 DEF Sound
  <2>20. Filled(c, v, x, Permission)
    <3>1. c \in Task
      OBVIOUS
    <3> QED BY <1>1, <1>2, <1>7, <2>4, <2>6, <2>7, <2>10, <2>12, <3>1, PageKept
  <2>21. call.task = t /\ call.child = c
    BY <1>5
  <2> QED BY <1>5, <1>6, <1>11, <2>4, <2>19, <2>20, <2>21 DEF IInv
<1> QED BY <1>14, <1>15

LEMMA GrowPageStep ==
  ASSUME NEW N, NEW g, NEW d, Sound(N, g, d), GrowPage
  PROVE  /\ IInv'
         /\ Stays \/ \E v : v >= call.page /\ Filled(call.task, v, Zero, Permission)
<1>1. Struct(N, g, d) /\ Tasks(N) /\ CallOK(N, d) /\ Types /\ call.pc = "grow"
  BY DEF Sound, GrowPage, Struct
<1>2. All(d)
  BY <1>1, CallCases
<1>3. PICK t \in live, page \in USERSTACKMIN..(USERSTACK - 1) : GrowAt(N, t, page)
  BY <1>1, CallCases
<1>4. PICK n : n = Len(N[t])
  OBVIOUS
<1>5. call = [pc |-> "grow", task |-> t, area |-> Ref(N, t, n), page |-> page]
  BY <1>3, <1>4 DEF GrowAt
<1>6. Complete(N, t) /\ t \in Whole
  <2>1. t \in Whole
    BY <1>1, WholeIs
  <2> QED BY <1>1, <2>1 DEF Tasks
<1>7. /\ t \in Task /\ n \in Nat /\ n > 0 /\ Idx(N, d, t) = 1..n
      /\ n \in Idx(N, d, t) /\ n \in 1..Len(N[t])
  <2>1. t \in Task /\ n > 0
    BY <1>1, <1>4, <1>6 DEF Types, Complete
  <2>2. n \in Nat /\ Idx(N, d, t) = 1..n
    BY <1>1, <1>2, <1>4, <2>1, AllFacts
  <2> QED BY <1>4, <2>1, <2>2
<1>8. AreaAt(N, g, t, n)
  BY <1>1, <1>7 DEF Struct
<1>9. PICK old : old = Ar(N, t, n)
  OBVIOUS
<1>10. PICK area : area = [old EXCEPT !.va = @ - 1, !.n_pages = @ + 1]
  OBVIOUS
<1>11. PICK v : v = old.va - 1
  OBVIOUS
<1>12. PICK f : f = pte_flags_from_vm_flags(old.flags)
  OBVIOUS
<1>13. old.va > page /\ AddPage(t, Ref(N, t, n), area, v, Zero, f)
  <2>1. call.task = t /\ call.area = Ref(N, t, n) /\ call.page = page
    <3> HIDE DEF Ref
    <3> QED BY <1>5
  <2> QED BY <1>9, <1>10, <1>11, <1>12, <2>1 DEF GrowPage, grow_page, Ar
<1>14. CASE used = Page
  <2>1. Sound(N, g, d)'
    BY <1>13, <1>14, StutterStep DEF AddPage, panic
  <2>2. Stays
    BY <1>13, <1>14 DEF AddPage, panic, Stays
  <2> QED BY <2>1, <2>2 DEF IInv
<1>15. CASE used # Page
  <2>1. /\ old \in Area /\ old.pages = Pages(N, t, n) /\ old.va \in Nat /\ old.n_pages \in Nat
        /\ old.pages \in Seq(Page) /\ Len(old.pages) \in Nat /\ old.va > 0
    <3>1. page \in Nat
      BY MemoryAssumption
    <3> QED BY <1>8, <1>9, <1>13, <3>1 DEF AreaAt, Area, Pages
  <2>2. /\ area.va = old.va - 1 /\ area.n_pages = old.n_pages + 1 /\ area.flags = old.flags
        /\ area.pages = old.pages
    BY <1>10, <2>1 DEF Area
  <2>3. area \in Area
    <3>1. area.va \in Nat /\ area.n_pages \in Nat
      BY <2>1, <2>2
    <3>2. area = [old EXCEPT !.va = area.va, !.n_pages = area.n_pages]
      BY <1>10, <2>1, <2>2 DEF Area
    <3> QED BY <2>1, <3>1, <3>2 DEF Area
  <2>4. /\ Full(N, t, n) /\ "STACK" \in old.flags /\ End(N, t, n) = USERSTACK
        /\ \A j \in 1..(n - 1) : End(N, t, j) < USERSTACKMIN /\ Full(N, t, j)
    <3>1. \A j \in 1..(n - 1) : j \in 1..n
      BY <1>7
    <3> QED BY <1>4, <1>6, <1>7, <1>9, <3>1 DEF Complete
  <2>5. Len(area.pages) = old.n_pages /\ area.va + area.n_pages = End(N, t, n)
    <3>1. Len(old.pages) = old.n_pages
      BY <1>9, <2>1, <2>4 DEF Full
    <3>2. old.va + old.n_pages = End(N, t, n)
      BY <1>9 DEF End
    <3> QED BY <2>1, <2>2, <3>1, <3>2
  <2>6. v \in UPage /\ v = area.va /\ area.va >= USERSTACKMIN
    <3>1. old.va <= USERSTACK
      BY <2>1, <2>4, <1>9 DEF End
    <3> QED BY <1>11, <1>13, <2>1, <2>2, <3>1, MemoryAssumption DEF UPage
  <2>7. Zero \in Data /\ f = Permission /\ f \in SUBSET Permission
    BY <1>12 DEF Data, pte_flags_from_vm_flags
  <2>8. Wider(N, d, t, n, area, v)
    <3>1. ASSUME NEW j \in Idx(N, d, t), j < n PROVE End(N, t, j) <= area.va
      <4>1. j \in 1..(n - 1)
        BY <1>7, <3>1
      <4>2. End(N, t, j) < USERSTACKMIN
        BY <2>4, <4>1
      <4>3. End(N, t, j) \in Nat
        <5>1. AreaAt(N, g, t, j)
          BY <1>1, <1>7, <3>1 DEF Struct
        <5> QED BY <5>1 DEF AreaAt, Area, End
      <4> QED BY <2>1, <2>2, <2>6, <4>2, <4>3, MemoryAssumption
    <3>2. area.va = Ar(N, t, n).va - 1
      BY <1>9, <2>2
    <3>3. area.flags = Ar(N, t, n).flags /\ area.pages = Pages(N, t, n)
      BY <1>9, <2>1, <2>2
    <3>4. Len(area.pages) < area.n_pages
      BY <2>1, <2>2, <2>5
    <3> HIDE DEF Ar, Pages, End
    <3> QED BY <2>3, <2>5, <2>6, <3>1, <3>2, <3>3, <3>4 DEF Wider
  <2>9. PICK h : h = [p \in Page |->
                        IF p = NewPage THEN <<t, n, Len(Pages(N, t, n)) + 3>> ELSE g[p]]
    OBVIOUS
  <2>10. Struct(N, h, d)' /\ PageAdded(N, d, t, n, area, v, Zero, f)
    <3>1. Ar(N, t, n).flags \cap Permission \subseteq f
      BY <2>7
    <3> QED BY <1>1, <1>7, <1>13, <1>15, <2>7, <2>8, <2>9, <3>1, AddPageStep
  <2>11. \A j \in 1..(n - 1) : j \in 1..n /\ Same(N, N, t, j)
    <3>1. \A j \in 1..(n - 1) : j \in 1..n /\ j # n
      BY <1>7
    <3> QED BY <1>7, <2>10, <3>1 DEF PageAdded
  <2>12. /\ Ar(N, t, n)'.va = area.va /\ Ar(N, t, n)'.n_pages = area.n_pages
         /\ Ar(N, t, n)'.flags = Ar(N, t, n).flags
         /\ End(N, t, n)' = End(N, t, n)
         /\ Len(Pages(N, t, n)') = Len(Pages(N, t, n)) + 1
    BY <1>1, <1>7, <2>7, <2>8, <2>10, WiderAfter
  <2>13. Complete(N, t)'
    <3>1. \A j \in 1..n : Full(N, t, j)'
      <4>1. \A j \in 1..(n - 1) : Full(N, t, j)'
        BY <2>4, <2>11, SameFull
      <4>2. Len(Pages(N, t, n)') = Ar(N, t, n)'.n_pages
        BY <2>1, <2>2, <2>5, <2>12
      <4>3. Full(N, t, n)'
        BY <4>2, Zenon DEF Full
      <4>4. \A j \in 1..n : j = n \/ j \in 1..(n - 1)
        BY <1>7
      <4> QED BY <4>1, <4>3, <4>4
    <3>2. \A j \in 1..(n - 1) : End(N, t, j)' < USERSTACKMIN
      BY <2>4, <2>11 DEF Same
    <3>3. /\ "STACK" \in Ar(N, t, n)'.flags /\ Ar(N, t, n)'.va >= USERSTACKMIN
          /\ End(N, t, n)' = USERSTACK
      BY <1>9, <2>4, <2>6, <2>12
    <3> HIDE DEF Ar, End, Full
    <3> QED BY <1>4, <1>7, <3>1, <3>2, <3>3 DEF Complete
  <2>14. Tasks(N)' /\ call' = call /\ live' = live
    BY <1>1, <1>2, <1>7, <1>13, <1>15, <2>10, <2>13, PageTasks
  <2>15. GrowAt(N, t, page)'
    <3>1. Ref(N, t, n)' = Ref(N, t, n)
      BY <1>7, <2>10 DEF PageAdded
    <3> HIDE DEF Ref
    <3> QED BY <1>4, <1>5, <2>14, <3>1 DEF GrowAt
  <2>16. CallOK(N, d)'
    BY <1>2, <2>14, <2>15 DEF CallOK, All
  <2>17. Sound(N, h, d)'
    BY <2>10, <2>14, <2>16 DEF Sound
  <2>18. Filled(t, v, Zero, Permission)
    BY <1>1, <1>2, <1>7, <2>6, <2>7, <2>10, <2>14, PageKept
  <2>19. v >= page
    BY <1>11, <1>13, <2>1, MemoryAssumption
  <2>20. call.task = t /\ call.page = page
    <3> HIDE DEF Ref
    <3> QED BY <1>5
  <2> QED BY <2>17, <2>18, <2>19, <2>20 DEF IInv
<1> QED BY <1>14, <1>15

\* The tasks, when one that no program runs in gets an area more.
LEMMA AreaMore ==
  ASSUME NEW N, NEW g, NEW d, Struct(N, g, d), All(d),
         NEW t \in Task, NEW area, NEW M2, M2[t] = Append(N[t], NextPage),
         AreaAdded(N, M2, d, t, area)
  PROVE  /\ Len(N[t]) \in Nat /\ Len(M2[t]) = Len(N[t]) + 1
         /\ \A u \in Task : \A j \in 1..Len(N[u]) : Same(N, M2, u, j)
<1>1. N \in [Task -> Seq(Page)] /\ NextPage \in Page
  BY DEF Struct, Ghosts, AreaAdded
<1>2. N[t] \in Seq(Page)
  BY <1>1
<1>3. Len(N[t]) \in Nat /\ Len(M2[t]) = Len(N[t]) + 1
  BY <1>1, <1>2, Appended
<1>4. \A u \in Task : \A j \in 1..Len(N[u]) : Same(N, M2, u, j)
  <2> TAKE u \in Task
  <2>1. Idx(N, d, u) = 1..Len(N[u])
    BY AllFacts
  <2> QED BY <2>1 DEF AreaAdded
<1> QED BY <1>3, <1>4

LEMMA AreaTasks ==
  ASSUME NEW N, NEW g, NEW d, Struct(N, g, d), Tasks(N), All(d),
         NEW t \in Task, NEW M2,
         \A u \in Task : u # t => M2[u] = N[u],
         \A u \in Task : \A j \in 1..Len(N[u]) : Same(N, M2, u, j),
         UNCHANGED <<table, live>>,
         Whole' = Whole, \A u \in Task : Child(u)' <=> Child(u),
         t \notin Whole, t \in live \/ Child(t)
  PROVE  Tasks(M2)'
<1>1. Types
  BY DEF Struct
<1>2. ASSUME NEW u \in Whole'
      PROVE  /\ u \in Whole /\ d[u] = 0 /\ M2[u] = N[u]
             /\ \A j \in Idx(N, d, u) : Same(N, M2, u, j)
  <2>1. u \in Whole /\ u \in Task /\ u # t
    BY <1>1 DEF Whole, Types
  <2>2. Idx(N, d, u) = 1..Len(N[u])
    BY <2>1, AllFacts
  <2> QED BY <2>1, <2>2 DEF All
<1>3. \A u \in Task \ live' : ~Child(u)' => M2[u] = << >> /\ table'[u] = Empty
  <2> TAKE u \in Task \ live'
  <2> HAVE ~Child(u)'
  <2>1. u \notin live /\ ~Child(u) /\ u # t
    OBVIOUS
  <2> QED BY <2>1 DEF Tasks
<1>4. live' \subseteq Task
  BY <1>1 DEF Types
<1> QED BY <1>2, <1>3, <1>4, TasksStep

\* vm_create_area gives the next segment its area; no area of the list begins
\* behind it.
LEMMA LoadAreaStep ==
  ASSUME NEW N, NEW g, NEW d, Sound(N, g, d), LoadArea
  PROVE  IInv' /\ \A u \in Task : Kept(u)
<1>1. Struct(N, g, d) /\ Tasks(N) /\ CallOK(N, d) /\ Types /\ call.pc = "load"
  BY DEF Sound, LoadArea, Struct
<1>2. All(d)
  BY <1>1, CallCases
<1>3. PICK t \in live, k \in 1..(Len(Segments) + 1) : LoadAt(N, t, k)
  BY <1>1, CallCases
<1>4. /\ call = Load(t, k) /\ Loaded(N, t, k - 1) /\ \A i \in 1..(k - 1) : Full(N, t, i)
      /\ call.task = t /\ call.index = k
  BY <1>3 DEF LoadAt, Load
<1>5. /\ t \in Task /\ k \in 1..Len(Segments) /\ k \in Nat /\ Len(N[t]) = k - 1
      /\ Len(Segments) \in Nat /\ Len(N[t]) + 1 = k
      /\ \A j \in 1..Len(N[t]) : j \in 1..(k - 1) /\ j \in 1..Len(Segments) /\ j < k
  <2>1. Len(Segments) \in Nat /\ k <= Len(Segments)
    BY <1>4, SegmentFacts DEF LoadArea
  <2>2. t \in Task /\ k \in Nat /\ Len(N[t]) = k - 1
    BY <1>1, <1>4, <2>1 DEF Types, Loaded
  <2> QED BY <2>1, <2>2
<1>6. PICK s : s = Segments[k]
  OBVIOUS
<1>7. s.va \in Nat /\ s.n_pages \in Nat /\ s.flags \subseteq Permission \cup {"STACK"}
  <2>1. CASE k \in 1..Len(Program)
    BY <1>6, <2>1, SegmentFacts
  <2>2. CASE k = Len(Program) + 1
    <3>1. s = [va |-> USERSTACK - 1, n_pages |-> 1, flags |-> {"r", "w", "STACK"}]
      BY <1>6, <2>2, SegmentFacts
    <3> QED BY <3>1, MemoryAssumption DEF Permission
  <2>3. Len(Program) \in Nat /\ Len(Segments) = Len(Program) + 1
    BY SegmentFacts
  <2> QED BY <1>5, <2>1, <2>2, <2>3
<1>8. PICK area : area = [vm_area_create(s.va, s.n_pages, s.flags) EXCEPT !.refcount = @ + 1]
  OBVIOUS
<1>9. area = [va |-> s.va, n_pages |-> s.n_pages, flags |-> s.flags, refcount |-> 1,
              pages |-> << >>]
  BY <1>8 DEF vm_area_create
<1>10. /\ area \in Area /\ area.pages = << >> /\ area.va = s.va /\ area.n_pages = s.n_pages
       /\ area.flags = s.flags
  <2>1. << >> \in Seq(Page)
    OBVIOUS
  <2> QED BY <1>7, <1>9, <2>1 DEF Area
<1>11. CASE ~Room
  <2>1. panic
    BY <1>4, <1>11 DEF LoadArea
  <2>2. Sound(N, g, d)'
    BY <2>1, StutterStep DEF panic
  <2>3. \A u \in Task : Kept(u)
    BY <2>1 DEF panic, Kept
  <2> QED BY <2>2, <2>3 DEF IInv
<1>12. CASE Room
  <2>1. /\ AddArea(t, Inserted(Created(area), areas[t], NextPage, s.va))
        /\ call' = [pc |-> "load_page", task |-> t, index |-> k, area |-> NewPage]
    BY <1>4, <1>6, <1>8, <1>12 DEF LoadArea
  <2>2. \A j \in 1..Len(N[t]) : End(N, t, j) <= area.va /\ Ar(N, t, j).va <= s.va
    <3> TAKE j \in 1..Len(N[t])
    <3>1. Ar(N, t, j).va = Segments[j].va /\ Ar(N, t, j).n_pages = Segments[j].n_pages
      BY <1>4, <1>5 DEF Loaded
    <3>2. Segments[j].va + Segments[j].n_pages <= Segments[k].va
      BY <1>5, SegmentFacts
    <3>3. j \in 1..Len(Program)
      BY <1>5, SegmentFacts
    <3>4. Segments[j].va \in Nat /\ Segments[j].n_pages \in Nat
      BY <3>3, SegmentFacts
    <3> QED BY <1>6, <1>7, <1>10, <3>1, <3>2, <3>4 DEF End
  <2>3. Inserted(Created(area), areas[t], NextPage, s.va)
          = [memory |-> Created(area), list |-> areas[t]]
    <3>1. s.va \in Int /\ d[t] = 0
      BY <1>2, <1>5, <1>7 DEF All
    <3> QED BY <1>1, <1>5, <1>12, <2>2, <3>1, InsertedLast
  <2>4. AddArea(t, [memory |-> Created(area), list |-> areas[t]])
    BY <2>1, <2>3
  <2>5. PICK M2 : M2 = [N EXCEPT ![t] = Append(@, NextPage)]
    OBVIOUS
  <2>6. PICK h : h = [p \in Page |-> IF p = NextPage THEN <<t, Len(N[t]) + 1, 1>>
                                     ELSE IF p = NewPage THEN <<t, Len(N[t]) + 1, 2>>
                                     ELSE g[p]]
    OBVIOUS
  <2>7. Struct(M2, h, d)' /\ AreaAdded(N, M2, d, t, area)
    <3>1. d[t] = 0
      BY <1>2, <1>5 DEF All
    <3> QED BY <1>1, <1>5, <1>10, <1>12, <2>2, <2>4, <2>5, <2>6, <3>1, AddAreaStep
  <2>8. UNCHANGED <<table, live>>
    BY <2>4 DEF AddArea
  <2>9. Whole' = Whole /\ t \notin Whole /\ \A u \in Task : ~Child(u) /\ ~Child(u)'
    <3>1. call.pc = "load" /\ call.task = t /\ call'.pc = "load_page" /\ call'.task = t
      BY <1>1, <1>4, <2>1
    <3> QED BY <2>8, <3>1, WholeIs, WholeNext
  <2>10. /\ Tasks(M2)'
         /\ Len(M2[t]) = k /\ \A j \in 1..(k - 1) : Same(N, M2, t, j)
    <3>1. \A u \in Task : Child(u)' <=> Child(u)
      BY <2>9
    <3>2. M2[t] = Append(N[t], NextPage) /\ \A u \in Task : u # t => M2[u] = N[u]
      BY <1>1, <1>5, <2>5 DEF Struct, Ghosts
    <3>3. /\ Len(M2[t]) = Len(N[t]) + 1
          /\ \A u \in Task : \A j \in 1..Len(N[u]) : Same(N, M2, u, j)
      BY <1>1, <1>2, <1>5, <2>7, <3>2, AreaMore
    <3>4. Tasks(M2)'
      BY <1>1, <1>2, <1>5, <2>8, <2>9, <3>1, <3>3, <3>2, AreaTasks
    <3> QED BY <1>5, <3>3, <3>4
  <2>11. Ref(M2, t, k)' = NewPage /\ Ar(M2, t, k)' = area
    BY <1>5, <2>7 DEF AreaAdded
  <2>12. Segments' = Segments
    BY DEF Segments
  <2>13. Loaded(M2, t, k)'
    <3>1. ASSUME NEW j \in 1..k
          PROVE  /\ Ar(M2, t, j)'.va = Segments[j].va
                 /\ Ar(M2, t, j)'.n_pages = Segments[j].n_pages
                 /\ Ar(M2, t, j)'.flags = Segments[j].flags
      <4>1. CASE j = k
        BY <1>6, <1>10, <2>11, <4>1
      <4>2. CASE j # k
        <5>1. j \in 1..(k - 1)
          BY <1>5, <4>2
        <5>2. Ar(M2, t, j)' = Ar(N, t, j)
          BY <2>10, <5>1 DEF Same
        <5> QED BY <1>4, <5>1, <5>2 DEF Loaded
      <4> QED BY <4>1, <4>2
    <3> HIDE DEF Ar, Segments
    <3> QED BY <2>10, <2>12, <3>1 DEF Loaded
  <2>14. \A j \in 1..(k - 1) : Full(M2, t, j)'
    BY <1>4, <2>10, SameFull
  <2>15. LoadPageAt(M2, t, k)'
    <3> HIDE DEF Ref, Segments
    <3> QED BY <1>5, <2>1, <2>11, <2>12, <2>13, <2>14 DEF LoadPageAt
  <2>16. CallOK(M2, d)'
    <3>1. k \in 1..(Len(Segments) + 1) /\ All(d)'
      BY <1>2 DEF All
    <3> HIDE DEF Segments
    <3> QED BY <2>8, <2>12, <2>15, <3>1 DEF CallOK
  <2>17. Sound(M2, h, d)'
    BY <2>7, <2>10, <2>16 DEF Sound
  <2>20. \A u \in Task : Kept(u)
    BY <1>1, <1>2, <1>5, <2>7, <2>8, AreaKept
  <2> QED BY <2>17, <2>20 DEF IInv
<1> QED BY <1>11, <1>12
\* vm_clone gives the next area of the parent its copy.
LEMMA CloneAreaStep ==
  ASSUME NEW N, NEW g, NEW d, Sound(N, g, d), CloneArea
  PROVE  IInv' /\ \A u \in Task : Kept(u)
<1>1. Struct(N, g, d) /\ Tasks(N) /\ CallOK(N, d) /\ Types /\ call.pc = "clone"
  BY DEF Sound, CloneArea, Struct
<1>2. All(d)
  BY <1>1, CallCases
<1>3. PICK t \in live, c \in Task : CloneAt(N, t, c)
  BY <1>1, CallCases
<1>4. PICK k : k = Len(N[c]) + 1
  OBVIOUS
<1>5. PICK node : node = At(N[t], k)
  OBVIOUS
<1>6. /\ c \notin live /\ Copied(N, t, c)
      /\ \A i \in 1..Len(N[c]) : Full(N, c, i)
      /\ call.task = t /\ call.child = c /\ call.node = node /\ node # NULL
  <2>1. call = [pc |-> "clone", task |-> t, child |-> c, node |-> node]
    BY <1>3, <1>4, <1>5 DEF CloneAt
  <2> QED BY <1>3, <2>1 DEF CloneAt, CloneArea
<1>7. t \in Task /\ t # c
  BY <1>1, <1>6 DEF Types
<1>8. /\ k \in Nat /\ Len(N[t]) \in Nat /\ Len(N[c]) = k - 1 /\ Len(N[c]) \in Nat
      /\ k \in 1..Len(N[t]) /\ node = N[t][k]
      /\ Idx(N, d, t) = 1..Len(N[t]) /\ k \in Idx(N, d, t)
      /\ \A j \in 1..Len(N[c]) : j \in 1..(k - 1) /\ j \in Idx(N, d, t) /\ j < k
  <2>1. Len(N[c]) \in Nat /\ Len(N[t]) \in Nat /\ Idx(N, d, t) = 1..Len(N[t])
    BY <1>1, <1>2, <1>7, AllFacts
  <2>2. k \in 1..Len(N[t]) /\ node = N[t][k]
    BY <1>5, <1>6 DEF At
  <2> QED BY <1>4, <2>1, <2>2
<1>9. AreaAt(N, g, t, k)
  BY <1>1, <1>7, <1>8 DEF Struct
<1>10. PICK area : area = area_copy(Ar(N, t, k))
  OBVIOUS
<1>11. /\ area \in Area /\ area.pages = << >> /\ area.va = Ar(N, t, k).va
       /\ area.n_pages = Ar(N, t, k).n_pages /\ area.flags = Ar(N, t, k).flags
  <2>1. Ar(N, t, k) \in Area /\ << >> \in Seq(Page)
    BY <1>9 DEF AreaAt
  <2> HIDE DEF Ar
  <2> QED BY <1>10, <2>1 DEF area_copy, Area
<1>12. AreaOf(heap, node) = Ar(N, t, k)
  BY <1>8 DEF AreaOf, Ar, Ref
<1>13. CASE ~Room
  <2>1. panic
    BY <1>13 DEF CloneArea
  <2>2. Sound(N, g, d)'
    BY <2>1, StutterStep DEF panic
  <2>3. \A u \in Task : Kept(u)
    BY <2>1 DEF panic, Kept
  <2> QED BY <2>2, <2>3 DEF IInv
<1>14. CASE Room
  <2>1. /\ AddArea(c, [memory |-> Created(area), list |-> areas[c]])
        /\ call' = [pc |-> "clone_page", task |-> t, child |-> c, node |-> node,
                    area |-> NewPage]
    BY <1>6, <1>10, <1>12, <1>14 DEF CloneArea
  <2>2. \A j \in 1..Len(N[c]) : End(N, c, j) <= area.va
    <3> TAKE j \in 1..Len(N[c])
    <3>1. End(N, c, j) = End(N, t, j)
      BY <1>6 DEF Copied, End
    <3>2. End(N, t, j) <= Ar(N, t, k).va
      BY <1>1, <1>7, <1>8 DEF Struct, Sorted
    <3> QED BY <1>11, <3>1, <3>2
  <2>3. PICK M2 : M2 = [N EXCEPT ![c] = Append(@, NextPage)]
    OBVIOUS
  <2>4. PICK h : h = [p \in Page |-> IF p = NextPage THEN <<c, Len(N[c]) + 1, 1>>
                                     ELSE IF p = NewPage THEN <<c, Len(N[c]) + 1, 2>>
                                     ELSE g[p]]
    OBVIOUS
  <2>5. Struct(M2, h, d)' /\ AreaAdded(N, M2, d, c, area)
    <3>1. d[c] = 0
      BY <1>2 DEF All
    <3> QED BY <1>1, <1>11, <1>14, <2>1, <2>2, <2>3, <2>4, <3>1, AddAreaStep
  <2>6. UNCHANGED <<table, live>>
    BY <2>1 DEF AddArea
  <2>7. /\ Whole' = Whole /\ c \notin Whole /\ Child(c)
        /\ \A u \in Task : Child(u)' <=> Child(u)
    <3>1. call'.pc = "clone_page" /\ call'.child = c
      BY <2>1
    <3> QED BY <1>1, <1>6, <2>6, <3>1, WholeIs, WholeNext DEF Child
  <2>8. /\ Tasks(M2)' /\ Len(M2[c]) = Len(N[c]) + 1
        /\ \A j \in 1..Len(N[c]) : Same(N, M2, c, j)
        /\ \A u \in Task : u # c =>
             M2[u] = N[u] /\ \A j \in 1..Len(N[u]) : Same(N, M2, u, j)
    <3>1. M2[c] = Append(N[c], NextPage) /\ \A u \in Task : u # c => M2[u] = N[u]
      BY <1>1, <2>3 DEF Struct, Ghosts
    <3>2. /\ Len(M2[c]) = Len(N[c]) + 1
          /\ \A u \in Task : \A j \in 1..Len(N[u]) : Same(N, M2, u, j)
      BY <1>1, <1>2, <2>5, <3>1, AreaMore
    <3>3. Tasks(M2)'
      BY <1>1, <1>2, <2>6, <2>7, <3>1, <3>2, AreaTasks
    <3> QED BY <3>1, <3>2, <3>3
  <2>9. Len(M2[c]) = k /\ M2[t] = N[t]
    BY <1>7, <1>8, <2>8
  <2>10. Ref(M2, c, k)' = NewPage /\ Ar(M2, c, k)' = area
    BY <1>4, <2>5 DEF AreaAdded
  <2>11. Copied(M2, t, c)'
    <3>1. ASSUME NEW j \in 1..k
          PROVE  /\ Ar(M2, c, j)'.va = Ar(M2, t, j)'.va
                 /\ Ar(M2, c, j)'.n_pages = Ar(M2, t, j)'.n_pages
                 /\ Ar(M2, c, j)'.flags = Ar(M2, t, j)'.flags
      <4>1. Ar(M2, t, j)' = Ar(N, t, j)
        <5>1. j \in 1..Len(N[t])
          BY <1>8
        <5> QED BY <1>7, <2>8, <5>1 DEF Same
      <4>2. CASE j = k
        BY <1>11, <2>10, <4>1, <4>2
      <4>3. CASE j # k
        <5>1. j \in 1..Len(N[c])
          BY <1>8, <4>3
        <5>2. Ar(M2, c, j)' = Ar(N, c, j)
          BY <2>8, <5>1 DEF Same
        <5> QED BY <1>6, <4>1, <5>1, <5>2 DEF Copied
      <4> QED BY <4>2, <4>3
    <3>2. k <= Len(M2[t])
      BY <1>8, <2>9
    <3> HIDE DEF Ar
    <3> QED BY <2>9, <3>1, <3>2 DEF Copied
  <2>12. \A j \in 1..(k - 1) : Full(M2, c, j)'
    BY <1>6, <1>8, <2>8, SameFull
  <2>13. ClonePageAt(M2, t, c)'
    <3>1. k > 0
      BY <1>8
    <3> HIDE DEF Ref
    <3> QED BY <1>6, <1>8, <2>1, <2>6, <2>9, <2>10, <2>11, <2>12, <3>1 DEF ClonePageAt
  <2>14. CallOK(M2, d)'
    BY <1>2, <2>6, <2>13 DEF CallOK, All
  <2>15. Sound(M2, h, d)'
    BY <2>5, <2>8, <2>14 DEF Sound
  <2>20. \A u \in Task : Kept(u)
    BY <1>1, <1>2, <2>5, <2>6, AreaKept
  <2> QED BY <2>15, <2>20 DEF IInv
<1> QED BY <1>13, <1>14
-----------------------------------------------------------------------------
(* Fault addresses                                                         *)

LEMMA Times ==
  ASSUME NEW a \in Int, NEW b \in Int
  PROVE  /\ a * PAGE_SIZE \in Int
         /\ a < b => a * PAGE_SIZE < b * PAGE_SIZE
         /\ a <= b => a * PAGE_SIZE <= b * PAGE_SIZE
<1>1. PAGE_SIZE \in Nat \ {0}
  BY MemoryAssumption
<1>2. /\ a * PAGE_SIZE \in Int /\ (b - a) * PAGE_SIZE \in Int
      /\ b * PAGE_SIZE = a * PAGE_SIZE + (b - a) * PAGE_SIZE
  BY <1>1
<1>3. b - a > 0 => (b - a) * PAGE_SIZE > 0
  BY <1>1
<1> QED BY <1>1, <1>2, <1>3

\* An address and its page.
LEMMA PageOf ==
  ASSUME NEW addr \in Addr
  PROVE  /\ addr \in Int /\ addr < USERSTACK * PAGE_SIZE
         /\ addr \div PAGE_SIZE \in UPage
         /\ (addr \div PAGE_SIZE) * PAGE_SIZE <= addr
         /\ addr < ((addr \div PAGE_SIZE) + 1) * PAGE_SIZE
<1>1. /\ PAGE_SIZE \in Nat \ {0} /\ USERSTACK \in Nat
      /\ addr \in 0..(USERSTACK * PAGE_SIZE - 1)
  BY MemoryAssumption DEF Addr
<1> DEFINE q == addr \div PAGE_SIZE
<1>2. q \in Int /\ q * PAGE_SIZE <= addr /\ addr < q * PAGE_SIZE + PAGE_SIZE
  BY <1>1
<1>3. (q + 1) * PAGE_SIZE = q * PAGE_SIZE + PAGE_SIZE
  BY <1>1, <1>2
<1>4. addr \in Int /\ addr >= 0 /\ addr < USERSTACK * PAGE_SIZE
  BY <1>1
<1>5. q \in 0..(USERSTACK - 1)
  <2> HIDE DEF q
  <2>1. q < USERSTACK
    <3>1. ~(USERSTACK <= q)
      <4>1. USERSTACK <= q => USERSTACK * PAGE_SIZE <= q * PAGE_SIZE
        BY <1>1, <1>2, Times
      <4> QED BY <1>1, <1>2, <1>4, <4>1
    <3> QED BY <1>1, <1>2, <3>1
  <2>2. q >= 0
    <3>1. q + 1 <= 0 => (q + 1) * PAGE_SIZE <= 0 * PAGE_SIZE
      BY <1>2, Times
    <3> QED BY <1>1, <1>2, <1>3, <1>4, <3>1
  <2> QED BY <1>1, <1>2, <2>1, <2>2
<1> QED BY <1>2, <1>3, <1>4, <1>5 DEF UPage

\* In the stack region only the stack can decide the search: the other areas
\* end before it, and the stack reaches to the last address.
LEMMA FindStack ==
  ASSUME NEW N, NEW g, NEW d, Struct(N, g, d), NEW t \in Task, d[t] = 0, Complete(N, t),
         NEW addr \in Addr, addr >= USERSTACKMIN * PAGE_SIZE
  PROVE  vm_find_stack(t, addr) =
           IF Ar(N, t, Len(N[t])).va * PAGE_SIZE > addr THEN Ref(N, t, Len(N[t])) ELSE NULL
<1> DEFINE n == Len(N[t])
           deciding == {i \in 1..n : \/ vm_area_in(AreaOf(heap, N[t][i]), addr)
                                     \/ AreaOf(heap, N[t][i]).va * PAGE_SIZE > addr}
           least == CHOOSE i \in deciding : \A j \in deciding : i <= j
           found == N[t][least]
<1>1. Walk(heap, areas[t]) = N[t]
  <2>1. heap = [p \in Page |-> heap[p]]
    BY DEF Struct, Types
  <2> QED BY <2>1, WalkNodes
<1>2. vm_find_stack(t, addr) =
        IF \/ deciding = {} \/ vm_area_in(AreaOf(heap, found), addr)
           \/ "STACK" \notin AreaOf(heap, found).flags
        THEN NULL ELSE heap[found].value
  <2> DEFINE D(w) == {i \in 1..Len(w) : \/ vm_area_in(AreaOf(heap, w[i]), addr)
                                        \/ AreaOf(heap, w[i]).va * PAGE_SIZE > addr}
             F(w) == w[CHOOSE i \in D(w) : \A j \in D(w) : i <= j]
             R(w) == IF \/ D(w) = {}
                        \/ vm_area_in(AreaOf(heap, F(w)), addr)
                        \/ "STACK" \notin AreaOf(heap, F(w)).flags
                     THEN NULL ELSE heap[F(w)].value
  <2>1. vm_find_stack(t, addr) = R(Walk(heap, areas[t]))
    BY Zenon DEF vm_find_stack
  <2>2. R(Walk(heap, areas[t])) = R(N[t])
    <3> HIDE DEF R
    <3> QED BY <1>1
  <2> QED BY <2>1, <2>2, Zenon
<1>3. /\ n \in Nat /\ n \in 1..n /\ Idx(N, d, t) = 1..n
      /\ \A i \in 1..n : i # n => i \in 1..(n - 1)
  BY DEF Struct, Ghosts, Idx, Complete
<1>4. \A i \in 1..n : /\ Ar(N, t, i).va \in Nat /\ Ar(N, t, i).n_pages \in Nat
                      /\ AreaOf(heap, N[t][i]) = Ar(N, t, i)
  <2> TAKE i \in 1..n
  <2>1. AreaAt(N, g, t, i)
    BY <1>3 DEF Struct
  <2>2. Ar(N, t, i).va \in Nat /\ Ar(N, t, i).n_pages \in Nat
    <3> HIDE DEF Ar
    <3> QED BY <2>1 DEF AreaAt, Area
  <2> QED BY <2>2 DEF AreaOf, Ar, Ref
<1> DEFINE top(i) == Ar(N, t, i).va * PAGE_SIZE
           end(i) == End(N, t, i) * PAGE_SIZE
<1>5. \A i \in 1..n :
        /\ top(i) \in Int /\ end(i) \in Int /\ top(i) <= end(i)
        /\ vm_area_in(Ar(N, t, i), addr) <=> addr >= top(i) /\ addr <= end(i)
  <2> TAKE i \in 1..n
  <2>1. Ar(N, t, i).va \in Int /\ End(N, t, i) \in Int /\ Ar(N, t, i).va <= End(N, t, i)
    BY <1>4 DEF End
  <2> HIDE DEF Ar
  <2>2. vm_area_in(Ar(N, t, i), addr) <=> addr >= top(i) /\ addr <= end(i)
    BY Zenon DEF vm_area_in, End
  <2> QED BY <2>1, <2>2, Times
<1>6. addr \in Int
  BY PageOf
<1>7. \A i \in 1..(n - 1) : i \in 1..n /\ end(i) < addr
  <2> TAKE i \in 1..(n - 1)
  <2>1. i \in 1..n /\ End(N, t, i) \in Int /\ End(N, t, i) < USERSTACKMIN /\ USERSTACKMIN \in Int
    <3>1. i \in 1..n
      BY <1>3
    <3>2. End(N, t, i) < USERSTACKMIN
      BY DEF Complete
    <3> QED BY <1>4, <3>1, <3>2, MemoryAssumption DEF End
  <2>2. end(i) < USERSTACKMIN * PAGE_SIZE /\ USERSTACKMIN * PAGE_SIZE \in Int
    BY <2>1, Times
  <2>3. end(i) \in Int
    BY <1>5, <2>1
  <2> HIDE DEF end
  <2> QED BY <1>6, <2>1, <2>2, <2>3
<1>8. addr < end(n)
  <2>1. End(N, t, n) = USERSTACK
    BY DEF Complete
  <2> QED BY <2>1, PageOf
<1>9. \A i \in 1..n : i \in deciding <=> vm_area_in(Ar(N, t, i), addr) \/ top(i) > addr
  <2> HIDE DEF Ar
  <2> QED BY <1>4
<1> HIDE DEF top, end, Ar
<1>10. deciding = {n}
  <2>1. n \in deciding
    <3>1. top(n) \in Int /\ (vm_area_in(Ar(N, t, n), addr) <=> addr >= top(n) /\ addr <= end(n))
          /\ end(n) \in Int
      BY <1>3, <1>5
    <3>2. vm_area_in(Ar(N, t, n), addr) \/ top(n) > addr
      BY <1>6, <1>8, <3>1
    <3> HIDE DEF deciding
    <3> QED BY <1>3, <1>9, <3>2
  <2>2. \A i \in 1..n : i # n => i \notin deciding
    <3> TAKE i \in 1..n
    <3> HAVE i # n
    <3>1. end(i) < addr /\ top(i) <= end(i) /\ top(i) \in Int /\ end(i) \in Int
      BY <1>3, <1>5, <1>7
    <3>2. ~vm_area_in(Ar(N, t, i), addr) /\ ~(top(i) > addr)
      BY <1>5, <1>6, <3>1
    <3> QED BY <1>9, <3>2
  <2>3. deciding \subseteq 1..n
    OBVIOUS
  <2> HIDE DEF deciding
  <2> QED BY <2>1, <2>2, <2>3
<1>11. least = n
  <2> HIDE DEF deciding, n
  <2>1. n <= n
    BY <1>3
  <2> QED BY <1>10, <2>1
<1>12. found = N[t][n] /\ AreaOf(heap, found) = Ar(N, t, n) /\ deciding # {}
  <2>1. found = N[t][n]
    <3> HIDE DEF least
    <3> QED BY <1>11
  <2> HIDE DEF found, deciding
  <2> QED BY <1>3, <1>4, <1>10, <2>1
<1>13. "STACK" \in Ar(N, t, n).flags
  BY DEF Complete
<1>14. vm_find_stack(t, addr) =
         IF vm_area_in(Ar(N, t, n), addr) THEN NULL ELSE Ref(N, t, n)
  <2>1. heap[N[t][n]].value = Ref(N, t, n)
    BY DEF Ref
  <2> HIDE DEF deciding, found, n
  <2> QED BY <1>2, <1>12, <1>13, <2>1
<1>15. vm_area_in(Ar(N, t, n), addr) <=> ~(top(n) > addr)
  <2> HIDE DEF n
  <2> QED BY <1>3, <1>5, <1>6, <1>8
<1> QED BY <1>14, <1>15 DEF top

LEMMA UserFaultStep ==
  ASSUME NEW N, NEW g, NEW d, Sound(N, g, d),
         NEW t \in Task, NEW addr \in Addr, NEW access, UserFault(t, addr, access)
  PROVE  Sound(N, g, d)'
<1>1. PICK page : page = addr \div PAGE_SIZE
  OBVIOUS
<1>2. PICK area : area = IF page >= USERSTACKMIN THEN vm_find_stack(t, addr) ELSE NULL
  OBVIOUS
<1>3. /\ Runs(t)
      /\ area = NULL => Destroy(t)
      /\ area # NULL =>
           /\ call' = [pc |-> "grow", task |-> t, area |-> area, page |-> page]
           /\ UNCHANGED <<heap, used, areas, table, live, args>>
  BY <1>1, <1>2 DEF UserFault
<1>4. CASE area = NULL
  BY <1>3, <1>4, DestroyStep
<1>5. CASE area # NULL
  <2>1. /\ Struct(N, g, d) /\ Tasks(N) /\ Types /\ All(d) /\ t \in live /\ Whole = live
        /\ \A u : ~Child(u)
        /\ \A u \in live : Complete(N, u)
        /\ \A u \in Task \ live : N[u] = << >> /\ table[u] = Empty
    BY <1>3, RunsFacts
  <2>2. page >= USERSTACKMIN /\ area = vm_find_stack(t, addr)
    BY <1>2, <1>5
  <2>3. page \in UPage /\ page * PAGE_SIZE <= addr
    BY <1>1, PageOf
  <2>4. page \in USERSTACKMIN..(USERSTACK - 1)
    BY <2>2, <2>3, MemoryAssumption DEF UPage
  <2>5. addr >= USERSTACKMIN * PAGE_SIZE
    <3>1. page \in Int /\ USERSTACKMIN \in Int /\ addr \in Int
      BY <2>4, MemoryAssumption, PageOf
    <3>2. /\ USERSTACKMIN * PAGE_SIZE <= page * PAGE_SIZE
          /\ USERSTACKMIN * PAGE_SIZE \in Int /\ page * PAGE_SIZE \in Int
      BY <2>2, <3>1, Times
    <3> QED BY <2>3, <3>1, <3>2
  <2>6. area = Ref(N, t, Len(N[t]))
    <3>1. d[t] = 0
      BY <2>1 DEF All
    <3> QED BY <1>5, <2>1, <2>2, <2>5, <3>1, FindStack
  <2>7. Whole' = live /\ \A u \in Task : ~Child(u)'
    <3>1. call'.pc = "grow" /\ live' = live
      BY <1>3, <1>5
    <3> QED BY <3>1, WholeNext
  <2>8. Struct(N, g, d)' /\ Tasks(N)'
    <3>1. Held' = Held /\ used' \subseteq Page /\ args' \subseteq used' /\ live' \subseteq Task
          /\ 1 \in live' /\ UNCHANGED <<heap, areas, table>>
      BY <1>3, <1>5, <2>1 DEF Held, Types
    <3>2. \A u \in Whole' : d[u] = 0 /\ Complete(N, u)
      BY <2>1, <2>7 DEF All, Types
    <3>3. \A u \in Task \ live' : ~Child(u)' => N[u] = << >> /\ table[u] = Empty
      BY <1>3, <1>5, <2>1
    <3> QED BY <2>1, <3>1, <3>2, <3>3, CallStep
  <2>9. GrowAt(N, t, page)'
    <3>1. Ref(N, t, Len(N[t]))' = Ref(N, t, Len(N[t]))
      BY <1>3, <1>5 DEF Ref
    <3> HIDE DEF Ref
    <3> QED BY <1>3, <1>5, <2>6, <3>1 DEF GrowAt
  <2>10. CallOK(N, d)'
    BY <1>3, <1>5, <2>1, <2>4, <2>9 DEF CallOK, All
  <2> QED BY <2>8, <2>10 DEF Sound
<1> QED BY <1>4, <1>5
-----------------------------------------------------------------------------
(* The invariant holds                                                     *)

LEMMA InitInv == Init => IInv
<1> SUFFICES ASSUME Init PROVE IInv
  OBVIOUS
<1>1. PICK N : N = [t \in Task |-> << >>]
  OBVIOUS
<1>2. PICK d : d = [t \in Task |-> 0]
  OBVIOUS
<1>3. PICK g : g = [p \in Page |-> 0]
  OBVIOUS
<1>4. /\ heap = [p \in Page |-> Free] /\ used = {} /\ args = {} /\ live = {1} /\ 1 \in Task
      /\ areas = [t \in Task |-> list_init] /\ table = [t \in Task |-> Empty]
      /\ call = Load(1, 1)
  BY MemoryAssumption DEF Init
<1>5. \A t \in Task :
        /\ N[t] = << >> /\ Len(N[t]) = 0 /\ d[t] = 0
        /\ \A i \in 1..Len(N[t]) : FALSE
        /\ \A i \in Idx(N, d, t) : FALSE
  <2> TAKE t \in Task
  <2>1. N[t] = << >> /\ Len(N[t]) = 0 /\ d[t] = 0
    BY <1>1, <1>2
  <2> QED BY <2>1 DEF Idx
<1>6. Types
  <2>1. Empty \in [UPage -> Entry \cup {None}]
    BY DEF Empty
  <2>2. table \in [Task -> [UPage -> Entry \cup {None}]]
    <3> HIDE DEF Empty, UPage, Entry
    <3> QED BY <1>4, <2>1
  <2>3. heap = [p \in Page |-> heap[p]] /\ areas = [t \in Task |-> areas[t]]
    BY <1>4
  <2> QED BY <1>4, <2>2, <2>3 DEF Types
<1>7. Ghosts(N, g, d)
  <2>1. << >> \in Seq(Page)
    OBVIOUS
  <2>2. N \in [Task -> Seq(Page)]
    BY <1>1, <2>1
  <2>3. d \in [Task -> Nat] /\ g = [p \in Page |-> g[p]]
    BY <1>2, <1>3
  <2>4. \A t \in Task : d[t] <= Len(N[t])
    BY <1>5
  <2> QED BY <2>2, <2>3, <2>4 DEF Ghosts
<1>8. Struct(N, g, d)
  <2>1. Ends(<< >>) = list_init
    BY DEF Ends, At, list_init
  <2>2. \A t \in Task : areas[t] = Ends(N[t])
    BY <1>4, <1>5, <2>1
  <2>3. Nodes(N, g)
    BY <1>5, <2>2 DEF Nodes
  <2>4. Owners(N, d)
    BY <1>4 DEF Owners, Held
  <2>5. Sorted(N, d)
    BY <1>5 DEF Sorted
  <2>6. \A t \in Task : TableOf(N, t)
    BY <1>4 DEF TableOf, Empty
  <2> QED BY <1>5, <1>6, <1>7, <2>3, <2>4, <2>5, <2>6 DEF Struct
<1>9. call.pc = "load" /\ call.task = 1
  BY <1>4 DEF Load
<1>10. Tasks(N)
  <2>1. Whole = {}
    BY <1>4, <1>9, WholeIs
  <2> HIDE DEF Empty
  <2> QED BY <1>4, <1>5, <2>1 DEF Tasks
<1>11. CallOK(N, d)
  <2>1. All(d)
    BY <1>5 DEF All
  <2>2. LoadAt(N, 1, 1)
    <3>1. 1 - 1 = 0 /\ \A i \in 1..0 : FALSE
      OBVIOUS
    <3> QED BY <1>4, <1>5, <3>1 DEF LoadAt, Loaded
  <2>3. 1 \in 1..(Len(Segments) + 1)
    BY SegmentFacts
  <2> HIDE DEF LoadAt, Segments
  <2> QED BY <1>4, <2>1, <2>2, <2>3 DEF CallOK
<1>12. Sound(N, g, d)
  BY <1>8, <1>10, <1>11 DEF Sound
<1> QED BY <1>12 DEF IInv

\* One step per action.
LEMMA NextInv == IInv /\ [Next]_vars => IInv'
<1> SUFFICES ASSUME IInv, [Next]_vars PROVE IInv'
  OBVIOUS
<1>1. PICK N, g, d : Sound(N, g, d)
  BY DEF IInv
<1>2. Sound(N, g, d)' => IInv'
  BY DEF IInv
<1>3. CASE UNCHANGED vars
  BY <1>1, <1>2, <1>3, StutterStep DEF vars
<1>4. CASE LoadArea
  BY <1>1, <1>4, LoadAreaStep
<1>5. CASE LoadPage
  BY <1>1, <1>5, LoadPageStep
<1>6. CASE LoadNext
  BY <1>1, <1>2, <1>6, LoadNextStep
<1>7. CASE LoadDone
  BY <1>1, <1>2, <1>7, LoadDoneStep
<1>8. CASE CloneArea
  BY <1>1, <1>8, CloneAreaStep
<1>9. CASE ClonePage
  BY <1>1, <1>9, ClonePageStep
<1>10. CASE CloneNext
  BY <1>1, <1>2, <1>10, CloneNextStep
<1>11. CASE CloneDone
  BY <1>1, <1>2, <1>11, CloneDoneStep
<1>12. CASE DecrefArea
  BY <1>1, <1>12, DecrefAreaStep
<1>13. CASE DecrefDone
  BY <1>1, <1>13, DecrefDoneAllStep
<1>14. CASE GrowPage
  BY <1>1, <1>14, GrowPageStep
<1>15. CASE GrowDone
  BY <1>1, <1>2, <1>15, GrowDoneStep
<1>16. ASSUME NEW t \in Task, NEW va \in UPage, UserWrite(t, va) PROVE IInv'
  BY <1>1, <1>2, <1>16, UserWriteStep
<1>17. ASSUME NEW t \in Task, Fork(t) PROVE IInv'
  BY <1>1, <1>2, <1>17, ForkStep
<1>18. ASSUME NEW t \in Task, Execve(t) PROVE IInv'
  BY <1>1, <1>2, <1>18, ExecveStep
<1>19. ASSUME NEW t \in Task, Exit(t) PROVE IInv'
  BY <1>1, <1>2, <1>19, DestroyStep DEF Exit
<1>20. ASSUME NEW t \in Task, NEW addr \in Addr, NEW access \in {"r", "w"},
              UserFault(t, addr, access)
       PROVE  IInv'
  BY <1>1, <1>2, <1>20, UserFaultStep
<1>21. CASE Halted
  BY <1>3, <1>21 DEF Halted
<1> QED BY <1>3, <1>4, <1>5, <1>6, <1>7, <1>8, <1>9, <1>10, <1>11, <1>12, <1>13, <1>14,
           <1>15, <1>16, <1>17, <1>18, <1>19, <1>20, <1>21 DEF Next

\* In every state there are node lists, places of pages and numbers of areas
\* given back that account for all the memory.
THEOREM SpecInv == Spec => []IInv
BY InitInv, NextInv, PTL DEF Spec
-----------------------------------------------------------------------------
(* The properties                                                          *)

\* A task whose memory is all there.
LEMMA WholeFacts ==
  ASSUME NEW N, NEW g, NEW d, Sound(N, g, d), NEW t \in Whole
  PROVE  /\ t \in Task /\ d[t] = 0 /\ Complete(N, t)
         /\ Walk(heap, areas[t]) = N[t] /\ Len(N[t]) \in Nat
         /\ Idx(N, d, t) = 1..Len(N[t])
<1>1. Struct(N, g, d) /\ Tasks(N) /\ CallOK(N, d) /\ Types
  BY DEF Sound, Struct
<1>2. t \in Task /\ t \in live /\ Complete(N, t)
  BY <1>1 DEF Whole, Types, Tasks
<1>3. d[t] = 0
  <2>1. CASE All(d)
    BY <1>2, <2>1 DEF All
  <2>2. CASE \E u \in live : FreeAt(N, d, u)
    <3>1. PICK u \in live : FreeAt(N, d, u)
      BY <2>2
    <3>2. call.pc \in {"exec", "exit"} /\ call.task = u
      BY <3>1 DEF FreeAt
    <3>3. t # u
      BY <3>2, WholeIs
    <3> QED BY <1>2, <3>1, <3>3 DEF FreeAt
  <2> QED BY <1>1, <2>1, <2>2 DEF CallOK
<1>4. Walk(heap, areas[t]) = N[t]
  <2>1. heap = [p \in Page |-> heap[p]]
    BY <1>1 DEF Types
  <2> QED BY <1>1, <1>2, <2>1, WalkNodes
<1>5. Len(N[t]) \in Nat /\ Idx(N, d, t) = 1..Len(N[t])
  BY <1>1, <1>2, <1>3 DEF Struct, Ghosts, Idx
<1> QED BY <1>2, <1>3, <1>4, <1>5

\* The search of task_entry finds the stack for every address below it in the
\* stack region (vm_find_stack).
THEOREM StackGrows == Spec => []StackCanGrow
<1>1. ASSUME NEW N, NEW g, NEW d, Sound(N, g, d), NEW t \in Whole, NEW addr \in Addr,
             addr >= USERSTACKMIN * PAGE_SIZE, table[t][addr \div PAGE_SIZE] = None
      PROVE  vm_find_stack(t, addr) # NULL
  <2> DEFINE n == Len(N[t])
             page == addr \div PAGE_SIZE
             va == Ar(N, t, n).va
  <2>1. Struct(N, g, d) /\ t \in Task /\ d[t] = 0 /\ Complete(N, t)
        /\ n \in Nat /\ Idx(N, d, t) = 1..n
    BY <1>1, WholeFacts DEF Sound
  <2>2. n \in 1..n /\ n \in Idx(N, d, t)
    BY <2>1 DEF Complete
  <2>3. AreaAt(N, g, t, n) /\ TableAt(N, t, n)
    BY <2>1, <2>2 DEF Struct
  <2>4. Ref(N, t, n) \in Page /\ va \in Nat
    <3>1. Ref(N, t, n) \in Held /\ Ar(N, t, n) \in Area
      BY <2>3 DEF AreaAt
    <3>2. Held \subseteq Page
      BY <2>1 DEF Held, Struct, Types
    <3> HIDE DEF Ar, Ref
    <3> QED BY <3>1, <3>2 DEF Area
  <2>5. Mapped(N, t, n) = va..(USERSTACK - 1)
    <3>1. Len(Pages(N, t, n)) = Ar(N, t, n).n_pages
          /\ va + Ar(N, t, n).n_pages = USERSTACK
      BY <2>1, <2>2 DEF Complete, Full, End
    <3>2. va + Ar(N, t, n).n_pages - 1 = USERSTACK - 1
      <4>1. Ar(N, t, n).n_pages \in Nat
        <5> HIDE DEF Ar, va, n
        <5> QED BY <2>3 DEF AreaAt, Area
      <4>2. \A a, b \in Nat : a + b = USERSTACK => a + b - 1 = USERSTACK - 1
        BY MemoryAssumption
      <4> HIDE DEF va, n
      <4> QED BY <2>4, <3>1, <4>1, <4>2, Zenon
    <3>3. va + Len(Pages(N, t, n)) - 1 = USERSTACK - 1
      <4> HIDE DEF va, n, Ar, Pages
      <4> QED BY <3>1, <3>2
    <3> QED BY <3>3, Zenon DEF Mapped
  <2>6. page \in UPage /\ addr \in Int /\ addr < (page + 1) * PAGE_SIZE
    BY PageOf
  <2>7. page \notin Mapped(N, t, n)
    BY <1>1, <2>3 DEF TableAt
  <2> HIDE DEF page, va, n
  <2>8. page \in Int /\ page + 1 <= va
    BY <2>4, <2>5, <2>6, <2>7, MemoryAssumption DEF UPage
  <2>9. va * PAGE_SIZE > addr
    <3>1. /\ (page + 1) * PAGE_SIZE <= va * PAGE_SIZE
          /\ (page + 1) * PAGE_SIZE \in Int /\ va * PAGE_SIZE \in Int
      BY <2>4, <2>8, Times
    <3> QED BY <2>6, <3>1
  <2>10. vm_find_stack(t, addr) = Ref(N, t, n)
    <3>1. vm_find_stack(t, addr) = IF va * PAGE_SIZE > addr THEN Ref(N, t, n) ELSE NULL
      BY <1>1, <2>1, FindStack DEF va, n
    <3> QED BY <2>9, <3>1
  <2> QED BY <2>4, <2>10, MemoryAssumption
<1>2. IInv => StackCanGrow
  BY <1>1 DEF IInv, StackCanGrow
<1> QED BY <1>2, SpecInv, PTL

\* Whenever programs run, each page in use is a node, an area or a frame of one
\* task, or an argument buffer of an earlier execve (vm_area_destroy,
\* list_destroy).
THEOREM SpecPagesOwned == Spec => []PagesOwned
<1>1. ASSUME NEW N, NEW g, NEW d, Sound(N, g, d), call.pc = "user"
      PROVE  LET owned == UNION {Owned(t) : t \in live}
             IN  /\ {o[1] : o \in owned} = used \ args
                 /\ \A o, q \in owned : o[1] = q[1] => o = q
  <2>1. Struct(N, g, d) /\ Tasks(N) /\ Types /\ All(d) /\ Whole = live
        /\ \A u : ~Child(u)
    BY <1>1, CallCases, WholeIs DEF Sound, Struct
  <2> DEFINE Part(t, i) ==
               {<<N[t][i], <<t, i, 1>>>>, <<Ref(N, t, i), <<t, i, 2>>>>}
                 \cup {<<Pages(N, t, i)[j], <<t, i, j + 2>>>> : j \in 1..Len(Pages(N, t, i))}
             owned == UNION {Owned(t) : t \in live}
  <2>2. \A t \in live : /\ t \in Task /\ Owned(t) = UNION {Part(t, i) : i \in 1..Len(N[t])}
                        /\ Idx(N, d, t) = 1..Len(N[t])
    <3> TAKE t \in live
    <3>1. t \in Task /\ Walk(heap, areas[t]) = N[t] /\ Idx(N, d, t) = 1..Len(N[t])
      BY <1>1, <2>1, WholeFacts
    <3> DEFINE P(w, i) ==
                 LET a == heap[w[i]].value
                 IN  {<<w[i], <<t, i, 1>>>>, <<a, <<t, i, 2>>>>}
                       \cup {<<heap[a].pages[j], <<t, i, j + 2>>>> :
                             j \in 1..Len(heap[a].pages)}
               Q(w) == UNION {P(w, i) : i \in 1..Len(w)}
    <3>2. Owned(t) = Q(Walk(heap, areas[t]))
      BY Zenon DEF Owned
    <3>3. Q(Walk(heap, areas[t])) = Q(N[t])
      <4> HIDE DEF Q
      <4> QED BY <3>1
    <3>4. \A i : P(N[t], i) = Part(t, i)
      BY Zenon DEF Pages, Ar, Ref
    <3>5. Q(N[t]) = UNION {Part(t, i) : i \in 1..Len(N[t])}
      <4> HIDE DEF P, Part
      <4> QED BY <3>4
    <3> HIDE DEF Q, Part
    <3> QED BY <3>1, <3>2, <3>3, <3>5
  <2>3. ASSUME NEW t \in Task, NEW i \in Idx(N, d, t), NEW o \in Part(t, i)
        PROVE  o[1] \in Held /\ o = <<o[1], g[o[1]]>>
    <3>1. /\ g[N[t][i]] = <<t, i, 1>> /\ N[t][i] \in Held
          /\ g[Ref(N, t, i)] = <<t, i, 2>> /\ Ref(N, t, i) \in Held
          /\ \A j \in 1..Len(Pages(N, t, i)) :
               g[Pages(N, t, i)[j]] = <<t, i, j + 2>> /\ Pages(N, t, i)[j] \in Held
      BY <2>1, Places
    <3>2. \/ o = <<N[t][i], <<t, i, 1>>>> \/ o = <<Ref(N, t, i), <<t, i, 2>>>>
          \/ \E j \in 1..Len(Pages(N, t, i)) : o = <<Pages(N, t, i)[j], <<t, i, j + 2>>>>
      OBVIOUS
    <3>3. ASSUME NEW a, NEW b, o = <<a, b>>, g[a] = b, a \in Held
          PROVE  o[1] \in Held /\ o = <<o[1], g[o[1]]>>
      BY <3>3
    <3> HIDE DEF Part, Ref, Pages
    <3> QED BY <3>1, <3>2, <3>3
  <2>4. \A o : o \in owned <=> \E t \in live : \E i \in Idx(N, d, t) : o \in Part(t, i)
    <3> HIDE DEF Part
    <3> QED BY <2>2
  <2>5. \A o \in owned : o[1] \in Held /\ o = <<o[1], g[o[1]]>>
    <3> TAKE o \in owned
    <3>1. PICK t \in live : \E i \in Idx(N, d, t) : o \in Part(t, i)
      <4> HIDE DEF owned, Part
      <4> QED BY <2>4
    <3>2. PICK i \in Idx(N, d, t) : o \in Part(t, i)
      BY <3>1
    <3>3. t \in Task
      BY <2>2
    <3> HIDE DEF owned, Part
    <3> QED BY <2>3, <3>2, <3>3
  <2>6. ASSUME NEW p \in Held PROVE \E o \in owned : o[1] = p
    <3>0. PICK t \in Task : \E i \in 1..Len(N[t]) :
            \/ p = N[t][i]
            \/ /\ i \in Idx(N, d, t)
               /\ p = Ref(N, t, i) \/ \E j \in 1..Len(Pages(N, t, i)) : p = Pages(N, t, i)[j]
      BY <2>1 DEF Struct, Owners
    <3>1. PICK i \in 1..Len(N[t]) :
            \/ p = N[t][i]
            \/ p = Ref(N, t, i)
            \/ \E j \in 1..Len(Pages(N, t, i)) : p = Pages(N, t, i)[j]
      BY <3>0
    <3>2. t \in live /\ i \in Idx(N, d, t)
      <4>1. N[t] # << >>
        BY <3>1
      <4>2. t \in live
        BY <2>1, <4>1 DEF Tasks
      <4> QED BY <2>2, <3>1, <4>2
    <3>3. \E o \in Part(t, i) : o[1] = p
      <4>1. CASE p = N[t][i]
        <5>1. <<N[t][i], <<t, i, 1>>>> \in Part(t, i)
          OBVIOUS
        <5> HIDE DEF Part
        <5> QED BY <4>1, <5>1
      <4>2. CASE p = Ref(N, t, i)
        <5>1. <<Ref(N, t, i), <<t, i, 2>>>> \in Part(t, i)
          OBVIOUS
        <5> HIDE DEF Part
        <5> QED BY <4>2, <5>1
      <4>3. ASSUME NEW j \in 1..Len(Pages(N, t, i)), p = Pages(N, t, i)[j]
            PROVE  \E o \in Part(t, i) : o[1] = p
        <5>1. <<Pages(N, t, i)[j], <<t, i, j + 2>>>> \in Part(t, i)
          OBVIOUS
        <5> HIDE DEF Part
        <5> QED BY <4>3, <5>1
      <4> QED BY <3>1, <4>1, <4>2, <4>3
    <3> HIDE DEF owned, Part
    <3> QED BY <2>4, <3>2, <3>3
  <2> HIDE DEF owned
  <2>7. {o[1] : o \in owned} = used \ args
    BY <2>5, <2>6 DEF Held
  <2>8. \A o, q \in owned : o[1] = q[1] => o = q
    BY <2>5
  <2> QED BY <2>7, <2>8 DEF owned
<1>2. IInv => PagesOwned
  BY <1>1, Zenon DEF IInv, PagesOwned
<1> QED BY <1>2, SpecInv, PTL
\* Forward and backward pointers of the areas' list agree.
LEMMA WholeLinked ==
  ASSUME NEW N, NEW g, NEW d, Sound(N, g, d), NEW t \in Whole
  PROVE  Linked(heap, areas[t])
<1> DEFINE l == N[t]
           L(w) == /\ Len(w) <= Cardinality(DOMAIN heap)
                   /\ areas[t].last = IF w = << >> THEN NULL ELSE w[Len(w)]
                   /\ \A i \in 1..Len(w) :
                        heap[w[i]].prev = IF i = 1 THEN NULL ELSE w[i - 1]
<1>1. Struct(N, g, d) /\ Types /\ t \in Task /\ Walk(heap, areas[t]) = l /\ Len(l) \in Nat
  BY WholeFacts DEF Sound, Struct
<1>2. l \in Seq(Page) /\ areas[t] = Ends(l)
  BY <1>1 DEF Struct, Ghosts, Nodes
<1>3. DOMAIN heap = Page
  BY <1>1 DEF Types
<1>4. IsInjective(l)
  <2>1. \A i, j \in 1..Len(l) : l[i] = l[j] => i = j
    BY <1>1, Apart DEF Disjoint
  <2> QED BY <1>2, <2>1 DEF IsInjective
<1>5. Len(l) <= Cardinality(DOMAIN heap)
  <2> HIDE DEF l
  <2> QED BY <1>2, <1>3, <1>4, PathLength, MemoryAssumption
<1>6. areas[t].last = IF l = << >> THEN NULL ELSE l[Len(l)]
  <2>1. areas[t].last = At(l, Len(l))
    BY <1>2 DEF Ends
  <2>2. l = << >> <=> Len(l) = 0
    BY <1>2
  <2> HIDE DEF l
  <2> QED BY <1>1, <2>1, <2>2 DEF At
<1>7. ASSUME NEW i \in 1..Len(l)
      PROVE  heap[l[i]].prev = IF i = 1 THEN NULL ELSE l[i - 1]
  <2>1. heap[l[i]] = [value |-> Ref(N, t, i), prev |-> At(l, i - 1), next |-> At(l, i + 1)]
    BY <1>1 DEF Struct, Nodes
  <2>2. heap[l[i]].prev = At(l, i - 1)
    <3> HIDE DEF At, Ref, l
    <3> QED BY <2>1
  <2> HIDE DEF l
  <2> QED BY <1>1, <2>2 DEF At
<1>8. L(l)
  BY <1>5, <1>6, <1>7
<1>9. Linked(heap, areas[t]) = L(Walk(heap, areas[t]))
  BY Zenon DEF Linked
<1>10. L(Walk(heap, areas[t])) = L(l)
  <2> HIDE DEF L
  <2> QED BY <1>1
<1> QED BY <1>8, <1>9, <1>10, Zenon

\* The list of a task's areas is a list, in order and with the stack at its
\* end, and says what is in the page table (vm_add_area, vm_clone, task_entry).
THEOREM SpecAreasSound == Spec => []AreasSound
<1>1. ASSUME NEW N, NEW g, NEW d, Sound(N, g, d), NEW t \in Whole
      PROVE  LET w == Walk(heap, areas[t])
                 a == [i \in 1..Len(w) |-> heap[w[i]].value]
             IN  /\ Linked(heap, areas[t])
                 /\ \A i \in 1..(Len(w) - 1) :
                      heap[a[i]].va + heap[a[i]].n_pages <= heap[a[i + 1]].va
                 /\ "STACK" \in heap[a[Len(w)]].flags
                 /\ \A v \in UPage :
                      table[t][v] # None <=> \E i \in 1..Len(w) : v \in Covered(a[i])
                 /\ \A i \in 1..Len(w) :
                      /\ ToSet(heap[a[i]].pages) = {table[t][v].frame : v \in Covered(a[i])}
                      /\ \A v \in Covered(a[i]) :
                           heap[a[i]].flags \cap Permission \subseteq table[t][v].flags
  <2>1. /\ Struct(N, g, d) /\ t \in Task /\ d[t] = 0 /\ Complete(N, t)
        /\ Walk(heap, areas[t]) = N[t] /\ Len(N[t]) \in Nat /\ Idx(N, d, t) = 1..Len(N[t])
    BY <1>1, WholeFacts DEF Sound
  <2>2. PICK n : n = Len(N[t])
    OBVIOUS
  <2>3. PICK a : a = [i \in 1..n |-> heap[N[t][i]].value]
    OBVIOUS
  <2>4. \A i \in 1..n : a[i] = Ref(N, t, i) /\ heap[a[i]] = Ar(N, t, i)
    BY <2>3 DEF Ref, Ar
  <2>5. n \in Nat /\ n \in 1..n /\ \A i \in 1..(n - 1) : i \in 1..n /\ i + 1 \in 1..n /\ i < i + 1
    BY <2>1, <2>2 DEF Complete
  <2>6. \A i \in 1..n : AreaAt(N, g, t, i) /\ TableAt(N, t, i) /\ Full(N, t, i)
    BY <2>1, <2>2 DEF Struct, Complete
  <2>7. \A i \in 1..n : Covered(a[i]) = Mapped(N, t, i)
    <3> TAKE i \in 1..n
    <3>1. Covered(a[i]) = Ar(N, t, i).va..(Ar(N, t, i).va + Ar(N, t, i).n_pages - 1)
      BY <2>4 DEF Covered
    <3>2. Ar(N, t, i).n_pages = Len(Pages(N, t, i))
      BY <2>6 DEF Full
    <3> QED BY <3>1, <3>2 DEF Mapped
  <2>8. \A i \in 1..(n - 1) : heap[a[i]].va + heap[a[i]].n_pages <= heap[a[i + 1]].va
    <3> TAKE i \in 1..(n - 1)
    <3>1. End(N, t, i) <= Ar(N, t, i + 1).va
      BY <2>1, <2>2, <2>5 DEF Struct, Sorted
    <3> QED BY <2>4, <2>5, <3>1 DEF End
  <2>9. "STACK" \in heap[a[n]].flags
    BY <2>1, <2>2, <2>4, <2>5 DEF Complete
  <2>10. ASSUME NEW v \in UPage
         PROVE  table[t][v] # None <=> \E i \in 1..n : v \in Covered(a[i])
    <3>1. table[t][v] # None => \E i \in 1..n : v \in Mapped(N, t, i)
      BY <2>1, <2>2 DEF Struct, TableOf
    <3>2. \A i \in 1..n : v \in Mapped(N, t, i) => table[t][v] # None
      BY <2>6 DEF TableAt
    <3> QED BY <2>7, <3>1, <3>2
  <2>11. ASSUME NEW i \in 1..n
         PROVE  /\ ToSet(heap[a[i]].pages) = {table[t][v].frame : v \in Covered(a[i])}
                /\ \A v \in Covered(a[i]) :
                     heap[a[i]].flags \cap Permission \subseteq table[t][v].flags
    <3> DEFINE pages == Pages(N, t, i)
    <3>1. heap[a[i]] = Ar(N, t, i) /\ Covered(a[i]) = Mapped(N, t, i)
      BY <2>4, <2>7
    <3>2. pages \in Seq(Page) /\ heap[a[i]].pages = pages
      BY <2>6, <3>1 DEF AreaAt, Area, Pages
    <3>3. ToSet(pages) = {pages[j] : j \in 1..Len(pages)}
      <4> HIDE DEF pages
      <4> QED BY <3>2 DEF ToSet
    <3>4. /\ \A v \in Mapped(N, t, i) :
               /\ \E j \in 1..Len(pages) : table[t][v].frame = pages[j]
               /\ Ar(N, t, i).flags \cap Permission \subseteq table[t][v].flags
          /\ \A j \in 1..Len(pages) : \E v \in Mapped(N, t, i) : table[t][v].frame = pages[j]
      BY <2>6 DEF TableAt
    <3>5. {pages[j] : j \in 1..Len(pages)} = {table[t][v].frame : v \in Mapped(N, t, i)}
      <4> HIDE DEF pages, Mapped
      <4>1. ASSUME NEW j \in 1..Len(pages)
            PROVE  pages[j] \in {table[t][v].frame : v \in Mapped(N, t, i)}
        <5>1. PICK v \in Mapped(N, t, i) : table[t][v].frame = pages[j]
          BY <3>4
        <5> QED BY <5>1
      <4>2. ASSUME NEW v \in Mapped(N, t, i)
            PROVE  table[t][v].frame \in {pages[j] : j \in 1..Len(pages)}
        <5>1. PICK j \in 1..Len(pages) : table[t][v].frame = pages[j]
          BY <3>4
        <5> QED BY <5>1
      <4> QED BY <4>1, <4>2
    <3> HIDE DEF pages, Mapped
    <3> QED BY <3>1, <3>2, <3>3, <3>4, <3>5
  <2> DEFINE S(w) ==
               LET b == [i \in 1..Len(w) |-> heap[w[i]].value]
               IN  /\ Linked(heap, areas[t])
                   /\ \A i \in 1..(Len(w) - 1) :
                        heap[b[i]].va + heap[b[i]].n_pages <= heap[b[i + 1]].va
                   /\ "STACK" \in heap[b[Len(w)]].flags
                   /\ \A v \in UPage :
                        table[t][v] # None <=> \E i \in 1..Len(w) : v \in Covered(b[i])
                   /\ \A i \in 1..Len(w) :
                        /\ ToSet(heap[b[i]].pages) = {table[t][v].frame : v \in Covered(b[i])}
                        /\ \A v \in Covered(b[i]) :
                             heap[b[i]].flags \cap Permission \subseteq table[t][v].flags
  <2>12. Linked(heap, areas[t])
    BY <1>1, WholeLinked
  <2>13. S(N[t])
    <3>1. a = [i \in 1..Len(N[t]) |-> heap[N[t][i]].value]
      BY <2>2, <2>3
    <3> QED BY <2>2, <2>8, <2>9, <2>10, <2>11, <2>12, <3>1, Zenon
  <2>14. S(Walk(heap, areas[t]))
    <3> HIDE DEF S
    <3> QED BY <2>1, <2>13
  <2> QED BY <2>14
<1>2. IInv => AreasSound
  BY <1>1, Zenon DEF IInv, AreasSound
<1> QED BY <1>2, SpecInv, PTL

-----------------------------------------------------------------------------
(* Each program sees a memory of its own                                   *)

\* What the pages there are hold: the file; what those of the parent hold.
HoldsImage(t) ==
  \A v \in UPage : table[t][v] # None => heap[table[t][v].frame].data = FileImage[v]

HoldsCopy(t, c) ==
  \A v \in UPage : table[c][v] # None =>
    /\ table[t][v] # None
    /\ heap[table[c][v].frame].data = heap[table[t][v].frame].data

CanRead == \A t \in Task : \A v \in UPage : table[t][v] # None => "r" \in table[t][v].flags

\* The memory that load_elf or vm_clone is making is right as far as it goes.
CInv ==
  /\ call.pc \in {"load", "load_page"} => HoldsImage(call.task)
  /\ call.pc \in {"clone", "clone_page"} => HoldsCopy(call.task, call.child)
  /\ CanRead

\* What of the call decides what a program is to see.
Mode(c) ==
  IF c.pc \in {"exec", "load", "load_page"} THEN <<"load", c.task>>
  ELSE IF c.pc = "exit" THEN <<"exit", c.task>>
  ELSE IF c.pc = "grow" THEN <<"grow", c.task, c.page>>
  ELSE <<"none">>

\* No frame is behind two entries.
LEMMA OneEntry ==
  ASSUME NEW N, NEW g, NEW d, Struct(N, g, d),
         NEW t \in Task, d[t] = 0, NEW u \in Task, d[u] = 0,
         NEW v \in UPage, table[t][v] # None, NEW w \in UPage, table[u][w] # None,
         table[t][v].frame = table[u][w].frame
  PROVE  t = u /\ v = w
<1>1. PICK i \in Idx(N, d, t) : v \in Mapped(N, t, i) /\ \E a \in 1..Len(Pages(N, t, i)) :
        table[t][v].frame = Pages(N, t, i)[a]
  BY EntryFrame
<1>2. PICK a \in 1..Len(Pages(N, t, i)) : table[t][v].frame = Pages(N, t, i)[a]
  BY <1>1
<1>3. PICK j \in Idx(N, d, u) : w \in Mapped(N, u, j) /\ \E b \in 1..Len(Pages(N, u, j)) :
        table[u][w].frame = Pages(N, u, j)[b]
  BY EntryFrame
<1>4. PICK b \in 1..Len(Pages(N, u, j)) : table[u][w].frame = Pages(N, u, j)[b]
  BY <1>3
<1>5. t = u /\ i = j
  <2>1. Disjoint(N, d, t, u)
    BY Apart
  <2>2. Pages(N, t, i)[a] = Pages(N, u, j)[b]
    BY <1>2, <1>4
  <2> HIDE DEF Pages
  <2> QED BY <2>1, <2>2 DEF Disjoint
<1>6. TableAt(N, t, i)
  BY DEF Struct
<1> HIDE DEF Mapped
<1> QED BY <1>1, <1>3, <1>5, <1>6 DEF TableAt

LEMMA MemoriesAt ==
  /\ Memories = [t \in Task |-> Memories[t]]
  /\ \A t \in Task : Memories[t] =
       IF t \notin live \/ Exits(t) THEN None
       ELSE IF Loads(t) THEN FileImage
       ELSE [v \in UPage |-> Contents(t, v)]
BY DEF Memories

\* The same after a step.
LEMMA MemoriesNext ==
  /\ Memories' = [t \in Task |-> Memories'[t]]
  /\ \A t \in Task : Memories'[t] =
       IF t \notin live' \/ (call'.pc = "exit" /\ t = call'.task) THEN None
       ELSE IF call'.pc \in {"exec", "load", "load_page"} /\ t = call'.task THEN FileImage
       ELSE [v \in UPage |->
               IF table'[t][v] # None THEN heap'[table'[t][v].frame].data
               ELSE IF call'.pc = "grow" /\ t = call'.task /\ v >= call'.page THEN Zero
               ELSE None]
BY DEF Memories, Exits, Loads, Contents, Grown, FileImage

LEMMA MemoriesStay ==
  ASSUME live' = live, live \subseteq Task, Mode(call') = Mode(call),
         \A u \in Whole : Kept(u)
  PROVE  UNCHANGED Memories
<1>1. /\ call'.pc = "exit" <=> call.pc = "exit"
      /\ call'.pc \in {"exec", "load", "load_page"} <=> call.pc \in {"exec", "load", "load_page"}
      /\ call'.pc = "grow" <=> call.pc = "grow"
      /\ call.pc \in {"exit", "exec", "load", "load_page", "grow"} => call'.task = call.task
      /\ call.pc = "grow" => call'.page = call.page
  BY DEF Mode
<1>2. ASSUME NEW t \in Task PROVE Memories'[t] = Memories[t]
  <2>1. Memories[t] =
       IF t \notin live \/ (call.pc = "exit" /\ t = call.task) THEN None
       ELSE IF call.pc \in {"exec", "load", "load_page"} /\ t = call.task THEN FileImage
       ELSE [v \in UPage |->
               IF table[t][v] # None THEN heap[table[t][v].frame].data
               ELSE IF call.pc = "grow" /\ t = call.task /\ v >= call.page THEN Zero
               ELSE None]
    BY MemoriesAt DEF Exits, Loads, Contents, Grown
  <2>2. CASE t \in Whole
    <3>1. Kept(t)
      BY <2>2
    <3>2. \A v \in UPage :
            (IF table'[t][v] # None THEN heap'[table'[t][v].frame].data
               ELSE IF call'.pc = "grow" /\ t = call'.task /\ v >= call'.page THEN Zero
               ELSE None)
            = (IF table[t][v] # None THEN heap[table[t][v].frame].data
               ELSE IF call.pc = "grow" /\ t = call.task /\ v >= call.page THEN Zero
               ELSE None)
      BY <1>1, <3>1 DEF Kept
    <3>3. t \in live /\ ~(call.pc = "exit" /\ t = call.task)
          /\ ~(call.pc \in {"exec", "load", "load_page"} /\ t = call.task)
      BY <2>2 DEF Whole, Loads, Exits
    <3> HIDE DEF UPage
    <3> QED BY <1>1, <2>1, <3>2, <3>3, MemoriesNext
  <2>3. CASE t \notin Whole
    <3>1. \/ t \notin live \/ (call.pc = "exit" /\ t = call.task)
          \/ (call.pc \in {"exec", "load", "load_page"} /\ t = call.task)
      BY <2>3 DEF Whole, Loads, Exits
    <3> QED BY <1>1, <2>1, <3>1, MemoriesNext
  <2> QED BY <2>2, <2>3
<1>3. Memories' = Memories
  BY <1>2, MemoriesAt, MemoriesNext
<1> QED BY <1>3

\* A step of one task leaves the others alone.
LEMMA OthersStay ==
  ASSUME NEW t \in Task,
         call.pc \in {"user", "clone", "clone_page"} \/ call.task = t,
         call'.pc \in {"user", "clone", "clone_page"} \/ call'.task = t,
         \A u \in Task : u # t => Kept(u) /\ (u \in live' <=> u \in live)
  PROVE  \A u \in Task : u # t => Memories'[u] = Memories[u]
<1> SUFFICES ASSUME NEW u \in Task, u # t PROVE Memories'[u] = Memories[u]
  OBVIOUS
<1>1. Memories[u] = IF u \notin live THEN None
                    ELSE [v \in UPage |->
                            IF table[u][v] # None THEN heap[table[u][v].frame].data ELSE None]
  BY MemoriesAt DEF Exits, Loads, Contents, Grown
<1>2. Memories'[u] = IF u \notin live' THEN None
                     ELSE [v \in UPage |->
                             IF table'[u][v] # None THEN heap'[table'[u][v].frame].data ELSE None]
  BY MemoriesNext
<1>3. \A v \in UPage :
        (IF table'[u][v] # None THEN heap'[table'[u][v].frame].data ELSE None)
        = (IF table[u][v] # None THEN heap[table[u][v].frame].data ELSE None)
  BY DEF Kept
<1> HIDE DEF UPage
<1> QED BY <1>1, <1>2, <1>3

\* A task whose memory is all there sees something.
LEMMA MemoryType ==
  ASSUME NEW N, NEW g, NEW d, Sound(N, g, d), NEW t \in Whole
  PROVE  /\ t \in Task
         /\ Memories[t] = [v \in UPage |-> Contents(t, v)]
         /\ Memories[t] # None
<1>1. Struct(N, g, d) /\ t \in Task /\ d[t] = 0
  BY WholeFacts DEF Sound
<1>2. Memories[t] = [v \in UPage |-> Contents(t, v)]
  BY <1>1, MemoriesAt DEF Whole
<1>3. \A v \in UPage : Contents(t, v) \in Data \cup {None}
  <2> TAKE v \in UPage
  <2>1. CASE table[t][v] # None
    <3>1. heap[table[t][v].frame] \in [data : Data]
      BY <1>1, <2>1, EntryFacts
    <3>2. heap[table[t][v].frame].data \in Data
      <4> HIDE DEF Data
      <4> QED BY <3>1
    <3> QED BY <2>1, <3>2 DEF Contents
  <2>2. CASE table[t][v] = None
    BY <2>2 DEF Contents, Data
  <2> QED BY <2>1, <2>2
<1>4. Memories[t] \in [UPage -> Data \cup {None}]
  <2> HIDE DEF Data, UPage
  <2> QED BY <1>2, <1>3
<1> QED BY <1>1, <1>2, <1>4, NoneAssumption

LEMMA HoldsImageKept ==
  ASSUME NEW t \in Task, Kept(t), HoldsImage(t)
  PROVE  HoldsImage(t)'
<1>1. \A v \in UPage : table'[t][v] # None => heap'[table'[t][v].frame].data = FileImage[v]
  BY DEF Kept, HoldsImage
<1>2. FileImage' = FileImage /\ UPage' = UPage
  BY DEF FileImage, UPage
<1> HIDE DEF FileImage, UPage
<1> QED BY <1>1, <1>2 DEF HoldsImage

LEMMA HoldsCopyKept ==
  ASSUME NEW t \in Task, NEW c \in Task, Kept(t), Kept(c), HoldsCopy(t, c)
  PROVE  HoldsCopy(t, c)'
<1>1. \A v \in UPage : table'[c][v] # None =>
        /\ table'[t][v] # None
        /\ heap'[table'[c][v].frame].data = heap'[table'[t][v].frame].data
  <2> TAKE v \in UPage
  <2> HAVE table'[c][v] # None
  <2>1. table'[c][v] = table[c][v] /\ table'[t][v] = table[t][v]
    BY DEF Kept
  <2>2. table[t][v] # None /\ heap[table[c][v].frame].data = heap[table[t][v].frame].data
    BY <2>1 DEF HoldsCopy
  <2>3. /\ heap'[table[c][v].frame] = heap[table[c][v].frame]
        /\ heap'[table[t][v].frame] = heap[table[t][v].frame]
    BY <2>1, <2>2 DEF Kept
  <2> QED BY <2>1, <2>2, <2>3
<1> QED BY <1>1 DEF HoldsCopy

LEMMA CanReadStep ==
  ASSUME CanRead,
         \A u \in Task : \A v \in UPage :
           \/ table'[u][v] = table[u][v]
           \/ table'[u][v] = None
           \/ "r" \in table'[u][v].flags
  PROVE  CanRead'
BY DEF CanRead

\* What a step must do: the programs see a step of UserMemory, or nothing.
Implements == CInv' /\ (M!Next \/ UNCHANGED Memories)

\* Whatever stops the machine.
LEMMA StaysImplements ==
  ASSUME NEW N, NEW g, NEW d, Sound(N, g, d), CInv, Stays
  PROVE  Implements
<1>1. UNCHANGED <<heap, table, live, call>> /\ live \subseteq Task
  BY DEF Stays, Sound, Struct, Types
<1>2. \A u \in Whole : Kept(u)
  BY <1>1 DEF Kept
<1>3. UNCHANGED Memories
  BY <1>1, <1>2, MemoriesStay
<1>4. CInv'
  BY <1>1 DEF CInv, HoldsImage, HoldsCopy, CanRead, FileImage
<1> QED BY <1>3, <1>4 DEF Implements

LEMMA LoadAreaImplements ==
  ASSUME NEW N, NEW g, NEW d, Sound(N, g, d), CInv, LoadArea
  PROVE  Implements
<1>1. \A u \in Task : Kept(u)
  BY LoadAreaStep
<1>2. Struct(N, g, d) /\ CallOK(N, d) /\ live \subseteq Task /\ call.pc = "load"
  BY DEF Sound, Struct, Types, LoadArea
<1>3. call.task \in Task
  <2>1. PICK t \in live, k \in 1..(Len(Segments) + 1) : LoadAt(N, t, k)
    BY <1>2, CallCases
  <2> QED BY <1>2, <2>1 DEF LoadAt, Load
<1>4. CASE panic
  BY <1>4, StaysImplements DEF panic, Stays
<1>5. CASE ~panic
  <2>1. /\ UNCHANGED <<table, live>>
        /\ call' = [pc |-> "load_page", task |-> call.task, index |-> call.index, area |-> NewPage]
    BY <1>5 DEF LoadArea, AddArea
  <2>2. call'.pc = "load_page" /\ call'.task = call.task
    BY <2>1
  <2>3. Mode(call') = Mode(call)
    BY <1>2, <2>2 DEF Mode
  <2>4. UNCHANGED Memories
    BY <1>1, <1>2, <2>1, <2>3, MemoriesStay DEF Whole
  <2>5. HoldsImage(call.task)
    BY <1>2 DEF CInv
  <2>6. PICK t \in Task : t = call.task
    BY <1>3
  <2>7. HoldsImage(t)'
    BY <1>1, <2>5, <2>6, HoldsImageKept
  <2>8. CanRead'
    BY <2>1, CanReadStep DEF CInv
  <2>9. call'.task = t
    BY <2>2, <2>6
  <2>10. CInv'
    <3> HIDE DEF HoldsImage, HoldsCopy, CanRead
    <3> QED BY <2>2, <2>7, <2>8, <2>9 DEF CInv
  <2> QED BY <2>4, <2>10 DEF Implements
<1> QED BY <1>4, <1>5

LEMMA CloneAreaImplements ==
  ASSUME NEW N, NEW g, NEW d, Sound(N, g, d), CInv, CloneArea
  PROVE  Implements
<1>1. \A u \in Task : Kept(u)
  BY CloneAreaStep
<1>2. Struct(N, g, d) /\ CallOK(N, d) /\ live \subseteq Task /\ call.pc = "clone"
  BY DEF Sound, Struct, Types, CloneArea
<1>3. PICK t \in Task, c \in Task : call.task = t /\ call.child = c
  <2>1. PICK t \in live, c \in Task : CloneAt(N, t, c)
    BY <1>2, CallCases
  <2>2. call.task = t /\ call.child = c
    <3> HIDE DEF At
    <3> QED BY <2>1 DEF CloneAt
  <2> QED BY <1>2, <2>2
<1>4. CASE panic
  BY <1>4, StaysImplements DEF panic, Stays
<1>5. CASE ~panic
  <2>1. /\ UNCHANGED <<table, live>>
        /\ call' = [pc |-> "clone_page", task |-> call.task, child |-> call.child,
                    node |-> call.node, area |-> NewPage]
    BY <1>5 DEF CloneArea, AddArea
  <2>2. call'.pc = "clone_page" /\ call'.task = t /\ call'.child = c
    BY <1>3, <2>1
  <2>3. Mode(call') = Mode(call)
    BY <1>2, <2>2 DEF Mode
  <2>4. UNCHANGED Memories
    BY <1>1, <1>2, <2>1, <2>3, MemoriesStay DEF Whole
  <2>5. HoldsCopy(t, c)
    BY <1>2, <1>3 DEF CInv
  <2>6. HoldsCopy(t, c)'
    BY <1>1, <2>5, HoldsCopyKept
  <2>7. CanRead'
    BY <2>1, CanReadStep DEF CInv
  <2>8. CInv'
    <3> HIDE DEF HoldsImage, HoldsCopy, CanRead
    <3> QED BY <2>2, <2>6, <2>7 DEF CInv
  <2> QED BY <2>4, <2>8 DEF Implements
<1> QED BY <1>4, <1>5

LEMMA LoadPageImplements ==
  ASSUME NEW N, NEW g, NEW d, Sound(N, g, d), CInv, Readable, LoadPage
  PROVE  Implements
<1>1. Struct(N, g, d) /\ CallOK(N, d) /\ live \subseteq Task /\ call.pc = "load_page"
  BY DEF Sound, Struct, Types, LoadPage
<1>2. PICK t \in Task : t = call.task /\ t \in live
  <2>1. PICK t \in live, k \in 1..(Len(Segments) + 1) : LoadPageAt(N, t, k)
    BY <1>1, CallCases
  <2>2. call.task = t
    <3> HIDE DEF Ref
    <3> QED BY <2>1 DEF LoadPageAt
  <2> QED BY <1>1, <2>2
<1>3. CASE Stays
  BY <1>3, StaysImplements
<1>4. CASE ~Stays
  <2> HIDE DEF FileImage, Filled, Readable, Stays
  <2>0. PageLoaded(t)
    BY <1>2, <1>4, LoadPageStep
  <2>1. PICK v, f : Filled(t, v, FileImage[v], f) /\ "r" \in f
    BY <2>0 DEF PageLoaded
  <2>2. call' = call /\ live' = live /\ \A u \in Task : u # t => Kept(u)
    BY <2>1 DEF Filled
  <2>3. UNCHANGED Memories
    <3>1. Whole = live \ {t}
      BY <1>1, <1>2, WholeIs
    <3> QED BY <1>1, <2>2, <3>1, MemoriesStay
  <2>4. CanRead'
    <3>1. \A u \in Task : \A w \in UPage :
            table'[u][w] = table[u][w] \/ "r" \in table'[u][w].flags
      BY <2>1 DEF Filled, Kept
    <3> QED BY <3>1, CanReadStep DEF CInv
  <2>5. HoldsImage(t)'
    <3>1. HoldsImage(t)
      BY <1>1, <1>2 DEF CInv
    <3>2. \A w \in UPage : table'[t][w] # None => heap'[table'[t][w].frame].data = FileImage[w]
      BY <2>1, <3>1 DEF Filled, HoldsImage
    <3>3. FileImage' = FileImage /\ UPage' = UPage
      BY DEF FileImage, UPage
    <3> QED BY <3>2, <3>3 DEF HoldsImage
  <2>6. CInv'
    <3>1. call'.pc = "load_page" /\ call'.task = t
      BY <1>1, <1>2, <2>2
    <3> HIDE DEF HoldsImage, HoldsCopy, CanRead
    <3> QED BY <2>4, <2>5, <3>1 DEF CInv
  <2> QED BY <2>3, <2>6 DEF Implements
<1> QED BY <1>3, <1>4

LEMMA ClonePageImplements ==
  ASSUME NEW N, NEW g, NEW d, Sound(N, g, d), CInv, ClonePage
  PROVE  Implements
<1>1. Struct(N, g, d) /\ live \subseteq Task /\ call.pc = "clone_page"
  BY DEF Sound, Struct, Types, ClonePage
<1>2. CASE Stays
  BY <1>2, StaysImplements
<1>3. CASE ~Stays
  <2>1. PICK v : /\ call.task \in Task /\ call.child \in Task \ live
                 /\ v \in UPage /\ table[call.task][v] # None
                 /\ Filled(call.child, v, copy_from_user(call.task, v), Permission)
    BY <1>3, ClonePageStep
  <2>2. PICK t \in Task, c \in Task : t = call.task /\ c = call.child
    BY <2>1
  <2>3. /\ c \notin live /\ v \in UPage /\ table[t][v] # None
        /\ Filled(c, v, heap[table[t][v].frame].data, Permission)
    <3>1. copy_from_user(t, v) = heap[table[t][v].frame].data
      BY <2>1, <2>2 DEF copy_from_user, CInv, CanRead
    <3> HIDE DEF copy_from_user
    <3> QED BY <2>1, <2>2, <3>1
  <2>4. HoldsCopy(t, c)
    BY <1>1, <2>2 DEF CInv
  <2>5. t # c
    BY <2>3 DEF Filled
  <2>6. call' = call /\ live' = live /\ \A u \in Task : u # c => Kept(u)
    BY <2>3 DEF Filled
  <2>7. UNCHANGED Memories
    BY <1>1, <2>3, <2>6, MemoriesStay DEF Whole
  <2>8. CanRead'
    <3>1. \A u \in Task : \A w \in UPage :
            table'[u][w] = table[u][w] \/ "r" \in table'[u][w].flags
      BY <2>3 DEF Filled, Kept, Permission
    <3> QED BY <3>1, CanReadStep DEF CInv
  <2>9. HoldsCopy(t, c)'
    <3>1. ASSUME NEW w \in UPage, table'[c][w] # None
          PROVE  /\ table'[t][w] # None
                 /\ heap'[table'[c][w].frame].data = heap'[table'[t][w].frame].data
      <4>1. Kept(t)
        BY <2>5, <2>6
      <4>2. CASE w = v
        <5>1. table'[t][v] = table[t][v] /\ heap'[table[t][v].frame] = heap[table[t][v].frame]
          BY <2>3, <4>1 DEF Kept
        <5> QED BY <2>3, <4>2, <5>1 DEF Filled
      <4>3. CASE w # v
        <5>1. /\ table'[c][w] = table[c][w] /\ table[c][w] # None
              /\ heap'[table[c][w].frame] = heap[table[c][w].frame]
          BY <2>3, <3>1, <4>3 DEF Filled
        <5>2. table[t][w] # None /\ heap[table[c][w].frame].data = heap[table[t][w].frame].data
          BY <2>4, <5>1 DEF HoldsCopy
        <5>3. table'[t][w] = table[t][w] /\ heap'[table[t][w].frame] = heap[table[t][w].frame]
          BY <4>1, <5>2 DEF Kept
        <5> QED BY <5>1, <5>2, <5>3
      <4> QED BY <4>2, <4>3
    <3> QED BY <3>1 DEF HoldsCopy
  <2>10. CInv'
    <3>1. call'.pc = "clone_page" /\ call'.task = t /\ call'.child = c
      BY <1>1, <2>2, <2>6
    <3> HIDE DEF HoldsImage, HoldsCopy, CanRead
    <3> QED BY <2>8, <2>9, <3>1 DEF CInv
  <2> QED BY <2>7, <2>10 DEF Implements
<1> QED BY <1>2, <1>3

\* The call goes on, and nothing else changes.
LEMMA CallImplements ==
  ASSUME NEW N, NEW g, NEW d, Sound(N, g, d), CInv,
         UNCHANGED <<heap, table, live>>, Mode(call') = Mode(call),
         call'.pc \in {"load", "load_page"} => HoldsImage(call'.task),
         call'.pc \in {"clone", "clone_page"} => HoldsCopy(call'.task, call'.child)
  PROVE  Implements
<1>1. live \subseteq Task
  BY DEF Sound, Struct, Types
<1>2. UNCHANGED Memories
  <2>1. \A u \in Whole : Kept(u)
    BY DEF Kept
  <2> QED BY <1>1, <2>1, MemoriesStay
<1>3. CInv'
  BY DEF CInv, CanRead, HoldsImage, HoldsCopy, FileImage
<1> QED BY <1>2, <1>3 DEF Implements

LEMMA LoadNextImplements ==
  ASSUME NEW N, NEW g, NEW d, Sound(N, g, d), CInv, LoadNext
  PROVE  Implements
<1>1. /\ UNCHANGED <<heap, table, live>> /\ call.pc = "load_page"
      /\ call'.pc = "load" /\ call'.task = call.task
  BY DEF LoadNext, Load
<1>2. Mode(call') = Mode(call)
  BY <1>1 DEF Mode
<1>3. HoldsImage(call'.task)
  BY <1>1 DEF CInv
<1> QED BY <1>1, <1>2, <1>3, CallImplements

LEMMA CloneNextImplements ==
  ASSUME NEW N, NEW g, NEW d, Sound(N, g, d), CInv, CloneNext
  PROVE  Implements
<1>1. /\ UNCHANGED <<heap, table, live>> /\ call.pc = "clone_page"
      /\ call'.pc = "clone" /\ call'.task = call.task /\ call'.child = call.child
  BY DEF CloneNext
<1>2. Mode(call') = Mode(call)
  BY <1>1 DEF Mode
<1>3. HoldsCopy(call'.task, call'.child)
  BY <1>1 DEF CInv
<1> QED BY <1>1, <1>2, <1>3, CallImplements

LEMMA ForkImplements ==
  ASSUME NEW N, NEW g, NEW d, Sound(N, g, d), CInv, NEW t, Fork(t)
  PROVE  Implements
<1>0. PICK c : c = CHOOSE u \in Task : u \notin live
  OBVIOUS
<1>1. /\ Runs(t) /\ live # Task
      /\ table' = [table EXCEPT ![c] = Empty]
      /\ call' = [pc |-> "clone", task |-> t, child |-> c, node |-> areas[t].first]
      /\ UNCHANGED <<heap, live>>
  BY <1>0 DEF Fork
<1>2. /\ Types /\ \A u \in Task \ live : table[u] = Empty
  BY <1>1, RunsFacts
<1>3. c \in Task /\ c \notin live
  <2>1. live \subseteq Task
    BY <1>2 DEF Types
  <2> QED BY <1>0, <1>1, <2>1
<1>4. table[c] = Empty /\ table' = table
  <2>1. table \in [Task -> [UPage -> Entry \cup {None}]]
    BY <1>2 DEF Types
  <2> HIDE DEF Empty
  <2> QED BY <1>1, <1>2, <1>3, <2>1
<1>5. call.pc = "user" /\ call'.pc = "clone" /\ call'.task = t /\ call'.child = c
  BY <1>1 DEF Runs
<1>6. Mode(call') = Mode(call)
  BY <1>5 DEF Mode
<1>7. HoldsCopy(call'.task, call'.child)
  BY <1>4, <1>5 DEF HoldsCopy, Empty
<1> QED BY <1>1, <1>4, <1>5, <1>6, <1>7, CallImplements

\* Only the call of the program or of a task whose memory is not there changes.
LEMMA DecrefAreaImplements ==
  ASSUME NEW N, NEW g, NEW d, Sound(N, g, d), CInv, DecrefArea
  PROVE  Implements
<1>1. \A u \in Task : u # call.task => Kept(u)
  BY DecrefAreaStep
<1>2. /\ UNCHANGED <<table, live>> /\ live \subseteq Task
      /\ call.pc \in {"exec", "exit"}
      /\ call' = [pc |-> call.pc, task |-> call.task, node |-> heap[call.node].next]
  BY DEF DecrefArea, Sound, Struct, Types
<1>3. call'.pc = call.pc /\ call'.task = call.task
  BY <1>2
<1>4. Mode(call') = Mode(call)
  BY <1>2, <1>3 DEF Mode
<1>5. UNCHANGED Memories
  <2>1. Whole = live \ {call.task}
    BY <1>2, WholeIs
  <2> QED BY <1>1, <1>2, <1>4, <2>1, MemoriesStay
<1>6. CanRead'
  BY <1>2, CanReadStep DEF CInv
<1>7. CInv'
  <2> HIDE DEF HoldsImage, HoldsCopy, CanRead
  <2> QED BY <1>2, <1>3, <1>6 DEF CInv
<1> QED BY <1>5, <1>7 DEF Implements

LEMMA DecrefDoneImplements ==
  ASSUME NEW N, NEW g, NEW d, Sound(N, g, d), CInv, DecrefDone
  PROVE  Implements
<1>1. \A u \in Task : u # call.task => Kept(u)
  BY DecrefDoneAllStep
<1>2. /\ Struct(N, g, d) /\ CallOK(N, d) /\ Types /\ call.pc \in {"exec", "exit"}
  BY DEF DecrefDone, Sound, Struct
<1>3. PICK t \in live : FreeAt(N, d, t)
  BY <1>2, CallCases
<1>4. t \in Task /\ call.task = t
  <2> HIDE DEF At
  <2> QED BY <1>2, <1>3 DEF FreeAt, Types
<1>5. /\ table' = [table EXCEPT ![t] = Empty]
      /\ \/ call.pc = "exec" /\ call' = Load(t, 1) /\ live' = live
         \/ call.pc = "exit" /\ call' = User /\ live' = live \ {t}
  BY <1>2, <1>4 DEF DecrefDone
<1>6. table'[t] = Empty /\ \A v \in UPage : table'[t][v] = None
  <2>1. table'[t] = Empty
    <3> HIDE DEF Empty
    <3> QED BY <1>2, <1>4, <1>5 DEF Types
  <2> QED BY <2>1 DEF Empty
<1>7. \/ /\ call.pc = "exec" /\ live' = live
         /\ call'.pc = "load" /\ call'.task = t
      \/ /\ call.pc = "exit" /\ live' = live \ {t}
         /\ call'.pc = "user"
  BY <1>5 DEF Load, User
<1>8. Memories'[t] = Memories[t]
  <2>1. CASE call.pc = "exec"
    <3>1. Memories[t] = FileImage
      BY <1>3, <1>4, <2>1, MemoriesAt DEF Loads, Exits
    <3>2. Memories'[t] = FileImage
      BY <1>3, <1>4, <1>7, <2>1, MemoriesNext
    <3> QED BY <3>1, <3>2
  <2>2. CASE call.pc = "exit"
    <3>1. Memories[t] = None
      BY <1>3, <1>4, <2>2, MemoriesAt DEF Exits
    <3>2. Memories'[t] = None
      BY <1>4, <1>7, <2>2, MemoriesNext
    <3> QED BY <3>1, <3>2
  <2> QED BY <1>2, <2>1, <2>2
<1>9. UNCHANGED Memories
  <2>1. \A u \in Task : u # t => Memories'[u] = Memories[u]
    <3>1. \A u \in Task : u # t => Kept(u) /\ (u \in live' <=> u \in live)
      BY <1>1, <1>4, <1>7
    <3> QED BY <1>4, <1>7, <3>1, OthersStay
  <2> QED BY <1>8, <2>1, MemoriesAt, MemoriesNext
<1>10. CInv'
  <2>1. CanRead'
    <3>1. \A u \in Task : \A v \in UPage : table'[u][v] = table[u][v] \/ table'[u][v] = None
      BY <1>1, <1>4, <1>6 DEF Kept
    <3> QED BY <3>1, CanReadStep DEF CInv
  <2>2. HoldsImage(t)'
    BY <1>6 DEF HoldsImage
  <2> HIDE DEF HoldsImage, HoldsCopy, CanRead
  <2> QED BY <1>7, <2>1, <2>2 DEF CInv
<1> QED BY <1>9, <1>10 DEF Implements

\* The call is over, or another one begins that makes nothing.
LEMMA CInvStays ==
  ASSUME CInv, UNCHANGED table,
         call'.pc \notin {"load", "load_page", "clone", "clone_page"}
  PROVE  CInv'
<1>1. CanRead'
  BY CanReadStep DEF CInv
<1> HIDE DEF HoldsImage, HoldsCopy, CanRead
<1> QED BY <1>1 DEF CInv

\* The file is there: what the program sees is in its pages.
LEMMA LoadDoneImplements ==
  ASSUME NEW N, NEW g, NEW d, Sound(N, g, d), CInv, LoadDone
  PROVE  Implements
<1>1. Struct(N, g, d) /\ CallOK(N, d) /\ Types /\ call.pc = "load"
  BY DEF Sound, LoadDone, Struct
<1>2. All(d)
  BY <1>1, CallCases
<1>3. PICK t \in live, k \in 1..(Len(Segments) + 1) : LoadAt(N, t, k)
  BY <1>1, CallCases
<1>4. call = Load(t, k) /\ Loaded(N, t, k - 1) /\ \A i \in 1..(k - 1) : Full(N, t, i)
  BY <1>3 DEF LoadAt
<1>5. UNCHANGED <<heap, table, live>> /\ call' = User /\ k > Len(Segments) /\ call.task = t
  BY <1>4 DEF LoadDone, Load
<1>6. t \in Task /\ call'.pc = "user"
  BY <1>1, <1>5 DEF Types, User
<1>7. /\ k - 1 = Len(Segments) /\ Len(Segments) = Len(Program) + 1 /\ Len(Program) \in Nat
      /\ Len(N[t]) = Len(Segments) /\ Idx(N, d, t) = 1..Len(Segments)
  <2>1. Len(Segments) \in Nat /\ Len(Segments) = Len(Program) + 1 /\ Len(Program) \in Nat
    BY SegmentFacts
  <2>2. k - 1 = Len(Segments)
    BY <1>5, <2>1
  <2> QED BY <1>1, <1>2, <1>4, <1>6, <2>1, <2>2, AllFacts DEF Loaded
<1>8. \A i \in 1..Len(Segments) :
        Mapped(N, t, i) = Segments[i].va..(Segments[i].va + Segments[i].n_pages - 1)
  <2> TAKE i \in 1..Len(Segments)
  <2>1. /\ Ar(N, t, i).va = Segments[i].va /\ Ar(N, t, i).n_pages = Segments[i].n_pages
        /\ Len(Pages(N, t, i)) = Ar(N, t, i).n_pages
    BY <1>4, <1>7 DEF Loaded, Full
  <2> HIDE DEF Segments, Ar, Pages
  <2> QED BY <2>1 DEF Mapped
<1>9. ASSUME NEW v \in UPage, table[t][v] = None PROVE FileImage[v] = None
  <2>1. \A i \in 1..Len(Segments) : v \notin Mapped(N, t, i)
    <3> TAKE i \in 1..Len(Segments)
    <3>1. TableAt(N, t, i)
      BY <1>1, <1>6, <1>7 DEF Struct
    <3> HIDE DEF Mapped
    <3> QED BY <1>9, <3>1 DEF TableAt
  <2>2. v # USERSTACK - 1
    <3>1. Segments[Len(Segments)] = [va |-> USERSTACK - 1, n_pages |-> 1,
                                     flags |-> {"r", "w", "STACK"}]
      BY <1>7, SegmentFacts
    <3>2. Segments[Len(Segments)].va = USERSTACK - 1 /\ Segments[Len(Segments)].n_pages = 1
      BY <3>1
    <3>3. Mapped(N, t, Len(Segments)) = (USERSTACK - 1)..(USERSTACK - 1 + 1 - 1)
      BY <1>7, <1>8, <3>2
    <3>4. Len(Segments) \in 1..Len(Segments)
      BY <1>7
    <3>5. v \notin (USERSTACK - 1)..(USERSTACK - 1 + 1 - 1)
      BY <2>1, <3>3, <3>4
    <3>6. v \in Int /\ USERSTACK \in Int
      BY MemoryAssumption DEF UPage
    <3> QED BY <3>5, <3>6
  <2>3. \A i \in 1..Len(Program) : v \notin Program[i].va..(Program[i].va + Program[i].n_pages - 1)
    <3> TAKE i \in 1..Len(Program)
    <3>1. i \in 1..Len(Segments) /\ Segments[i] = Program[i]
      BY <1>7, SegmentFacts
    <3> HIDE DEF Segments, Mapped
    <3> QED BY <1>8, <2>1, <3>1
  <2> QED BY <2>2, <2>3 DEF FileImage
<1>10. HoldsImage(t)
  BY <1>1, <1>5 DEF CInv
<1>11. Memories'[t] = Memories[t]
  <2>1. Memories[t] = FileImage
    BY <1>1, <1>3, <1>5, <1>6, MemoriesAt DEF Loads, Exits
  <2>2. Memories'[t] = [v \in UPage |->
                          IF table[t][v] # None THEN heap[table[t][v].frame].data ELSE None]
    BY <1>3, <1>5, <1>6, MemoriesNext
  <2>3. \A v \in UPage :
          (IF table[t][v] # None THEN heap[table[t][v].frame].data ELSE None) = FileImage[v]
    BY <1>9, <1>10 DEF HoldsImage
  <2>4. FileImage = [v \in UPage |-> FileImage[v]]
    BY DEF FileImage
  <2> HIDE DEF FileImage, UPage
  <2> QED BY <2>1, <2>2, <2>3, <2>4
<1>12. UNCHANGED Memories
  <2>1. \A u \in Task : u # t => Memories'[u] = Memories[u]
    <3>1. \A u \in Task : u # t => Kept(u) /\ (u \in live' <=> u \in live)
      BY <1>5 DEF Kept
    <3> QED BY <1>5, <1>6, <3>1, OthersStay
  <2> QED BY <1>11, <2>1, MemoriesAt, MemoriesNext
<1>13. CInv'
  BY <1>5, <1>6, CInvStays
<1> QED BY <1>12, <1>13 DEF Implements

\* A copy of all areas is a copy of what the parent sees.
LEMMA CloneDoneImplements ==
  ASSUME NEW N, NEW g, NEW d, Sound(N, g, d), CInv, CloneDone
  PROVE  Implements
<1>1. Struct(N, g, d) /\ Tasks(N) /\ CallOK(N, d) /\ Types /\ call.pc = "clone"
  BY DEF Sound, CloneDone, Struct
<1>2. All(d)
  BY <1>1, CallCases
<1>3. PICK t \in live, c \in Task : CloneAt(N, t, c)
  BY <1>1, CallCases
<1>4. /\ call = [pc |-> "clone", task |-> t, child |-> c, node |-> At(N[t], Len(N[c]) + 1)]
      /\ c \notin live /\ Copied(N, t, c) /\ \A i \in 1..Len(N[c]) : Full(N, c, i)
  BY <1>3 DEF CloneAt
<1>5. t \in Task /\ t # c
  BY <1>1, <1>4 DEF Types
<1>6. /\ call.task = t /\ call.child = c /\ call.node = At(N[t], Len(N[c]) + 1)
  <2> HIDE DEF At
  <2> QED BY <1>4
<1>7. /\ UNCHANGED <<heap, table>> /\ live' = live \cup {c} /\ call'.pc = "user"
      /\ At(N[t], Len(N[c]) + 1) = NULL
  BY <1>6 DEF CloneDone, User
<1>8. /\ Len(N[c]) = Len(N[t]) /\ Len(N[t]) \in Nat
      /\ Idx(N, d, c) = 1..Len(N[t]) /\ Idx(N, d, t) = 1..Len(N[t])
  <2>1. Len(N[c]) \in Nat /\ Len(N[t]) \in Nat /\ N[t] \in Seq(Page) /\ Len(N[c]) <= Len(N[t])
    BY <1>1, <1>4, <1>5 DEF Struct, Ghosts, Copied
  <2>2. \A i \in 1..Len(N[t]) : N[t][i] # NULL
    BY <2>1, MemoryAssumption
  <2>3. ~(Len(N[c]) + 1 \in 1..Len(N[t]))
    BY <1>7, <2>2 DEF At
  <2> QED BY <1>1, <1>2, <1>5, <2>1, <2>3, AllFacts
<1>9. t \in Whole /\ Complete(N, t)
  BY <1>1, WholeIs DEF Tasks
<1>10. \A i \in 1..Len(N[t]) : Mapped(N, c, i) = Mapped(N, t, i)
  <2> TAKE i \in 1..Len(N[t])
  <2>1. /\ Ar(N, c, i).va = Ar(N, t, i).va /\ Ar(N, c, i).n_pages = Ar(N, t, i).n_pages
        /\ Len(Pages(N, c, i)) = Ar(N, c, i).n_pages
        /\ Len(Pages(N, t, i)) = Ar(N, t, i).n_pages
    BY <1>4, <1>8, <1>9 DEF Copied, Full, Complete
  <2> HIDE DEF Ar, Pages
  <2> QED BY <2>1 DEF Mapped
<1>11. ASSUME NEW v \in UPage, table[t][v] # None PROVE table[c][v] # None
  <2>1. PICK i \in 1..Len(N[t]) : v \in Mapped(N, t, i)
    BY <1>1, <1>2, <1>5, <1>11 DEF Struct, TableOf, All
  <2>2. TableAt(N, c, i)
    BY <1>1, <1>8 DEF Struct
  <2> HIDE DEF Mapped
  <2> QED BY <1>10, <2>1, <2>2 DEF TableAt
<1>12. HoldsCopy(t, c)
  BY <1>1, <1>6 DEF CInv
<1>13. /\ Memories[c] = None
       /\ Memories[t] # None
       /\ Memories[t] = [v \in UPage |->
                           IF table[t][v] # None THEN heap[table[t][v].frame].data ELSE None]
  <2>1. Memories[t] = [v \in UPage |-> Contents(t, v)] /\ Memories[t] # None
    BY <1>9, MemoryType
  <2>2. \A v \in UPage : Contents(t, v) = IF table[t][v] # None THEN heap[table[t][v].frame].data
                                          ELSE None
    BY <1>1 DEF Contents, Grown
  <2>3. Memories[c] = None
    BY <1>4, MemoriesAt
  <2> HIDE DEF UPage
  <2> QED BY <2>1, <2>2, <2>3
<1>14. Memories'[c] = Memories[t]
  <2>1. Memories'[c] = [v \in UPage |->
                          IF table[c][v] # None THEN heap[table[c][v].frame].data ELSE None]
    BY <1>7, MemoriesNext
  <2>2. \A v \in UPage :
          (IF table[c][v] # None THEN heap[table[c][v].frame].data ELSE None)
          = (IF table[t][v] # None THEN heap[table[t][v].frame].data ELSE None)
    BY <1>11, <1>12 DEF HoldsCopy
  <2> HIDE DEF UPage
  <2> QED BY <1>13, <2>1, <2>2
<1>15. \A u \in Task : u # c => Memories'[u] = Memories[u]
  <2>1. \A u \in Task : u # c => Kept(u) /\ (u \in live' <=> u \in live)
    BY <1>7 DEF Kept
  <2> QED BY <1>1, <1>7, <2>1, OthersStay
<1>16. M!Next
  <2>1. Memories' = [Memories EXCEPT ![c] = Memories[t]]
    BY <1>14, <1>15, MemoriesAt, MemoriesNext
  <2>2. M!Fork(t)
    BY <1>13, <2>1 DEF M!Fork
  <2> QED BY <1>5, <1>13, <2>2 DEF M!Next
<1>17. CInv'
  BY <1>7, CInvStays
<1> QED BY <1>16, <1>17 DEF Implements

\* A page is cleared where the program sees one that is.
LEMMA GrowPageImplements ==
  ASSUME NEW N, NEW g, NEW d, Sound(N, g, d), CInv, GrowPage
  PROVE  Implements
<1>1. Struct(N, g, d) /\ CallOK(N, d) /\ Types /\ call.pc = "grow"
  BY DEF Sound, GrowPage, Struct
<1>2. PICK t \in live : t = call.task
  <2>1. PICK t \in live, page \in USERSTACKMIN..(USERSTACK - 1) : GrowAt(N, t, page)
    BY <1>1, CallCases
  <2>2. call.task = t
    <3> HIDE DEF Ref
    <3> QED BY <2>1 DEF GrowAt
  <2> QED BY <2>2
<1>3. t \in Task
  BY <1>1 DEF Types
<1>4. CASE Stays
  BY <1>4, StaysImplements
<1>5. CASE ~Stays
  <2>1. PICK v : v >= call.page /\ Filled(t, v, Zero, Permission)
    BY <1>2, <1>5, GrowPageStep
  <2>2. call' = call /\ live' = live /\ \A u \in Task : u # t => Kept(u)
    BY <2>1 DEF Filled
  <2>3. Memories'[t] = Memories[t]
    <3>1. Memories[t] = [w \in UPage |->
               IF table[t][w] # None THEN heap[table[t][w].frame].data
               ELSE IF w >= call.page THEN Zero ELSE None]
      BY <1>1, <1>2, <1>3, MemoriesAt DEF Loads, Exits, Contents, Grown
    <3>2. Memories'[t] = [w \in UPage |->
               IF table'[t][w] # None THEN heap'[table'[t][w].frame].data
               ELSE IF w >= call.page THEN Zero ELSE None]
      BY <1>1, <1>2, <1>3, <2>2, MemoriesNext
    <3>3. \A w \in UPage :
            (IF table'[t][w] # None THEN heap'[table'[t][w].frame].data
             ELSE IF w >= call.page THEN Zero ELSE None)
            = (IF table[t][w] # None THEN heap[table[t][w].frame].data
               ELSE IF w >= call.page THEN Zero ELSE None)
      <4> TAKE w \in UPage
      <4>1. CASE w = v
        BY <2>1, <4>1 DEF Filled
      <4>2. CASE w # v
        <5>1. /\ table'[t][w] = table[t][w]
              /\ table[t][w] # None => heap'[table[t][w].frame] = heap[table[t][w].frame]
          BY <2>1, <4>2 DEF Filled
        <5> QED BY <5>1
      <4> QED BY <4>1, <4>2
    <3> HIDE DEF UPage
    <3> QED BY <3>1, <3>2, <3>3
  <2>4. UNCHANGED Memories
    <3>1. \A u \in Task : u # t => Memories'[u] = Memories[u]
      BY <1>2, <1>3, <2>2, OthersStay
    <3> QED BY <2>3, <3>1, MemoriesAt, MemoriesNext
  <2>5. CInv'
    <3>1. CanRead'
      <4>1. \A u \in Task : \A w \in UPage :
              table'[u][w] = table[u][w] \/ "r" \in table'[u][w].flags
        BY <2>1 DEF Filled, Kept, Permission
      <4> QED BY <4>1, CanReadStep DEF CInv
    <3>2. call'.pc = "grow"
      BY <1>1, <2>2
    <3> HIDE DEF HoldsImage, HoldsCopy, CanRead
    <3> QED BY <3>1, <3>2 DEF CInv
  <2> QED BY <2>4, <2>5 DEF Implements
<1> QED BY <1>4, <1>5

\* The pages of the stack are in the table.
LEMMA StackMapped ==
  ASSUME NEW N, NEW g, NEW d, Struct(N, g, d), NEW t \in Task, d[t] = 0, Complete(N, t),
         NEW v \in UPage, v >= Ar(N, t, Len(N[t])).va
  PROVE  table[t][v] # None
<1> DEFINE n == Len(N[t])
<1>1. n \in Idx(N, d, t)
  BY DEF Struct, Ghosts, Complete, Idx
<1>2. AreaAt(N, g, t, n) /\ TableAt(N, t, n)
  BY <1>1 DEF Struct
<1>3. /\ Ar(N, t, n).va \in Nat /\ Ar(N, t, n).n_pages \in Nat
      /\ Len(Pages(N, t, n)) = Ar(N, t, n).n_pages
      /\ Ar(N, t, n).va + Ar(N, t, n).n_pages = USERSTACK
  <2>1. /\ Len(Pages(N, t, n)) = Ar(N, t, n).n_pages
        /\ Ar(N, t, n).va + Ar(N, t, n).n_pages = USERSTACK
    <3>1. n \in 1..n
      BY DEF Struct, Ghosts, Complete
    <3> QED BY <3>1 DEF Complete, Full, End
  <2> HIDE DEF n, Ar, Pages
  <2> QED BY <1>2, <2>1 DEF AreaAt, Area
<1>4. v \in Mapped(N, t, n)
  <2>1. v \in 0..(USERSTACK - 1)
    BY DEF UPage
  <2> HIDE DEF n, Ar, Pages
  <2> QED BY <1>3, <2>1, MemoryAssumption DEF Mapped, n
<1> HIDE DEF n, Mapped
<1> QED BY <1>2, <1>4 DEF TableAt

LEMMA GrowDoneImplements ==
  ASSUME NEW N, NEW g, NEW d, Sound(N, g, d), CInv, GrowDone
  PROVE  Implements
<1>1. Struct(N, g, d) /\ Tasks(N) /\ CallOK(N, d) /\ Types /\ call.pc = "grow"
  BY DEF Sound, GrowDone, Struct
<1>2. PICK t \in live, page \in USERSTACKMIN..(USERSTACK - 1) : GrowAt(N, t, page)
  BY <1>1, CallCases
<1>3. /\ call.task = t /\ call.page = page /\ call.area = Ref(N, t, Len(N[t]))
  <2> HIDE DEF Ref
  <2> QED BY <1>2 DEF GrowAt
<1>4. /\ t \in Task /\ d[t] = 0 /\ Complete(N, t)
  <2>1. t \in Whole
    BY <1>1, WholeIs
  <2> QED BY <2>1, <1>1, WholeFacts DEF Sound
<1>5. /\ UNCHANGED <<heap, table, live>> /\ call'.pc = "user"
      /\ Ar(N, t, Len(N[t])).va <= page
  BY <1>3 DEF GrowDone, User, Ar
<1>6. Memories'[t] = Memories[t]
  <2>1. Memories[t] = [w \in UPage |->
             IF table[t][w] # None THEN heap[table[t][w].frame].data
             ELSE IF w >= page THEN Zero ELSE None]
    BY <1>1, <1>3, <1>4, MemoriesAt DEF Loads, Exits, Contents, Grown
  <2>2. Memories'[t] = [w \in UPage |->
             IF table[t][w] # None THEN heap[table[t][w].frame].data ELSE None]
    BY <1>4, <1>5, MemoriesNext
  <2>3. \A w \in UPage : w >= page => table[t][w] # None
    <3> TAKE w \in UPage
    <3> HAVE w >= page
    <3>1. Ar(N, t, Len(N[t])).va \in Nat /\ w \in Int /\ page \in Int
      <4>1. Len(N[t]) \in Idx(N, d, t)
        BY <1>1, <1>4 DEF Struct, Ghosts, Complete, Idx
      <4>2. AreaAt(N, g, t, Len(N[t]))
        BY <1>1, <1>4, <4>1 DEF Struct
      <4> QED BY <4>2, MemoryAssumption DEF AreaAt, Area, UPage
    <3>2. w >= Ar(N, t, Len(N[t])).va
      BY <1>5, <3>1
    <3> QED BY <1>1, <1>4, <3>2, StackMapped
  <2> HIDE DEF UPage
  <2> QED BY <2>1, <2>2, <2>3
<1>7. UNCHANGED Memories
  <2>1. \A u \in Task : u # t => Memories'[u] = Memories[u]
    <3>1. \A u \in Task : u # t => Kept(u) /\ (u \in live' <=> u \in live)
      BY <1>5 DEF Kept
    <3> QED BY <1>3, <1>4, <1>5, <3>1, OthersStay
  <2> QED BY <1>6, <2>1, MemoriesAt, MemoriesNext
<1>8. CInv'
  BY <1>5, CInvStays
<1> QED BY <1>7, <1>8 DEF Implements

\* Of a program that runs.
LEMMA RunsMemory ==
  ASSUME NEW N, NEW g, NEW d, Sound(N, g, d), NEW t, Runs(t)
  PROVE  /\ t \in Task /\ t \in live /\ call.pc = "user" /\ Memories[t] # None
         /\ \A v \in UPage : table[t][v] = None => Memories[t][v] = None
         /\ Memories[t] = [v \in UPage |->
              IF table[t][v] # None THEN heap[table[t][v].frame].data ELSE None]
<1>1. t \in Task /\ t \in live /\ call.pc = "user" /\ t \in Whole
  BY RunsFacts DEF Runs
<1>2. Memories[t] = [v \in UPage |-> Contents(t, v)] /\ Memories[t] # None
  BY <1>1, MemoryType
<1>3. \A v \in UPage : Contents(t, v) = IF table[t][v] # None THEN heap[table[t][v].frame].data
                                        ELSE None
  BY <1>1 DEF Contents, Grown
<1> HIDE DEF UPage
<1> QED BY <1>1, <1>2, <1>3

LEMMA UserWriteImplements ==
  ASSUME NEW N, NEW g, NEW d, Sound(N, g, d), CInv, NEW t, NEW va \in UPage, UserWrite(t, va)
  PROVE  Implements
<1>1. /\ Runs(t) /\ table[t][va] # None
      /\ UNCHANGED <<table, live, call>>
  BY DEF UserWrite, Allowed
<1>2. PICK x \in Written : heap' = [heap EXCEPT ![table[t][va].frame] = Frame(x)]
  BY DEF UserWrite
<1>3. /\ Struct(N, g, d) /\ Types /\ All(d) /\ t \in Task /\ t \in live /\ Whole = live
      /\ live \subseteq Task /\ call.pc = "user"
      /\ \A u \in Task \ live : table[u] = Empty
  BY <1>1, RunsFacts DEF Types, Runs
<1>4. \A u \in Task : d[u] = 0
  BY <1>3 DEF All
<1>5. table[t][va].frame \in Page /\ heap = [p \in Page |-> heap[p]]
  BY <1>1, <1>3, <1>4, EntryFacts DEF Types
<1>6. heap'[table[t][va].frame].data = x
  BY <1>2, <1>5 DEF Frame
<1>7. ASSUME NEW u \in Task, NEW w \in UPage, table[u][w] # None, ~(u = t /\ w = va)
      PROVE  heap'[table[u][w].frame] = heap[table[u][w].frame]
  <2>1. table[u][w].frame # table[t][va].frame
    BY <1>1, <1>3, <1>4, <1>7, OneEntry
  <2>2. table[u][w].frame \in Page
    BY <1>3, <1>4, <1>7, EntryFacts
  <2> QED BY <1>2, <1>5, <2>1, <2>2
<1>8. /\ Memories[t] # None
      /\ Memories[t] = [v \in UPage |->
           IF table[t][v] # None THEN heap[table[t][v].frame].data ELSE None]
  BY <1>1, RunsMemory
<1>9. Memories'[t] = [v \in UPage |->
        IF table[t][v] # None THEN heap'[table[t][v].frame].data ELSE None]
  BY <1>1, <1>3, MemoriesNext
<1>10. Memories'[t] = [Memories[t] EXCEPT ![va] = x]
  <2>1. \A v \in UPage :
          (IF table[t][v] # None THEN heap'[table[t][v].frame].data ELSE None)
          = IF v = va THEN x
            ELSE IF table[t][v] # None THEN heap[table[t][v].frame].data ELSE None
    BY <1>1, <1>3, <1>6, <1>7
  <2> HIDE DEF UPage
  <2> QED BY <1>8, <1>9, <2>1
<1>11. \A u \in Task : u # t => Memories'[u] = Memories[u]
  <2>1. \A u \in Task : u # t => Kept(u) /\ (u \in live' <=> u \in live)
    BY <1>1, <1>7 DEF Kept
  <2> QED BY <1>1, <1>3, <2>1, OthersStay
<1>12. Memories' = [Memories EXCEPT ![t][va] = x]
  <2>1. Memories' = [Memories EXCEPT ![t] = [Memories[t] EXCEPT ![va] = x]]
    BY <1>3, <1>10, <1>11, MemoriesAt, MemoriesNext
  <2> QED BY <2>1
<1>13. M!Next
  <2>1. Memories[t][va] # None
    <3>1. heap[table[t][va].frame] \in [data : Data]
      BY <1>1, <1>3, <1>4, EntryFacts
    <3>2. heap[table[t][va].frame].data \in Data
      <4> HIDE DEF Data
      <4> QED BY <3>1
    <3>3. Memories[t][va] = heap[table[t][va].frame].data
      BY <1>1, <1>8
    <3> QED BY <3>2, <3>3, MemoryAssumption
  <2>2. M!Write(t, va)
    BY <1>12, <2>1 DEF M!Write
  <2> QED BY <1>3, <1>8, <2>2 DEF M!Next
<1>14. CInv'
  BY <1>1, <1>3, CInvStays
<1> QED BY <1>13, <1>14 DEF Implements

LEMMA ExecveImplements ==
  ASSUME NEW N, NEW g, NEW d, Sound(N, g, d), CInv, NEW t, Execve(t)
  PROVE  Implements
<1>1. CASE ~Room
  BY <1>1, StaysImplements DEF Execve, panic, Stays
<1>2. CASE Room
  <2>1. /\ Runs(t) /\ UNCHANGED <<heap, table, live>>
        /\ call' = [pc |-> "exec", task |-> t, node |-> areas[t].first]
    BY <1>2 DEF Execve
  <2>2. call'.pc = "exec" /\ call'.task = t
    BY <2>1
  <2>3. t \in Task /\ t \in live /\ call.pc = "user" /\ Memories[t] # None
    BY <2>1, RunsMemory
  <2>4. Memories'[t] = FileImage
    BY <2>1, <2>2, <2>3, MemoriesNext
  <2>5. \A u \in Task : u # t => Memories'[u] = Memories[u]
    <3>1. \A u \in Task : u # t => Kept(u) /\ (u \in live' <=> u \in live)
      BY <2>1 DEF Kept
    <3> QED BY <2>2, <2>3, <3>1, OthersStay
  <2>6. M!Next
    <3>1. Memories' = [Memories EXCEPT ![t] = FileImage]
      <4> HIDE DEF FileImage
      <4> QED BY <2>3, <2>4, <2>5, MemoriesAt, MemoriesNext
    <3>2. M!Execve(t)
      BY <3>1 DEF M!Execve
    <3> QED BY <2>3, <3>2 DEF M!Next
  <2>7. CInv'
    BY <2>1, <2>2, CInvStays
  <2> QED BY <2>6, <2>7 DEF Implements
<1> QED BY <1>1, <1>2

LEMMA DestroyImplements ==
  ASSUME NEW N, NEW g, NEW d, Sound(N, g, d), CInv, NEW t, Runs(t), Destroy(t)
  PROVE  Implements
<1>1. CASE t = 1
  BY <1>1, StaysImplements DEF Destroy, panic, Stays
<1>2. CASE t # 1
  <2>1. /\ UNCHANGED <<heap, table, live>>
        /\ call' = [pc |-> "exit", task |-> t, node |-> areas[t].first]
    BY <1>2 DEF Destroy
  <2>2. call'.pc = "exit" /\ call'.task = t
    BY <2>1
  <2>3. t \in Task /\ t \in live /\ call.pc = "user" /\ Memories[t] # None
    BY RunsMemory
  <2>4. Memories'[t] = None
    BY <2>2, <2>3, MemoriesNext
  <2>5. \A u \in Task : u # t => Memories'[u] = Memories[u]
    <3>1. \A u \in Task : u # t => Kept(u) /\ (u \in live' <=> u \in live)
      BY <2>1 DEF Kept
    <3> QED BY <2>2, <2>3, <3>1, OthersStay
  <2>6. M!Next
    <3>1. Memories' = [Memories EXCEPT ![t] = None]
      BY <2>3, <2>4, <2>5, MemoriesAt, MemoriesNext
    <3>2. M!Exit(t)
      BY <1>2, <3>1 DEF M!Exit
    <3> QED BY <2>3, <3>2 DEF M!Next
  <2>7. CInv'
    BY <2>1, <2>2, CInvStays
  <2> QED BY <2>6, <2>7 DEF Implements
<1> QED BY <1>1, <1>2

\* The search finds the stack only for a page that is not there.
LEMMA FoundUnmapped ==
  ASSUME NEW N, NEW g, NEW d, Struct(N, g, d), NEW t \in Task, d[t] = 0, Complete(N, t),
         NEW addr \in Addr, addr >= USERSTACKMIN * PAGE_SIZE,
         vm_find_stack(t, addr) # NULL, addr \div PAGE_SIZE >= USERSTACKMIN
  PROVE  table[t][addr \div PAGE_SIZE] = None
<1> DEFINE n == Len(N[t])
           page == addr \div PAGE_SIZE
<1>1. n \in Nat /\ n \in 1..n /\ Idx(N, d, t) = 1..n
      /\ \A i \in 1..n : i # n => i \in 1..(n - 1)
  BY DEF Struct, Ghosts, Idx, Complete
<1>2. \A i \in 1..n : AreaAt(N, g, t, i) /\ TableAt(N, t, i)
  BY <1>1 DEF Struct
<1>3. \A i \in 1..n : /\ Ar(N, t, i).va \in Nat /\ Ar(N, t, i).n_pages \in Nat
                      /\ Len(Pages(N, t, i)) = Ar(N, t, i).n_pages
  <2> TAKE i \in 1..n
  <2>1. AreaAt(N, g, t, i) /\ Full(N, t, i)
    BY <1>2 DEF Complete
  <2> HIDE DEF Ar, Pages
  <2> QED BY <2>1 DEF AreaAt, Area, Full
<1>4. Ar(N, t, n).va * PAGE_SIZE > addr
  BY FindStack
<1>5. page \in UPage /\ page * PAGE_SIZE <= addr /\ addr \in Int /\ page \in Int
  BY PageOf DEF UPage
<1>6. page < Ar(N, t, n).va
  <2> HIDE DEF page, n, Ar
  <2>1. Ar(N, t, n).va \in Int
    BY <1>1, <1>3
  <2>2. Ar(N, t, n).va <= page => Ar(N, t, n).va * PAGE_SIZE <= page * PAGE_SIZE
    BY <1>5, <2>1, Times
  <2>3. Ar(N, t, n).va * PAGE_SIZE \in Int /\ page * PAGE_SIZE \in Int
    BY <1>5, <2>1, Times
  <2>4. \A a, b, c \in Int : a > b /\ c <= b => ~(a <= c)
    OBVIOUS
  <2>5. ~(Ar(N, t, n).va * PAGE_SIZE <= page * PAGE_SIZE)
    BY <1>4, <1>5, <2>3, <2>4
  <2> QED BY <1>5, <2>1, <2>2, <2>5
<1>7. \A i \in 1..n : page \notin Mapped(N, t, i)
  <2> TAKE i \in 1..n
  <2> HIDE DEF page, n
  <2>1. CASE i = n
    <3> HIDE DEF Ar, Pages
    <3>1. Mapped(N, t, i) = Ar(N, t, n).va..(Ar(N, t, n).va + Len(Pages(N, t, n)) - 1)
      BY <2>1 DEF Mapped
    <3>2. \A a, b, c \in Int : c < a => c \notin a..b
      OBVIOUS
    <3>3. Ar(N, t, n).va \in Int /\ Ar(N, t, n).va + Len(Pages(N, t, n)) - 1 \in Int
      BY <1>1, <1>3
    <3> QED BY <1>5, <1>6, <3>1, <3>2, <3>3
  <2>2. CASE i # n
    <3>1. End(N, t, i) < USERSTACKMIN
      BY <1>1, <2>2 DEF Complete, n
    <3>2. Ar(N, t, i).va + Ar(N, t, i).n_pages < USERSTACKMIN
      BY <3>1 DEF End
    <3>3. page >= USERSTACKMIN /\ USERSTACKMIN \in Nat
      BY MemoryAssumption DEF page
    <3> HIDE DEF Ar, Pages
    <3> QED BY <1>3, <1>5, <3>2, <3>3 DEF Mapped
  <2> QED BY <2>1, <2>2
<1>8. TableOf(N, t)
  BY DEF Struct
<1> HIDE DEF page, n, Mapped
<1>9. table[t][page] = None
  BY <1>5, <1>7, <1>8 DEF TableOf, n
<1> QED BY <1>9 DEF page

\* The fault is where the program sees the stack grow.
LEMMA UserFaultImplements ==
  ASSUME NEW N, NEW g, NEW d, Sound(N, g, d), CInv,
         NEW t \in Task, NEW addr \in Addr, NEW access, UserFault(t, addr, access)
  PROVE  Implements
<1>1. PICK page : page = addr \div PAGE_SIZE
  OBVIOUS
<1>2. PICK area : area = IF page >= USERSTACKMIN THEN vm_find_stack(t, addr) ELSE NULL
  OBVIOUS
<1>3. /\ Runs(t)
      /\ area = NULL => Destroy(t)
      /\ area # NULL =>
           /\ call' = [pc |-> "grow", task |-> t, area |-> area, page |-> page]
           /\ UNCHANGED <<heap, table, live>>
  BY <1>1, <1>2 DEF UserFault
<1>4. CASE area = NULL
  BY <1>3, <1>4, DestroyImplements
<1>5. CASE area # NULL
  <2>1. /\ Struct(N, g, d) /\ d[t] = 0 /\ Complete(N, t)
    BY <1>3, RunsFacts DEF All
  <2>2. page >= USERSTACKMIN /\ vm_find_stack(t, addr) # NULL
    BY <1>2, <1>5
  <2>3. page \in UPage /\ page * PAGE_SIZE <= addr
    BY <1>1, PageOf
  <2>4. page \in USERSTACKMIN..(USERSTACK - 1)
    BY <2>2, <2>3, MemoryAssumption DEF UPage
  <2>5. addr >= USERSTACKMIN * PAGE_SIZE
    <3>1. page \in Int /\ USERSTACKMIN \in Int /\ addr \in Int
      BY <2>4, MemoryAssumption, PageOf
    <3>2. /\ USERSTACKMIN * PAGE_SIZE <= page * PAGE_SIZE
          /\ USERSTACKMIN * PAGE_SIZE \in Int /\ page * PAGE_SIZE \in Int
      BY <2>2, <3>1, Times
    <3> QED BY <2>3, <3>1, <3>2
  <2>6. table[t][page] = None
    BY <1>1, <2>1, <2>2, <2>5, FoundUnmapped
  <2>7. call'.pc = "grow" /\ call'.task = t /\ call'.page = page /\ UNCHANGED <<heap, table, live>>
    BY <1>3, <1>5
  <2>8. /\ t \in live /\ call.pc = "user" /\ Memories[t] # None /\ Memories[t][page] = None
        /\ Memories[t] = [v \in UPage |->
             IF table[t][v] # None THEN heap[table[t][v].frame].data ELSE None]
    BY <1>3, <2>3, <2>6, RunsMemory
  <2>9. Memories'[t] = [v \in UPage |->
             IF table[t][v] # None THEN heap[table[t][v].frame].data
             ELSE IF v >= page THEN Zero ELSE None]
    BY <2>7, <2>8, MemoriesNext
  <2>10. Memories'[t] = [w \in UPage |->
             IF w >= page /\ Memories[t][w] = None /\ w \in USERSTACKMIN..(USERSTACK - 1)
             THEN Zero ELSE Memories[t][w]]
    <3>1. ASSUME NEW w \in UPage
          PROVE  (IF table[t][w] # None THEN heap[table[t][w].frame].data
                  ELSE IF w >= page THEN Zero ELSE None)
                 = IF w >= page /\ Memories[t][w] = None /\ w \in USERSTACKMIN..(USERSTACK - 1)
                   THEN Zero ELSE Memories[t][w]
      <4>1. Memories[t][w] = IF table[t][w] # None THEN heap[table[t][w].frame].data ELSE None
        BY <2>8
      <4>2. CASE table[t][w] # None
        <5>1. heap[table[t][w].frame] \in [data : Data]
          BY <2>1, <4>2, EntryFacts
        <5>2. heap[table[t][w].frame].data \in Data
          <6> HIDE DEF Data
          <6> QED BY <5>1
        <5>3. Memories[t][w] # None
          BY <4>1, <4>2, <5>2, MemoryAssumption
        <5> QED BY <4>1, <4>2, <5>3
      <4>3. CASE table[t][w] = None
        <5>1. w >= page => w \in USERSTACKMIN..(USERSTACK - 1)
          BY <2>4, MemoryAssumption DEF UPage
        <5> QED BY <4>1, <4>3, <5>1
      <4> QED BY <4>2, <4>3
    <3> HIDE DEF UPage
    <3> QED BY <2>9, <3>1
  <2>11. \A u \in Task : u # t => Memories'[u] = Memories[u]
    <3>1. \A u \in Task : u # t => Kept(u) /\ (u \in live' <=> u \in live)
      BY <2>7 DEF Kept
    <3> QED BY <2>7, <2>8, <3>1, OthersStay
  <2>12. M!Next
    <3>1. Memories' = [Memories EXCEPT ![t] =
             [w \in UPage |->
                IF w >= page /\ Memories[t][w] = None /\ w \in USERSTACKMIN..(USERSTACK - 1)
                THEN Zero ELSE Memories[t][w]]]
      <4> HIDE DEF UPage
      <4> QED BY <2>10, <2>11, MemoriesAt, MemoriesNext
    <3>2. Memories' = [Memories EXCEPT ![t] =
             [w \in UPage |->
                IF w >= page /\ @[w] = None /\ w \in USERSTACKMIN..(USERSTACK - 1)
                THEN Zero ELSE @[w]]]
      BY <3>1
    <3>3. M!Touch(t, page)
      BY <2>4, <2>8, <3>2 DEF M!Touch
    <3> QED BY <2>3, <2>8, <3>3 DEF M!Next
  <2>13. CInv'
    BY <2>7, CInvStays
  <2> QED BY <2>12, <2>13 DEF Implements
<1> QED BY <1>4, <1>5

LEMMA InitImplements == Init => CInv /\ M!Init
<1> SUFFICES ASSUME Init PROVE CInv /\ M!Init
  OBVIOUS
<1>1. /\ live = {1} /\ 1 \in Task /\ call = Load(1, 1) /\ call.pc = "load" /\ call.task = 1
      /\ table = [t \in Task |-> Empty]
  BY MemoryAssumption DEF Init, Load
<1>2. \A t \in Task : \A v \in UPage : table[t][v] = None
  BY <1>1 DEF Empty
<1>3. CInv
  BY <1>1, <1>2 DEF CInv, HoldsImage, CanRead
<1>4. Memories = [t \in Task |-> IF t = 1 THEN FileImage ELSE None]
  BY <1>1 DEF Memories, Exits, Loads
<1> QED BY <1>3, <1>4 DEF M!Init

\* One step per action.
LEMMA NextImplements ==
  ASSUME Readable
  PROVE  IInv /\ CInv /\ [Next]_vars => CInv' /\ [M!Next]_Memories
<1> SUFFICES ASSUME IInv, CInv, [Next]_vars PROVE Implements
  BY DEF Implements
<1>1. PICK N, g, d : Sound(N, g, d)
  BY DEF IInv
<1>2. CASE UNCHANGED vars
  BY <1>1, <1>2, StaysImplements DEF vars, Stays
<1>3. CASE LoadArea
  BY <1>1, <1>3, LoadAreaImplements
<1>4. CASE LoadPage
  BY <1>1, <1>4, LoadPageImplements
<1>5. CASE LoadNext
  BY <1>1, <1>5, LoadNextImplements
<1>6. CASE LoadDone
  BY <1>1, <1>6, LoadDoneImplements
<1>7. CASE CloneArea
  BY <1>1, <1>7, CloneAreaImplements
<1>8. CASE ClonePage
  BY <1>1, <1>8, ClonePageImplements
<1>9. CASE CloneNext
  BY <1>1, <1>9, CloneNextImplements
<1>10. CASE CloneDone
  BY <1>1, <1>10, CloneDoneImplements
<1>11. CASE DecrefArea
  BY <1>1, <1>11, DecrefAreaImplements
<1>12. CASE DecrefDone
  BY <1>1, <1>12, DecrefDoneImplements
<1>13. CASE GrowPage
  BY <1>1, <1>13, GrowPageImplements
<1>14. CASE GrowDone
  BY <1>1, <1>14, GrowDoneImplements
<1>15. ASSUME NEW t \in Task, NEW va \in UPage, UserWrite(t, va) PROVE Implements
  BY <1>1, <1>15, UserWriteImplements
<1>16. ASSUME NEW t \in Task, Fork(t) PROVE Implements
  BY <1>1, <1>16, ForkImplements
<1>17. ASSUME NEW t \in Task, Execve(t) PROVE Implements
  BY <1>1, <1>17, ExecveImplements
<1>18. ASSUME NEW t \in Task, Exit(t) PROVE Implements
  BY <1>1, <1>18, DestroyImplements DEF Exit
<1>19. ASSUME NEW t \in Task, NEW addr \in Addr, NEW access \in {"r", "w"},
              UserFault(t, addr, access)
       PROVE  Implements
  BY <1>1, <1>19, UserFaultImplements
<1>20. CASE Halted
  BY <1>2, <1>20 DEF Halted
<1> QED BY <1>2, <1>3, <1>4, <1>5, <1>6, <1>7, <1>8, <1>9, <1>10, <1>11, <1>12, <1>13,
           <1>14, <1>15, <1>16, <1>17, <1>18, <1>19, <1>20 DEF Next

\* Every program sees a memory of its own, as UserMemory tells it (vm_clone,
\* load_elf, task_entry), when every segment of the file can be read: vm_clone
\* copies with copy_from_user, which fails at a page that cannot.
THEOREM MemoryRefinement == Readable => (Spec => ImplementsUserMemory)
<1> SUFFICES ASSUME Readable PROVE Spec => ImplementsUserMemory
  OBVIOUS
<1>1. Init => IInv /\ CInv /\ M!Init
  BY InitInv, InitImplements
<1>2. IInv /\ CInv /\ [Next]_vars => IInv' /\ CInv' /\ [M!Next]_Memories
  BY NextInv, NextImplements
<1> QED BY <1>1, <1>2, PTL DEF Spec, ImplementsUserMemory, M!Spec
=============================================================================
