--------------------------- MODULE UserArgsProofs ---------------------------
(***************************************************************************)
(* Proofs of what execve promises about its arguments, for all arguments,  *)
(* all sizes of pages and pointers, and any number of calls.               *)
(***************************************************************************)
EXTENDS UserArgsProps, TLAPS, WellFoundedInduction

-----------------------------------------------------------------------------
(* Induction and recursion over an interval                                *)

LEMMA LeastNat ==
  ASSUME NEW X \in SUBSET Nat, X # {}
  PROVE  \E x \in X : \A y \in X : x <= y
<1> DEFINE R == OpToRel(<, Nat)
<1>1. IsWellFoundedOn(R, Nat)
  BY NatLessThanWellFounded
<1>2. \A a, b \in Nat : <<a, b>> \in R <=> a < b
  BY DEF OpToRel
<1> HIDE DEF R
<1>3. PICK x \in X : \A y \in X : ~(<<y, x>> \in R)
  BY <1>1, WFMin, Zenon
<1>4. ASSUME NEW y \in X PROVE x <= y
  <2>1. ~(y < x)
    BY <1>2, <1>3
  <2>2. x \in Nat /\ y \in Nat
    OBVIOUS
  <2> QED BY <2>1, <2>2
<1> QED BY <1>4

LEMMA Induct ==
  ASSUME NEW N \in Nat, NEW X, 0 \in X,
         \A n \in 1..N : n - 1 \in X => n \in X
  PROVE  \A n \in 0..N : n \in X
<1> DEFINE Bad == {n \in 0..N : n \notin X}
<1> SUFFICES ASSUME Bad # {} PROVE FALSE
  OBVIOUS
<1>1. Bad \in SUBSET Nat
  OBVIOUS
<1>2. PICK n \in Bad : \A m \in Bad : n <= m
  BY <1>1, LeastNat
<1>3. n \in 1..N
  <2>1. n \in 0..N /\ n # 0
    BY <1>2
  <2> QED BY <2>1
<1>4. n - 1 \in 0..N /\ n - 1 \in Nat /\ ~(n <= n - 1)
  BY <1>3
<1>5. n - 1 \in X
  BY <1>2, <1>4
<1> QED BY <1>3, <1>5

\* A loop of N rounds that starts in s, where F[<<n, t>>] is round n in state t.
Run(f, N, s, F) == f[0] = s /\ \A n \in 1..N : f[n] = F[<<n, f[n - 1]>>]

\* It has a run.
LEMMA Iterate ==
  ASSUME NEW N \in Nat, NEW S, NEW s \in S, NEW F \in [(1..N) \X S -> S]
  PROVE  \E f \in [0..N -> S] : Run(f, N, s, F)
<1> DEFINE X == {m \in 0..N : \E f \in [0..m -> S] : Run(f, m, s, F)}
<1>1. 0 \in X
  <2> DEFINE g == [n \in 0..0 |-> s]
  <2>1. g \in [0..0 -> S] /\ Run(g, 0, s, F)
    BY DEF Run
  <2>2. 0 \in 0..N
    OBVIOUS
  <2> HIDE DEF g
  <2> QED BY <2>1, <2>2
<1>2. ASSUME NEW m \in 1..N, m - 1 \in X PROVE m \in X
  <2>1. PICK f \in [0..(m - 1) -> S] : Run(f, m - 1, s, F)
    BY <1>2
  <2> DEFINE g == [n \in 0..m |-> IF n = m THEN F[<<m, f[m - 1]>>] ELSE f[n]]
  <2>2. f[m - 1] \in S /\ F[<<m, f[m - 1]>>] \in S
    BY m - 1 \in 0..(m - 1)
  <2>3. g \in [0..m -> S]
    <3>1. \A n \in 0..m : n # m => n \in 0..(m - 1)
      OBVIOUS
    <3> QED BY <2>2, <3>1
  <2>4. Run(g, m, s, F)
    <3>1. g[0] = s
      BY <2>1 DEF Run
    <3>2. ASSUME NEW n \in 1..m PROVE g[n] = F[<<n, g[n - 1]>>]
      <4>1. n - 1 \in 0..m /\ n - 1 # m /\ n \in 0..m
        OBVIOUS
      <4>2. g[n - 1] = f[n - 1]
        BY <4>1
      <4>3. CASE n = m
        BY <4>1, <4>2, <4>3
      <4>4. CASE n # m
        <5>1. n \in 1..(m - 1)
          BY <4>4
        <5>2. f[n] = F[<<n, f[n - 1]>>]
          BY <2>1, <5>1 DEF Run
        <5> QED BY <4>1, <4>2, <4>4, <5>2
      <4> QED BY <4>3, <4>4
    <3> QED BY <3>1, <3>2 DEF Run
  <2> HIDE DEF g
  <2> QED BY <2>3, <2>4
<1>3. N \in X
  <2> HIDE DEF X
  <2>1. \A n \in 0..N : n \in X
    BY <1>1, <1>2, Induct
  <2> QED BY <2>1
<1> QED BY <1>3

-----------------------------------------------------------------------------
(* The sizes of lists                                                      *)

LEMMA SizesRec ==
  ASSUME NEW strings \in Seq(String)
  PROVE  /\ sizes(strings) \in [0..Len(strings) -> Nat]
         /\ sizes(strings)[0] = 0
         /\ \A n \in 1..Len(strings) :
              sizes(strings)[n] = sizes(strings)[n - 1] + Len(strings[n]) + 1
<1> DEFINE N == Len(strings)
           F == [p \in (1..N) \X Nat |-> p[2] + Len(strings[p[1]]) + 1]
           Is(f) == f = [n \in 0..N |-> IF n = 0 THEN 0 ELSE f[n - 1] + Len(strings[n]) + 1]
<1>1. N \in Nat /\ \A n \in 1..N : strings[n] \in String /\ Len(strings[n]) \in Nat
  BY DEF String
<1>2. F \in [(1..N) \X Nat -> Nat]
  BY <1>1
<1>3. PICK f \in [0..N -> Nat] :
        f[0] = 0 /\ \A n \in 1..N : f[n] = F[<<n, f[n - 1]>>]
  <2>1. 0 \in Nat /\ N \in Nat
    BY <1>1
  <2> HIDE DEF F, N
  <2>2. \E f \in [0..N -> Nat] : Run(f, N, 0, F)
    BY <1>2, <2>1, Iterate, Zenon
  <2> QED BY <2>2 DEF Run
<1>4. \A n \in 1..N : f[n - 1] \in Nat /\ f[n] = f[n - 1] + Len(strings[n]) + 1
  <2> TAKE n \in 1..N
  <2>1. n - 1 \in 0..N
    BY <1>1
  <2> QED BY <1>3, <2>1
<1>5. Is(f)
  <2>1. f = [n \in 0..N |-> f[n]]
    BY <1>3
  <2>2. \A n \in 0..N : f[n] = IF n = 0 THEN 0 ELSE f[n - 1] + Len(strings[n]) + 1
    <3> TAKE n \in 0..N
    <3>1. n # 0 => n \in 1..N
      BY <1>1
    <3> QED BY <1>3, <1>4, <3>1
  <2> QED BY <2>1, <2>2
<1>6. sizes(strings) = CHOOSE g : Is(g)
  BY DEF sizes
<1>7. Is(sizes(strings))
  <2> HIDE DEF Is
  <2> QED BY <1>5, <1>6
<1> DEFINE z == sizes(strings)
<1>8. /\ DOMAIN z = 0..N /\ z[0] = 0
      /\ \A n \in 1..N : z[n] = z[n - 1] + Len(strings[n]) + 1
  <2>1. 0 \in 0..N /\ \A n \in 1..N : n \in 0..N /\ n # 0
    BY <1>1
  <2> HIDE DEF z, N
  <2>2. z = [n \in 0..N |-> IF n = 0 THEN 0 ELSE z[n - 1] + Len(strings[n]) + 1]
    BY <1>7 DEF z, N
  <2> QED BY <2>1, <2>2
<1> HIDE DEF z
<1>9. \A n \in 0..N : z[n] \in Nat
  <2> DEFINE X == {n \in 0..N : z[n] \in Nat}
  <2>1. 0 \in X
    BY <1>1, <1>8
  <2>2. \A n \in 1..N : n - 1 \in X => n \in X
    BY <1>1, <1>8
  <2>3. \A n \in 0..N : n \in X
    <3> HIDE DEF X
    <3> QED BY <1>1, <2>1, <2>2, Induct
  <2> QED BY <2>3
<1>10. z \in [0..N -> Nat]
  <2>1. z = [n \in DOMAIN z |-> z[n]]
    BY <1>7 DEF z
  <2> QED BY <1>8, <1>9, <2>1
<1> QED BY <1>8, <1>10 DEF z

\* Strings lie behind each other.
LEMMA SizesGrow ==
  ASSUME NEW strings \in Seq(String), NEW n \in 0..Len(strings), NEW m \in 0..n
  PROVE  /\ sizes(strings)[m] \in Nat /\ sizes(strings)[n] \in Nat
         /\ sizes(strings)[m] <= sizes(strings)[n]
         /\ m # n => sizes(strings)[m] + Len(strings[m + 1]) + 1 <= sizes(strings)[n]
<1> DEFINE N == Len(strings)
           z == sizes(strings)
           X == {k \in 0..N : \A j \in 0..k : z[j] <= z[k]}
<1>1. N \in Nat /\ \A k \in 1..N : strings[k] \in String /\ Len(strings[k]) \in Nat
  BY DEF String
<1>2. /\ \A k \in 0..N : z[k] \in Nat
      /\ \A k \in 1..N : z[k] = z[k - 1] + Len(strings[k]) + 1
  BY SizesRec
<1>3. 0 \in X
  BY <1>1, <1>2
<1>4. ASSUME NEW k \in 1..N, k - 1 \in X PROVE k \in X
  <2> SUFFICES ASSUME NEW j \in 0..k PROVE z[j] <= z[k]
    BY <1>1
  <2>1. /\ k - 1 \in 0..N /\ k \in 0..N
        /\ z[k] = z[k - 1] + Len(strings[k]) + 1 /\ Len(strings[k]) \in Nat
        /\ z[k - 1] \in Nat /\ z[k] \in Nat
    BY <1>1, <1>2
  <2>2. CASE j = k
    BY <2>1, <2>2
  <2>3. CASE j # k
    <3>1. j \in 0..(k - 1) /\ j \in 0..N
      BY <1>1, <2>3
    <3>2. z[j] <= z[k - 1] /\ z[j] \in Nat
      BY <1>2, <1>4, <3>1
    <3> HIDE DEF z
    <3> QED BY <2>1, <3>2
  <2> QED BY <2>2, <2>3
<1>5. \A k \in 0..N : k \in X
  <2> HIDE DEF X, N
  <2> QED BY <1>1, <1>3, <1>4, Induct
<1>6. n \in X /\ n \in 0..N /\ m \in 0..N
  BY <1>1, <1>5
<1>7. z[m] <= z[n] /\ z[m] \in Nat /\ z[n] \in Nat
  BY <1>2, <1>6
<1>8. CASE m # n
  <2>1. m + 1 \in 1..N /\ m + 1 \in 0..n /\ (m + 1) - 1 = m
    BY <1>1, <1>8
  <2>2. z[m + 1] = z[m] + Len(strings[m + 1]) + 1
    BY <1>2, <2>1
  <2>3. z[m + 1] <= z[n]
    BY <1>6, <2>1
  <2> QED BY <1>7, <2>2, <2>3
<1> QED BY <1>7, <1>8

-----------------------------------------------------------------------------
(* Strings in memory                                                       *)

Memory(n) == [0..(n - 1) -> Int]

Holds(memory, at, s) ==
  /\ \A j \in 1..Len(s) : memory[at + j - 1] = s[j]
  /\ memory[at + Len(s)] = 0

LEMMA StringFacts ==
  ASSUME NEW s \in String
  PROVE  /\ Len(s) \in Nat /\ s = [k \in 1..Len(s) |-> s[k]]
         /\ \A k \in 1..Len(s) : s[k] \in Int /\ s[k] # 0
<1>1. USERSTACK \in Nat
  BY ArgsAssumption
<1> DEFINE Character == 1..(USERSTACK - 1)
<1>2. s \in Seq(Character)
  BY DEF String
<1>5. \A c \in Character : c \in Int /\ c # 0
  BY <1>1
<1> HIDE DEF Character
<1>3. Len(s) \in Nat /\ s = [k \in 1..Len(s) |-> s[k]]
  BY <1>2
<1>4. ASSUME NEW k \in 1..Len(s) PROVE s[k] \in Int /\ s[k] # 0
  <2>1. s[k] \in Character
    BY <1>2
  <2> QED BY <1>5, <2>1
<1> QED BY <1>3, <1>4

\* A string is read back as it was written.
LEMMA StringFound ==
  ASSUME NEW n \in Nat, NEW memory \in Memory(n), NEW at \in Nat,
         NEW s \in String, at + Len(s) < n, Holds(memory, at, s)
  PROVE  StringAt(memory, at) = s
<1> DEFINE Ends(k) == /\ k >= at /\ memory[k] = 0
                      /\ \A j \in at..(k - 1) : memory[j] # 0
           end == at + Len(s)
<1>1. DOMAIN memory = 0..(n - 1) /\ end \in 0..(n - 1) /\ Len(s) \in Nat
  BY StringFacts DEF Memory
<1>2. \A j \in at..(end - 1) : memory[j] = s[j - at + 1] /\ memory[j] # 0
  <2> TAKE j \in at..(end - 1)
  <2>1. j - at + 1 \in 1..Len(s) /\ at + (j - at + 1) - 1 = j
    BY <1>1
  <2>2. memory[at + (j - at + 1) - 1] = s[j - at + 1]
    BY <2>1 DEF Holds
  <2> QED BY <2>1, <2>2, StringFacts
<1>3. Ends(end)
  BY <1>1, <1>2 DEF Holds
<1>4. ASSUME NEW k \in 0..(n - 1), Ends(k) PROVE k = end
  <2>1. CASE k < end
    <3>1. k \in at..(end - 1)
      BY <1>1, <1>4, <2>1
    <3> QED BY <1>2, <1>4, <3>1
  <2>2. CASE end < k
    <3>1. end \in at..(k - 1)
      BY <1>1, <2>2
    <3>2. memory[end] # 0
      BY <1>4, <3>1
    <3> QED BY <1>3, <3>2
  <2>3. k \in Int /\ end \in Int
    BY <1>1
  <2> HIDE DEF end
  <2> QED BY <2>1, <2>2, <2>3
<1>5. (CHOOSE k \in DOMAIN memory : Ends(k)) = end
  <2> HIDE DEF Ends, end
  <2> QED BY <1>1, <1>3, <1>4
<1>6. StringAt(memory, at) = [k \in 1..(end - at) |-> memory[at + k - 1]]
  BY <1>5 DEF StringAt
<1>7. end - at = Len(s) /\ \A k \in 1..Len(s) : memory[at + k - 1] = s[k]
  BY <1>1 DEF Holds
<1> HIDE DEF end
<1>8. [k \in 1..(end - at) |-> memory[at + k - 1]] = [k \in 1..Len(s) |-> s[k]]
  BY <1>7
<1> QED BY <1>6, <1>8, StringFacts

LEMMA PointerFacts ==
  ASSUME NEW n \in Nat, NEW memory \in Memory(n), NEW at \in Nat, NEW p \in Int, at < n
  PROVE  /\ Pointer(memory, at, p) \in Memory(n)
         /\ Pointer(memory, at, p)[at] = p
         /\ \A k \in 0..(n - 1) : k < at \/ k >= at + W => Pointer(memory, at, p)[k] = memory[k]
<1>1. W \in Nat /\ DOMAIN memory = 0..(n - 1) /\ at \in 0..(n - 1)
  BY ArgsAssumption DEF Memory
<1> DEFINE f == Pointer(memory, at, p)
<1>2. f = [k \in 0..(n - 1) |-> IF k = at THEN p
                               ELSE IF k \in at..(at + W - 1) THEN 0 ELSE memory[k]]
  BY <1>1 DEF Pointer
<1>3. \A k \in 0..(n - 1) : memory[k] \in Int
  BY DEF Memory
<1> HIDE DEF f
<1>4. DOMAIN f = 0..(n - 1) /\ \A k \in 0..(n - 1) : f[k] \in Int
  BY <1>2, <1>3
<1>5. f[at] = p /\ \A k \in 0..(n - 1) : k < at \/ k >= at + W => f[k] = memory[k]
  <2>1. f[at] = p
    BY <1>1, <1>2
  <2>2. ASSUME NEW k \in 0..(n - 1), k < at \/ k >= at + W PROVE f[k] = memory[k]
    <3>1. k \in Int /\ W \in Nat /\ W # 0
      BY ArgsAssumption
    <3>2. k # at /\ k \notin at..(at + W - 1)
      BY <2>2, <3>1
    <3> QED BY <1>2, <3>2
  <2> QED BY <2>1, <2>2
<1>6. f \in Memory(n)
  <2>1. f = [k \in 0..(n - 1) |-> f[k]]
    BY <1>2
  <2> QED BY <1>4, <2>1 DEF Memory
<1> QED BY <1>5, <1>6 DEF f

\* strlcpy of a string that fits. (string.c:10-20)
LEMMA StrlcpyFacts ==
  ASSUME NEW n \in Nat, NEW memory \in Memory(n), NEW at \in Nat,
         NEW s \in String, NEW room \in Nat, Len(s) < room, at + Len(s) < n
  PROVE  /\ strlcpy(memory, at, s, room).retval = Len(s)
         /\ strlcpy(memory, at, s, room).memory \in Memory(n)
         /\ Holds(strlcpy(memory, at, s, room).memory, at, s)
         /\ \A k \in 0..(n - 1) :
              k < at \/ k > at + Len(s) => strlcpy(memory, at, s, room).memory[k] = memory[k]
<1> DEFINE m == [k \in DOMAIN memory |->
                   IF k \in at..(at + Len(s) - 1) THEN s[k - at + 1]
                   ELSE IF k = at + Len(s) THEN 0 ELSE memory[k]]
<1>1. DOMAIN memory = 0..(n - 1) /\ Len(s) \in Nat
  BY StringFacts DEF Memory
<1>2. /\ strlcpy(memory, at, s, room).retval = Len(s)
      /\ strlcpy(memory, at, s, room).memory = m
  BY <1>1 DEF strlcpy
<1>3. \A k \in 0..(n - 1) : m[k] \in Int
  <2> TAKE k \in 0..(n - 1)
  <2>1. CASE k \in at..(at + Len(s) - 1)
    <3>1. k - at + 1 \in 1..Len(s)
      BY <1>1, <2>1
    <3> QED BY <1>1, <2>1, <3>1, StringFacts
  <2>2. CASE k \notin at..(at + Len(s) - 1)
    BY <1>1, <2>2 DEF Memory
  <2> QED BY <2>1, <2>2
<1>4. m \in Memory(n)
  BY <1>1, <1>3 DEF Memory
<1>5. Holds(m, at, s)
  <2>1. ASSUME NEW j \in 1..Len(s) PROVE m[at + j - 1] = s[j]
    <3>1. at + j - 1 \in at..(at + Len(s) - 1) /\ at + j - 1 \in 0..(n - 1)
          /\ (at + j - 1) - at + 1 = j
      BY <1>1
    <3> QED BY <1>1, <3>1
  <2>2. m[at + Len(s)] = 0
    BY <1>1
  <2> QED BY <2>1, <2>2 DEF Holds
<1>6. \A k \in 0..(n - 1) : k < at \/ k > at + Len(s) => m[k] = memory[k]
  BY <1>1
<1> HIDE DEF m
<1> QED BY <1>2, <1>4, <1>5, <1>6

\* A string that does not fit. (string.c:11-19)
LEMMA StrlcpyCuts ==
  ASSUME NEW memory, NEW at \in Nat, NEW s \in String, NEW room \in Nat, room <= Len(s)
  PROVE  strlcpy(memory, at, s, room).retval = room
<1>1. ~(Len(s) < room)
  BY StringFacts
<1> QED BY <1>1 DEF strlcpy

-----------------------------------------------------------------------------
(* A list in memory: a pointer to each string, and the strings             *)

\* The first m strings of a list lie behind each other from base on, and the
\* pointer to each, which is off by delta, in its slot.
Laid(memory, strings, m, slots, base, delta) ==
  \A k \in 1..m :
    /\ memory[slots + (k - 1) * W] = base + sizes(strings)[k - 1] + delta
    /\ Holds(memory, base + sizes(strings)[k - 1], strings[k])

\* There is room in n units for all pointers and, apart from them, for the
\* first m strings.
Room(strings, m, n, slots, base) ==
  /\ slots \in Nat /\ base \in Nat
  /\ slots + Len(strings) * W <= n /\ base + sizes(strings)[m] <= n
  /\ slots + Len(strings) * W <= base \/ base + sizes(strings)[m] <= slots

LEMMA Slots ==
  ASSUME NEW a \in Nat, NEW b \in Nat, a < b
  PROVE  a * W \in Nat /\ b * W \in Nat /\ a * W + W <= b * W
<1>1. W \in Nat
  BY ArgsAssumption
<1>2. PICK d \in Nat : b = a + 1 + d
  <2>1. b - a - 1 \in Nat /\ b = a + 1 + (b - a - 1)
    OBVIOUS
  <2> QED BY <2>1
<1>3. a * W \in Nat /\ d * W \in Nat /\ (a + 1 + d) * W = a * W + W + d * W
  BY <1>1, SMTT(30)
<1> QED BY <1>1, <1>2, <1>3

\* Where slot and string k of a list are.
LEMMA Places ==
  ASSUME NEW strings \in Seq(String), NEW m \in 0..Len(strings), NEW n \in Nat,
         NEW slots, NEW base, Room(strings, m, n, slots, base), NEW k \in 1..m
  PROVE  LET slot == slots + (k - 1) * W
             at   == base + sizes(strings)[k - 1]
             end  == at + Len(strings[k])
         IN  /\ slot \in Nat /\ at \in Nat /\ end \in Nat
             /\ slots <= slot /\ slot + W <= slots + Len(strings) * W /\ slot < n
             /\ base <= at /\ end < base + sizes(strings)[m] /\ end < n
             /\ slot + W <= at \/ end < slot
             /\ slots + Len(strings) * W <= at \/ end < slots
<1>1. W \in Nat \ {0} /\ Len(strings) \in Nat /\ strings[k] \in String
      /\ Len(strings[k]) \in Nat /\ k \in 1..Len(strings)
  <2>1. W \in Nat \ {0}
    BY ArgsAssumption
  <2>2. Len(strings) \in Nat /\ k \in 1..Len(strings)
    OBVIOUS
  <2>3. strings[k] \in String
    BY <2>2
  <2> QED BY <2>1, <2>2, <2>3, StringFacts
<1>2. /\ (k - 1) * W \in Nat /\ Len(strings) * W \in Nat
      /\ (k - 1) * W + W <= Len(strings) * W
  <2>1. k - 1 \in Nat /\ k - 1 < Len(strings)
    BY <1>1
  <2> QED BY <1>1, <2>1, Slots
<1> DEFINE z == sizes(strings)
<1>3. /\ z[k - 1] \in Nat /\ z[m] \in Nat
      /\ z[k - 1] + Len(strings[k]) + 1 <= z[m]
  <2>1. k - 1 \in 0..m /\ k - 1 # m /\ (k - 1) + 1 = k
    BY <1>1
  <2> QED BY <2>1, SizesGrow
<1> DEFINE a == (k - 1) * W
           c == Len(strings) * W
<1> HIDE DEF z, a, c
<1>4. /\ a \in Nat /\ c \in Nat /\ a + W <= c
      /\ slots \in Nat /\ base \in Nat /\ slots + c <= n /\ base + z[m] <= n
      /\ slots + c <= base \/ base + z[m] <= slots
  BY <1>2 DEF Room, a, c, z
<1>5. slots + a \in Nat /\ slots <= slots + a /\ slots + a + W <= slots + c /\ slots + a < n
  BY <1>1, <1>4
<1>6. /\ base + z[k - 1] \in Nat /\ base + z[k - 1] + Len(strings[k]) \in Nat
      /\ base <= base + z[k - 1]
      /\ base + z[k - 1] + Len(strings[k]) < base + z[m]
      /\ base + z[k - 1] + Len(strings[k]) < n
  <2> DEFINE x == z[k - 1]
             l == Len(strings[k])
             t == z[m]
  <2>1. x \in Nat /\ l \in Nat /\ t \in Nat /\ x + l + 1 <= t
    BY <1>1, <1>3
  <2>2. base \in Nat /\ base + t <= n
    BY <1>4
  <2> HIDE DEF x, l, t
  <2>3. /\ base + x \in Nat /\ base + x + l \in Nat /\ base <= base + x
        /\ base + x + l < base + t /\ base + x + l < n
    BY <2>1, <2>2
  <2> QED BY <2>3 DEF x, l, t
<1>7. \/ slots + c <= base + z[k - 1] /\ slots + a + W <= base + z[k - 1]
      \/ /\ base + z[k - 1] + Len(strings[k]) < slots
         /\ base + z[k - 1] + Len(strings[k]) < slots + a
  <2>1. CASE slots + c <= base
    BY <1>1, <1>3, <1>4, <2>1, SMTT(30)
  <2>2. CASE base + z[m] <= slots
    <3>1. base + z[k - 1] + Len(strings[k]) \in Nat /\ slots <= slots + a
      BY <1>5, <1>6
    <3>2. base + z[k - 1] + Len(strings[k]) < slots
      BY <1>3, <1>4, <1>6, <2>2, <3>1
    <3> QED BY <1>4, <3>1, <3>2
  <2> QED BY <1>4, <2>1, <2>2
<1> QED BY <1>5, <1>6, <1>7 DEF z, a, c

\* Room for a list is room for its beginning.
LEMMA RoomLess ==
  ASSUME NEW strings \in Seq(String), NEW m \in 0..Len(strings), NEW k \in 0..m,
         NEW n \in Nat, NEW slots, NEW base, Room(strings, m, n, slots, base)
  PROVE  Room(strings, k, n, slots, base)
<1> DEFINE x == sizes(strings)[k]
           y == sizes(strings)[m]
           c == Len(strings) * W
<1>1. x \in Nat /\ y \in Nat /\ x <= y
  BY SizesGrow
<1> HIDE DEF x, y, c
<1>2. /\ slots \in Nat /\ base \in Nat /\ slots + c <= n /\ base + y <= n
      /\ slots + c <= base \/ base + y <= slots
  BY DEF Room, y, c
<1>3. base + x <= n /\ (slots + c <= base \/ base + x <= slots)
  <2>1. base + x <= base + y /\ base + x \in Nat /\ base + y \in Nat
    BY <1>1, <1>2
  <2> QED BY <1>2, <2>1
<1> QED BY <1>2, <1>3 DEF Room, x, c

LEMMA HoldsKept ==
  ASSUME NEW s \in String, NEW at \in Nat, NEW memory, NEW new, Holds(memory, at, s),
         \A u \in at..(at + Len(s)) : new[u] = memory[u]
  PROVE  Holds(new, at, s)
<1>1. Len(s) \in Nat
  BY StringFacts
<1>2. \A j \in 1..Len(s) : at + j - 1 \in at..(at + Len(s))
  BY <1>1
<1>3. at + Len(s) \in at..(at + Len(s))
  BY <1>1
<1> QED BY <1>2, <1>3 DEF Holds

\* One round of the loops that lay out a list: the pointer, then the string.
LayOne(memory, strings, k, slots, base, delta, room) ==
  LET at == base + sizes(strings)[k - 1] IN
  strlcpy(Pointer(memory, slots + (k - 1) * W, at + delta), at, strings[k], room)

\* Nothing else changes.
Kept(memory, new, strings, n, slots, base) ==
  \A u \in 0..(n - 1) :
    /\ u < slots \/ u >= slots + Len(strings) * W
    /\ u < base \/ u >= base + size(strings)
    => new[u] = memory[u]

LEMMA LayOneFacts ==
  ASSUME NEW strings \in Seq(String), NEW n \in Nat, NEW memory \in Memory(n),
         NEW slots, NEW base, NEW delta \in Int,
         NEW k \in 1..Len(strings), Room(strings, k, n, slots, base), NEW room \in Nat, Len(strings[k]) < room,
         Laid(memory, strings, k - 1, slots, base, delta)
  PROVE  LET one == LayOne(memory, strings, k, slots, base, delta, room) IN
         /\ one.retval = Len(strings[k])
         /\ one.memory \in Memory(n)
         /\ Laid(one.memory, strings, k, slots, base, delta)
         /\ Kept(memory, one.memory, strings, n, slots, base)
<1> DEFINE z == sizes(strings)
           slot(j) == slots + (j - 1) * W
           at(j) == base + z[j - 1]
           end(j) == at(j) + Len(strings[j])
           top == slots + Len(strings) * W
           over == base + z[k]
           pointed == Pointer(memory, slot(k), at(k) + delta)
           one == strlcpy(pointed, at(k), strings[k], room)
           new == one.memory
<1>1. \A j \in 1..k :
        /\ slot(j) \in Nat /\ at(j) \in Nat /\ end(j) \in Nat
        /\ slots <= slot(j) /\ slot(j) + W <= top /\ slot(j) < n
        /\ base <= at(j) /\ end(j) < over /\ end(j) < n
        /\ slot(j) + W <= at(j) \/ end(j) < slot(j)
        /\ top <= at(j) \/ end(j) < slots
        /\ strings[j] \in String
  <2> TAKE j \in 1..k
  <2>1. strings[j] \in String /\ k \in 0..Len(strings)
    OBVIOUS
  <2> QED BY <2>1, Places
<1>2. W \in Nat \ {0} /\ slots \in Nat /\ top \in Int /\ base \in Nat /\ over \in Int
  <2>1. W \in Nat \ {0} /\ Len(strings) \in Nat
    BY ArgsAssumption
  <2>2. Len(strings) * W \in Int
    BY <2>1, SMTT(30)
  <2>3. k \in 0..Len(strings)
    OBVIOUS
  <2>4. z[k] \in Nat
    BY <2>3, SizesRec
  <2>5. slots \in Nat /\ base \in Nat
    BY DEF Room
  <2> QED BY <2>1, <2>2, <2>4, <2>5
<1>3. \A j \in 1..(k - 1) : j \in 1..Len(strings) /\ slot(j) + W <= slot(k) /\ end(j) < at(k)
  <2> TAKE j \in 1..(k - 1)
  <2>1. /\ j \in 1..Len(strings) /\ j - 1 \in Nat /\ k - 1 \in Nat /\ j - 1 < k - 1
        /\ k - 1 \in 0..Len(strings) /\ j - 1 \in 0..(k - 1) /\ j - 1 # k - 1
        /\ (j - 1) + 1 = j /\ Len(strings[j]) \in Nat
    BY StringFacts, SMTT(30)
  <2>2. (j - 1) * W \in Nat /\ (k - 1) * W \in Nat /\ (j - 1) * W + W <= (k - 1) * W
    BY <2>1, Slots
  <2>3. slot(j) + W <= slot(k)
    <3> DEFINE a == (j - 1) * W
               b == (k - 1) * W
    <3>1. a \in Nat /\ b \in Nat /\ a + W <= b
      BY <2>2
    <3> HIDE DEF a, b
    <3>2. slots + a + W <= slots + b
      BY <1>2, <3>1
    <3> QED BY <3>2 DEF a, b
  <2>4. z[j - 1] \in Nat /\ z[k - 1] \in Nat /\ z[j - 1] + Len(strings[j]) + 1 <= z[k - 1]
    BY <2>1, SizesGrow
  <2>5. end(j) < at(k)
    <3> DEFINE x == z[j - 1]
               y == z[k - 1]
               l == Len(strings[j])
    <3>1. x \in Nat /\ y \in Nat /\ l \in Nat /\ x + l + 1 <= y
      BY <2>1, <2>4
    <3> HIDE DEF x, y, l
    <3>2. base + x + l < base + y
      BY <1>2, <3>1
    <3> QED BY <3>2 DEF x, y, l
  <2> QED BY <2>1, <2>3, <2>5
<1>4. pointed \in Memory(n) /\ pointed[slot(k)] = at(k) + delta
      /\ \A u \in 0..(n - 1) : u < slot(k) \/ u >= slot(k) + W => pointed[u] = memory[u]
  <2>1. slot(k) \in Nat /\ slot(k) < n /\ at(k) + delta \in Int
    BY <1>1
  <2> DEFINE p == at(k) + delta
             a == slot(k)
  <2>2. a \in Nat /\ a < n /\ p \in Int
    BY <2>1
  <2> HIDE DEF p, a, slot
  <2>3. /\ Pointer(memory, a, p) \in Memory(n) /\ Pointer(memory, a, p)[a] = p
        /\ \A u \in 0..(n - 1) : u < a \/ u >= a + W => Pointer(memory, a, p)[u] = memory[u]
    BY <2>2, PointerFacts
  <2> QED BY <2>3 DEF p, a
<1>5. /\ one.retval = Len(strings[k]) /\ new \in Memory(n) /\ Holds(new, at(k), strings[k])
      /\ \A u \in 0..(n - 1) : u < at(k) \/ u > end(k) => new[u] = pointed[u]
  <2>1. at(k) \in Nat /\ at(k) + Len(strings[k]) < n /\ strings[k] \in String
    BY <1>1
  <2> HIDE DEF at, pointed
  <2> QED BY <1>4, <2>1, StrlcpyFacts, SMTT(30)
<1> HIDE DEF slot, at, end, top, over, pointed, one
<1>10.
      /\ slot(k) \in Nat /\ at(k) \in Nat /\ end(k) \in Nat
      /\ slots <= slot(k) /\ slot(k) + W <= top /\ slot(k) < n
      /\ base <= at(k) /\ end(k) < over /\ end(k) < n
      /\ slot(k) + W <= at(k) \/ end(k) < slot(k)
      /\ top <= at(k) \/ end(k) < slots
  <2>1. k \in 1..k
    OBVIOUS
  <2> QED BY <1>1, <2>1
<1>6. \A u \in 0..(n - 1) :
        (u < slot(k) \/ u >= slot(k) + W) /\ (u < at(k) \/ u > end(k)) => new[u] = memory[u]
  BY <1>4, <1>5
<1>7. Kept(memory, new, strings, n, slots, base)
  <2>0. over <= base + size(strings) /\ base + size(strings) \in Int
    <3>1. k \in 0..Len(strings) /\ Len(strings) \in 0..Len(strings)
      OBVIOUS
    <3>2. z[k] \in Nat /\ size(strings) \in Nat /\ z[k] <= size(strings)
      BY <3>1, SizesGrow DEF size
    <3> HIDE DEF z
    <3> QED BY <1>2, <3>2 DEF over
  <2> SUFFICES ASSUME NEW u \in 0..(n - 1), u < slots \/ u >= top,
                      u < base \/ u >= base + size(strings)
               PROVE  new[u] = memory[u]
    BY DEF Kept, top
  <2>1. u < slot(k) \/ u >= slot(k) + W
    BY <1>2, <1>10
  <2>2. u < at(k) \/ u > end(k)
    BY <1>2, <1>10, <2>0, SMTT(30)
  <2> QED BY <1>6, <2>1, <2>2
<1>8. ASSUME NEW j \in 1..k
      PROVE  new[slot(j)] = at(j) + delta /\ Holds(new, at(j), strings[j])
  <2>1. CASE j = k
    <3>1. slot(k) \in 0..(n - 1) /\ (slot(k) < at(k) \/ slot(k) > end(k))
      BY <1>2, <1>10, SMTT(30)
    <3> QED BY <1>4, <1>5, <2>1, <3>1
  <2>2. CASE j # k
    <3>1. j \in 1..(k - 1)
      BY <2>2
    <3>2. memory[slot(j)] = at(j) + delta /\ Holds(memory, at(j), strings[j])
      BY <3>1 DEF Laid, slot, at
    <3>3. /\ j \in 1..Len(strings) /\ slot(j) + W <= slot(k) /\ end(j) < at(k)
      BY <1>3, <3>1
    <3>13. j \in 1..k
      BY <2>2
    <3>10.
          /\ slot(j) \in Nat /\ slots <= slot(j) /\ slot(j) + W <= top /\ slot(j) < n
          /\ at(j) \in Nat /\ end(j) \in Nat /\ end(j) < n
          /\ top <= at(j) \/ end(j) < slots
          /\ strings[j] \in String
      BY <1>1, <3>13
    <3>11.
          /\ slots <= slot(k) /\ slot(k) + W <= top /\ slot(k) \in Nat
          /\ at(k) \in Nat /\ end(k) \in Nat
          /\ top <= at(k) \/ end(k) < slots
      BY <1>10
    <3>12. W \in Nat /\ W > 0 /\ top \in Int
      BY <1>2
    <3>4. slot(j) \in 0..(n - 1) /\ slot(j) < slot(k) /\ (slot(j) < at(k) \/ slot(j) > end(k))
      <4>1. slot(j) \in 0..(n - 1) /\ slot(j) < slot(k)
        <5>1. slot(j) < slot(k)
          BY <3>3, <3>10, <3>11, <3>12, SMTT(30)
        <5> QED BY <3>10, <5>1
      <4>2. CASE top <= at(k)
        BY <3>10, <3>11, <3>12, <4>1, <4>2, SMTT(30)
      <4>3. CASE end(k) < slots
        BY <1>2, <3>10, <3>11, <4>1, <4>3, SMTT(30)
      <4> QED BY <3>11, <4>2, <4>3
    <3>5. \A u \in at(j)..end(j) :
            /\ u \in 0..(n - 1) /\ u < at(k)
            /\ u < slot(k) \/ u >= slot(k) + W
      <4> TAKE u \in at(j)..end(j)
      <4>1. u \in Nat /\ u <= end(j) /\ end(j) < n /\ end(j) \in Nat /\ at(j) <= u /\ at(j) \in Nat
        BY <3>10
      <4>2. u \in 0..(n - 1) /\ u < at(k)
        BY <3>3, <3>11, <4>1, SMTT(30)
      <4>3. CASE top <= at(j)
        BY <1>2, <3>11, <4>1, <4>2, <4>3, SMTT(30)
      <4>4. CASE end(j) < slots
        BY <1>2, <3>11, <4>1, <4>2, <4>4, SMTT(30)
      <4> QED BY <3>10, <4>2, <4>3, <4>4
    <3>6. new[slot(j)] = memory[slot(j)]
      BY <1>6, <3>4
    <3>7. \A u \in at(j)..(at(j) + Len(strings[j])) : new[u] = memory[u]
      BY <1>6, <3>5 DEF end
    <3>8. Holds(new, at(j), strings[j])
      BY <3>2, <3>10, <3>7, HoldsKept
    <3> QED BY <3>2, <3>6, <3>8
  <2> QED BY <2>1, <2>2
<1>9. Laid(new, strings, k, slots, base, delta)
  BY <1>8 DEF Laid, slot, at
<1> QED BY <1>5, <1>7, <1>9 DEF LayOne, one, pointed, slot, at

LEMMA LaidKept ==
  ASSUME NEW strings \in Seq(String), NEW n \in Nat, NEW slots, NEW base, NEW delta,
         Room(strings, Len(strings), n, slots, base), NEW m \in 0..Len(strings),
         NEW memory, NEW new, Laid(memory, strings, m, slots, base, delta),
         \A u \in slots..((slots + Len(strings) * W) - 1) : new[u] = memory[u],
         \A u \in base..((base + size(strings)) - 1) : new[u] = memory[u]
  PROVE  Laid(new, strings, m, slots, base, delta)
<1> SUFFICES ASSUME NEW k \in 1..m
             PROVE  /\ new[slots + (k - 1) * W] = base + sizes(strings)[k - 1] + delta
                    /\ Holds(new, base + sizes(strings)[k - 1], strings[k])
  BY DEF Laid
<1> DEFINE slot == slots + (k - 1) * W
           at == base + sizes(strings)[k - 1]
           end == at + Len(strings[k])
           top == slots + Len(strings) * W
           over == base + size(strings)
<1>1. k \in 1..Len(strings) /\ strings[k] \in String
  OBVIOUS
<1>2. /\ slot \in Nat /\ at \in Nat /\ end \in Nat
      /\ slots <= slot /\ slot + W <= top
      /\ base <= at /\ end < over
  <2>1. Len(strings) \in 0..Len(strings)
    OBVIOUS
  <2> QED BY <1>1, <2>1, Places DEF size
<1>3. /\ slots \in Nat /\ base \in Nat /\ W \in Nat /\ W > 0
      /\ top \in Int /\ over \in Int /\ Len(strings[k]) \in Nat
  <2>1. W \in Nat /\ W > 0 /\ Len(strings) \in Nat
    BY ArgsAssumption
  <2>2. Len(strings) * W \in Int
    BY <2>1, SMTT(30)
  <2>3. Len(strings) \in 0..Len(strings)
    BY <2>1
  <2>4. size(strings) \in Nat
    BY <2>3, SizesGrow DEF size
  <2>5. slots \in Nat /\ base \in Nat
    BY DEF Room
  <2>6. Len(strings[k]) \in Nat
    BY <1>1, StringFacts
  <2> QED BY <2>1, <2>2, <2>4, <2>5, <2>6
<1>4. memory[slot] = at + delta /\ Holds(memory, at, strings[k])
  BY DEF Laid
<1>5. slot \in slots..(top - 1)
  <2> HIDE DEF slot, top
  <2> QED BY <1>2, <1>3
<1>6. \A u \in at..(at + Len(strings[k])) : u \in base..(over - 1)
  <2>1. \A u \in at..end : u \in base..(over - 1)
    <3> HIDE DEF at, over, end
    <3> QED BY <1>2, <1>3
  <2> QED BY <2>1
<1>7. new[slot] = memory[slot]
  <2>1. \A u \in slots..(top - 1) : new[u] = memory[u]
    OBVIOUS
  <2> HIDE DEF slot, top
  <2> QED BY <1>5, <2>1
<1>8. \A u \in at..(at + Len(strings[k])) : new[u] = memory[u]
  <2>1. \A u \in base..(over - 1) : new[u] = memory[u]
    OBVIOUS
  <2> HIDE DEF at, over
  <2> QED BY <1>6, <2>1
<1>9. Holds(new, at, strings[k])
  <2> HIDE DEF at
  <2> QED BY <1>1, <1>2, <1>4, <1>8, HoldsKept
<1> QED BY <1>4, <1>7, <1>9

LEMMA LaidFound ==
  ASSUME NEW strings \in Seq(String), NEW n \in Nat, NEW memory \in Memory(n),
         NEW slots, NEW base, NEW delta \in Int, Room(strings, Len(strings), n, slots, base),
         Laid(memory, strings, Len(strings), slots, base, delta),
         NEW k \in 1..Len(strings)
  PROVE  /\ memory[slots + (k - 1) * W] >= base + delta
         /\ StringAt(memory, memory[slots + (k - 1) * W] - delta) = strings[k]
<1> DEFINE slot == slots + (k - 1) * W
           at == base + sizes(strings)[k - 1]
<1>1. memory[slot] = at + delta /\ Holds(memory, at, strings[k])
  BY DEF Laid
<1>2. at \in Nat /\ at + Len(strings[k]) < n /\ strings[k] \in String /\ base <= at
  <2>1. Len(strings) \in 0..Len(strings)
    OBVIOUS
  <2> QED BY <2>1, Places, SMTT(30)
<1>3. base \in Nat
  BY DEF Room
<1> HIDE DEF at, slot
<1>4. StringAt(memory, at) = strings[k]
  BY <1>1, <1>2, StringFound
<1>5. memory[slot] - delta = at /\ memory[slot] >= base + delta
  BY <1>1, <1>2, <1>3
<1> QED BY <1>4, <1>5 DEF slot

-----------------------------------------------------------------------------
(* The buffer of user_copy_args                                            *)

LEMMA Quotient ==
  ASSUME NEW d \in Nat, d >= 1, NEW x \in Nat
  PROVE  /\ x \div d \in Nat /\ x % d \in Nat /\ x % d < d
         /\ x = d * (x \div d) + (x % d)
<1>1. d \in Int /\ d > 0
  OBVIOUS
<1> QED BY <1>1, SMTT(30)

LEMMA ArgMax == ARG_MAX \in Nat /\ ARG_MAX > 0 /\ ARG_MAX + 2 * W = PAGE_SIZE /\ W \in Nat /\ W > 0
<1>1. W \in Nat /\ W > 0 /\ PAGE_SIZE \in Nat /\ Len(Name) \in Nat
  BY ArgsAssumption, StringFacts
<1>2. (4 * W) + Len(Name) < PAGE_SIZE
  BY ArgsAssumption
<1> QED BY <1>1, <1>2 DEF ARG_MAX

\* The room for a list of n strings.
LEMMA Pointers ==
  ASSUME NEW n \in Nat
  PROVE  /\ n * W \in Nat /\ (n + 1) * W \in Nat /\ (n + 1) * W = n * W + W
         /\ (n + 1) * W > 0
<1>1. W \in Nat /\ W > 0
  BY ArgMax
<1>2. n * W \in Nat /\ (n + 1) * W = n * W + W
  BY <1>1, SMTT(30)
<1> QED BY <1>1, <1>2

LEMMA BufferRoom ==
  ASSUME NEW strings \in Seq(String), (Len(strings) + 1) * W + size(strings) <= ARG_MAX
  PROVE  Room(strings, Len(strings), ARG_MAX, 0, (Len(strings) + 1) * W)
<1> DEFINE N == Len(strings)
           a == N * W
           b == (N + 1) * W
           t == size(strings)
<1>1. N \in Nat /\ N \in 0..N
  OBVIOUS
<1>2. t \in Nat
  BY <1>1, SizesGrow DEF size
<1>3. a \in Nat /\ b \in Nat /\ b = a + W /\ W \in Nat /\ b + t <= ARG_MAX
  BY <1>1, Pointers, ArgMax
<1> HIDE DEF a, b, t
<1>4. 0 \in Nat /\ b \in Nat /\ 0 + a <= ARG_MAX /\ b + t <= ARG_MAX /\ 0 + a <= b
  BY <1>2, <1>3, ArgMax
<1> QED BY <1>4 DEF Room, a, b, t, size

\* task_init_elf finds the strings in a finished buffer. (elf.c:136-143)
LEMMA BufferStrings ==
  ASSUME NEW strings \in Seq(String), (Len(strings) + 1) * W + size(strings) <= ARG_MAX,
         NEW memory \in Memory(ARG_MAX),
         Laid(memory, strings, Len(strings), 0, (Len(strings) + 1) * W, 0),
         memory[Len(strings) * W] = 0
  PROVE  Strings(memory) = strings
<1> DEFINE N == Len(strings)
           base == (N + 1) * W
           Last(n) == memory[n * W] = 0 /\ \A k \in 0..(n - 1) : memory[k * W] # 0
<1>1. N \in Nat /\ W \in Nat /\ W > 0 /\ ARG_MAX \in Nat
  BY ArgMax
<1>2. base \in Nat /\ base > 0
  BY <1>1, Pointers
<1>3. ASSUME NEW k \in 1..N
      PROVE  /\ memory[(k - 1) * W] > 0
             /\ StringAt(memory, memory[(k - 1) * W]) = strings[k]
  <2> DEFINE s == 0 + (k - 1) * W
  <2>1. Room(strings, Len(strings), ARG_MAX, 0, base)
    BY BufferRoom
  <2> HIDE DEF base
  <2>2. memory[s] >= base + 0 /\ StringAt(memory, memory[s] - 0) = strings[k]
    BY <1>1, <2>1, LaidFound DEF base
  <2>3. s \in 0..(ARG_MAX - 1)
    <3>1. LET slot == 0 + (k - 1) * W IN slot \in Nat /\ slot < ARG_MAX
      <4>1. N \in 0..N
        BY <1>1
      <4> QED BY <1>1, <2>1, <4>1, Places
    <3> HIDE DEF s
    <3> QED BY <1>1, <3>1 DEF s
  <2>4. s = (k - 1) * W
    BY <1>1, SMTT(30)
  <2> HIDE DEF s
  <2>5. memory[s] \in Int
    BY <2>3 DEF Memory
  <2>6. memory[s] - 0 = memory[s]
    BY <2>5
  <2>7. memory[s] > 0 /\ StringAt(memory, memory[s]) = strings[k]
    BY <1>2, <2>2, <2>5, <2>6
  <2> QED BY <2>4, <2>7
<1>4. \A k \in 0..(N - 1) : memory[k * W] # 0
  <2> TAKE k \in 0..(N - 1)
  <2>1. k + 1 \in 1..N /\ (k + 1) - 1 = k
    BY <1>1
  <2>2. memory[((k + 1) - 1) * W] > 0
    BY <1>3, <2>1
  <2> QED BY <2>1, <2>2
<1>5. Last(N)
  BY <1>4
<1>6. N \in 0..(ARG_MAX \div W)
  <2>1. N * W \in Nat /\ N * W <= ARG_MAX
    <3> DEFINE a == N * W
               b == (N + 1) * W
    <3>1. a \in Nat /\ b \in Nat /\ b = a + W
      BY <1>1, Pointers
    <3>2. b + size(strings) <= ARG_MAX /\ size(strings) \in Nat
      <4>1. N \in 0..N
        BY <1>1
      <4> QED BY <4>1, SizesGrow DEF size
    <3> HIDE DEF a, b
    <3>3. a <= ARG_MAX
      BY <1>1, <3>1, <3>2
    <3> QED BY <3>1, <3>3 DEF a
  <2> DEFINE q == ARG_MAX \div W
             r == ARG_MAX % W
  <2>2. q \in Nat /\ r \in Nat /\ r < W /\ ARG_MAX = W * q + r
    <3>1. W >= 1
      BY <1>1
    <3> QED BY <1>1, <3>1, Quotient
  <2> HIDE DEF N, q, r
  <2>3. ~(q < N)
    <3> SUFFICES ASSUME q < N PROVE FALSE
      OBVIOUS
    <3>1. q * W + W <= N * W /\ q * W \in Nat
      BY <1>1, <2>2, Slots
    <3>2. W * q = q * W
      BY <1>1, <2>2, SMTT(30)
    <3> QED BY <1>1, <2>1, <2>2, <3>1, <3>2
  <2>4. N \in 0..q
    BY <1>1, <2>2, <2>3
  <2> QED BY <2>4 DEF q
<1>7. ASSUME NEW n \in 0..(ARG_MAX \div W), Last(n) PROVE n = N
  <2>1. CASE n < N
    <3>1. n \in 0..(N - 1)
      BY <1>1, <1>7, <2>1
    <3> QED BY <1>4, <1>7, <3>1
  <2>2. CASE N < n
    <3>1. N \in 0..(n - 1)
      BY <1>1, <1>7, <2>2
    <3> QED BY <1>5, <1>7, <3>1
  <2> HIDE DEF N, Last
  <2>3. n \in Int /\ N \in Int
    BY <1>1
  <2> QED BY <2>1, <2>2, <2>3
<1>8. (CHOOSE n \in 0..(ARG_MAX \div W) : Last(n)) = N
  <2> HIDE DEF N, Last
  <2> QED BY <1>5, <1>6, <1>7
<1>9. Strings(memory) = [k \in 1..N |-> StringAt(memory, memory[(k - 1) * W])]
  BY <1>8 DEF Strings
<1>10. [k \in 1..N |-> StringAt(memory, memory[(k - 1) * W])] = [k \in 1..N |-> strings[k]]
  <2> HIDE DEF N
  <2> QED BY <1>3
<1>11. strings = [k \in 1..N |-> strings[k]]
  OBVIOUS
<1> QED BY <1>9, <1>10, <1>11

-----------------------------------------------------------------------------
(* The stack of the new program                                            *)

\* Where PutArgs stands: any stack and offset, so that each round is defined.
PutState == [stack : Memory(PAGE_SIZE), off : Int]

LEMMA PutArgType ==
  ASSUME NEW t \in PutState, NEW at \in Nat, NEW k \in Nat \ {0}, NEW s \in String
  PROVE  PutArg(t, at, k, s) \in PutState
<1> DEFINE n == PAGE_SIZE
           slot == PAGE_SIZE - at + (k - 1) * W
           pointed == Pointer(t.stack, slot, user_stack_addr(t.off))
           begin == PAGE_SIZE - t.off
           copied == strlcpy(pointed, begin, s, t.off)
           length == IF Len(s) < t.off THEN Len(s) ELSE t.off - 1
<1>1. /\ PAGE_SIZE \in Nat /\ USERSTACK \in Nat /\ W \in Nat /\ Len(s) \in Nat
      /\ t.off \in Int /\ t.stack \in Memory(PAGE_SIZE)
  BY ArgsAssumption, StringFacts DEF PutState
<1>2. pointed \in Memory(PAGE_SIZE)
  <2> HIDE DEF slot
  <2>1. user_stack_addr(t.off) \in Int
    BY <1>1 DEF user_stack_addr
  <2>2. DOMAIN t.stack = 0..(PAGE_SIZE - 1) /\ \A u \in 0..(PAGE_SIZE - 1) : t.stack[u] \in Int
    BY <1>1 DEF Memory
  <2>3. pointed = [u \in 0..(PAGE_SIZE - 1) |->
                     IF u = slot THEN user_stack_addr(t.off)
                     ELSE IF u \in slot..(slot + W - 1) THEN 0 ELSE t.stack[u]]
    BY <2>2 DEF Pointer
  <2> QED BY <2>1, <2>2, <2>3 DEF Memory
<1> HIDE DEF pointed
<1>3. copied.memory \in Memory(PAGE_SIZE)
  <2>1. DOMAIN pointed = 0..(PAGE_SIZE - 1) /\ \A u \in 0..(PAGE_SIZE - 1) : pointed[u] \in Int
    BY <1>2 DEF Memory
  <2> DEFINE m == [u \in 0..(PAGE_SIZE - 1) |->
                     IF u \in begin..(begin + length - 1) THEN s[u - begin + 1]
                     ELSE IF u = begin + length THEN 0 ELSE pointed[u]]
  <2>2. copied.memory = m
    BY <2>1 DEF strlcpy
  <2>3. ASSUME NEW u \in 0..(PAGE_SIZE - 1) PROVE m[u] \in Int
    <3>1. CASE u \in begin..(begin + length - 1)
      <4>1. length \in Int /\ length <= Len(s) /\ begin \in Int
        BY <1>1
      <4> HIDE DEF length, begin
      <4>2. u - begin + 1 \in 1..Len(s)
        BY <1>1, <3>1, <4>1
      <4>3. s[u - begin + 1] \in Int
        BY <4>2, StringFacts
      <4> QED BY <3>1, <4>3
    <3>2. CASE u \notin begin..(begin + length - 1)
      BY <2>1, <3>2
    <3> QED BY <3>1, <3>2
  <2> HIDE DEF m
  <2>4. m = [u \in 0..(PAGE_SIZE - 1) |-> m[u]]
    BY DEF m
  <2> QED BY <2>2, <2>3, <2>4 DEF Memory
<1>4. copied.retval \in Int
  BY <1>1 DEF strlcpy
<1>5. PutArg(t, at, k, s) = [stack |-> copied.memory, off |-> t.off - (copied.retval + 1)]
  BY DEF PutArg, pointed
<1> HIDE DEF copied
<1> QED BY <1>1, <1>3, <1>4, <1>5 DEF PutState

\* The loop of PutArgs, round by round.
LEMMA PutArgsRec ==
  ASSUME NEW strings \in Seq(String), NEW s \in PutState, NEW at \in Nat
  PROVE  \E put \in [0..Len(strings) -> PutState] :
           /\ put[0] = s /\ put[Len(strings)] = PutArgs(s, at, strings)
           /\ \A n \in 1..Len(strings) : put[n] = PutArg(put[n - 1], at, n, strings[n])
<1> DEFINE N == Len(strings)
           F == [p \in (1..N) \X PutState |-> PutArg(p[2], at, p[1], strings[p[1]])]
           Is(f) == f = [n \in 0..N |-> IF n = 0 THEN s ELSE PutArg(f[n - 1], at, n, strings[n])]
<1>1. N \in Nat /\ \A n \in 1..N : strings[n] \in String /\ n \in Nat \ {0}
  OBVIOUS
<1>2. F \in [(1..N) \X PutState -> PutState]
  BY <1>1, PutArgType
<1>3. PICK f \in [0..N -> PutState] : Run(f, N, s, F)
  <2> HIDE DEF F, N
  <2> QED BY <1>1, <1>2, Iterate, Zenon
<1>4. \A n \in 1..N : f[n - 1] \in PutState /\ f[n] = PutArg(f[n - 1], at, n, strings[n])
  <2> TAKE n \in 1..N
  <2>1. n - 1 \in 0..N
    BY <1>1
  <2>2. f[n] = F[<<n, f[n - 1]>>] /\ f[n - 1] \in PutState
    BY <1>3, <2>1 DEF Run
  <2> QED BY <2>2
<1>5. Is(f)
  <2>1. f = [n \in 0..N |-> f[n]]
    BY <1>3
  <2>2. \A n \in 0..N : f[n] = IF n = 0 THEN s ELSE PutArg(f[n - 1], at, n, strings[n])
    <3> TAKE n \in 0..N
    <3>1. n # 0 => n \in 1..N
      BY <1>1
    <3> QED BY <1>3, <1>4, <3>1 DEF Run
  <2> QED BY <2>1, <2>2
<1> DEFINE put == CHOOSE g : Is(g)
<1>6. Is(put)
  <2> HIDE DEF Is
  <2> QED BY <1>5
<1>7. put[N] = PutArgs(s, at, strings)
  BY DEF PutArgs
<1> HIDE DEF put
<1>8. /\ put = [n \in 0..N |-> put[n]] /\ put[0] = s
      /\ \A n \in 1..N : put[n] = PutArg(put[n - 1], at, n, strings[n])
  <2>1. 0 \in 0..N /\ \A n \in 1..N : n \in 0..N /\ n # 0
    BY <1>1
  <2> HIDE DEF N
  <2>2. put = [n \in 0..N |-> IF n = 0 THEN s ELSE PutArg(put[n - 1], at, n, strings[n])]
    BY <1>6 DEF N
  <2> QED BY <2>1, <2>2
<1>9. \A n \in 0..N : put[n] \in PutState
  <2> DEFINE X == {n \in 0..N : put[n] \in PutState}
  <2>1. 0 \in X
    BY <1>1, <1>8
  <2>2. ASSUME NEW n \in 1..N, n - 1 \in X PROVE n \in X
    <3>1. put[n - 1] \in PutState /\ n \in 0..N
      BY <1>1, <2>2
    <3> HIDE DEF N
    <3>2. PutArg(put[n - 1], at, n, strings[n]) \in PutState
      BY <1>1, <3>1, PutArgType
    <3> QED BY <1>8, <3>1, <3>2
  <2>3. \A n \in 0..N : n \in X
    <3> HIDE DEF X
    <3> QED BY <1>1, <2>1, <2>2, Induct
  <2> QED BY <2>3
<1> QED BY <1>7, <1>8, <1>9

LEMMA PutArgRound ==
  ASSUME NEW strings \in Seq(String), NEW t \in PutState, NEW at \in Nat, NEW o \in Nat,
         at <= PAGE_SIZE, o <= PAGE_SIZE, size(strings) <= o,
         Room(strings, Len(strings), PAGE_SIZE, PAGE_SIZE - at, PAGE_SIZE - o),
         NEW k \in 1..Len(strings), t.off = o - sizes(strings)[k - 1],
         Laid(t.stack, strings, k - 1, PAGE_SIZE - at, PAGE_SIZE - o, USERSTACK - PAGE_SIZE)
  PROVE  LET new == PutArg(t, at, k, strings[k]) IN
         /\ new.off = o - sizes(strings)[k]
         /\ Laid(new.stack, strings, k, PAGE_SIZE - at, PAGE_SIZE - o, USERSTACK - PAGE_SIZE)
         /\ Kept(t.stack, new.stack, strings, PAGE_SIZE, PAGE_SIZE - at, PAGE_SIZE - o)
<1> DEFINE slots == PAGE_SIZE - at
           base == PAGE_SIZE - o
           delta == USERSTACK - PAGE_SIZE
           x == sizes(strings)[k - 1]
           y == sizes(strings)[k]
           l == Len(strings[k])
           one == LayOne(t.stack, strings, k, slots, base, delta, t.off)
<1>1. /\ x \in Nat /\ y \in Nat /\ l \in Nat /\ y = x + l + 1 /\ y <= o
      /\ strings[k] \in String
  <2>1. /\ k \in 0..Len(strings) /\ k - 1 \in 0..Len(strings)
        /\ Len(strings) \in 0..Len(strings) /\ k \in 0..Len(strings)
        /\ strings[k] \in String
    OBVIOUS
  <2>2. x \in Nat /\ y \in Nat /\ l \in Nat /\ y = x + l + 1
    BY <2>1, SizesRec, StringFacts
  <2>3. y <= size(strings) /\ size(strings) \in Nat
    BY <2>1, SizesGrow DEF size
  <2> HIDE DEF x, y, l
  <2> QED BY <2>1, <2>2, <2>3
<1>2. /\ PAGE_SIZE \in Nat /\ USERSTACK \in Nat /\ delta \in Int /\ slots \in Nat /\ base \in Nat
      /\ t.stack \in Memory(PAGE_SIZE) /\ t.off = o - x
  <2>1. PAGE_SIZE \in Nat /\ USERSTACK \in Nat
    BY ArgsAssumption
  <2> HIDE DEF x
  <2>2. delta \in Int /\ slots \in Nat /\ base \in Nat /\ t.off = o - x
    BY <2>1 DEF x
  <2>3. t.stack \in Memory(PAGE_SIZE)
    BY DEF PutState
  <2> QED BY <2>1, <2>2, <2>3
<1>3. l < t.off /\ t.off \in Nat
  <2> HIDE DEF x, y, l
  <2> QED BY <1>1, <1>2
<1>4. /\ one.retval = l /\ one.memory \in Memory(PAGE_SIZE)
      /\ Laid(one.memory, strings, k, slots, base, delta)
      /\ Kept(t.stack, one.memory, strings, PAGE_SIZE, slots, base)
  <2> HIDE DEF slots, base, delta
  <2>0. k \in 0..Len(strings) /\ Len(strings) \in 0..Len(strings)
    OBVIOUS
  <2>3. Room(strings, Len(strings), PAGE_SIZE, slots, base)
    BY DEF slots, base
  <2>1. Room(strings, k, PAGE_SIZE, slots, base) /\ Laid(t.stack, strings, k - 1, slots, base, delta)
    BY <1>2, <2>0, <2>3, RoomLess DEF slots, base, delta
  <2> QED BY <1>2, <1>3, <2>1, LayOneFacts, SMTT(30)
<1>5. /\ user_stack_addr(t.off) = base + x + delta
      /\ PAGE_SIZE - t.off = base + x
  <2> HIDE DEF x
  <2> QED BY <1>1, <1>2 DEF user_stack_addr
<1>6. PutArg(t, at, k, strings[k]) = [stack |-> one.memory, off |-> t.off - (one.retval + 1)]
  <2>1. one = strlcpy(Pointer(t.stack, slots + (k - 1) * W, base + x + delta),
                      base + x, strings[k], t.off)
    BY DEF LayOne
  <2> HIDE DEF one, base, x, delta
  <2> QED BY <1>5, <2>1 DEF PutArg
<1>7. t.off - (l + 1) = o - y
  <2> HIDE DEF x, y, l
  <2> QED BY <1>1, <1>2
<1> HIDE DEF one
<1> QED BY <1>4, <1>6, <1>7

LEMMA KeptTwice ==
  ASSUME NEW strings, NEW n, NEW slots, NEW base, NEW a, NEW b, NEW c,
         Kept(a, b, strings, n, slots, base), Kept(b, c, strings, n, slots, base)
  PROVE  Kept(a, c, strings, n, slots, base)
  BY DEF Kept

LEMMA PutArgsFacts ==
  ASSUME NEW strings \in Seq(String), NEW s \in PutState, NEW at \in Nat,
         s.off \in Nat, at <= PAGE_SIZE, s.off <= PAGE_SIZE, size(strings) <= s.off,
         Room(strings, Len(strings), PAGE_SIZE, PAGE_SIZE - at, PAGE_SIZE - s.off)
  PROVE  LET t == PutArgs(s, at, strings) IN
         /\ t \in PutState /\ t.off = s.off - size(strings)
         /\ Laid(t.stack, strings, Len(strings), PAGE_SIZE - at, PAGE_SIZE - s.off,
                 USERSTACK - PAGE_SIZE)
         /\ Kept(s.stack, t.stack, strings, PAGE_SIZE, PAGE_SIZE - at, PAGE_SIZE - s.off)
<1> DEFINE N == Len(strings)
           o == s.off
           slots == PAGE_SIZE - at
           base == PAGE_SIZE - o
           Good(t, n) == /\ t.off = o - sizes(strings)[n]
                         /\ Laid(t.stack, strings, n, slots, base, USERSTACK - PAGE_SIZE)
                         /\ Kept(s.stack, t.stack, strings, PAGE_SIZE, slots, base)
<1>1. PICK put \in [0..N -> PutState] :
        /\ put[0] = s /\ put[N] = PutArgs(s, at, strings)
        /\ \A n \in 1..N : put[n] = PutArg(put[n - 1], at, n, strings[n])
  BY PutArgsRec
<1> DEFINE X == {n \in 0..N : Good(put[n], n)}
<1>2. N \in Nat /\ N \in 0..N
  OBVIOUS
<1>3. 0 \in X
  <2>1. sizes(strings)[0] = 0
    BY SizesRec
  <2>2. s.off = o - sizes(strings)[0]
    BY <2>1
  <2>3. Laid(s.stack, strings, 0, slots, base, USERSTACK - PAGE_SIZE)
    BY DEF Laid
  <2>4. Kept(s.stack, s.stack, strings, PAGE_SIZE, slots, base)
    BY DEF Kept
  <2> QED BY <1>1, <1>2, <2>2, <2>3, <2>4
<1>4. ASSUME NEW n \in 1..N, n - 1 \in X PROVE n \in X
  <2> DEFINE t == put[n - 1]
  <2>1. t \in PutState /\ Good(t, n - 1) /\ n \in 0..N /\ put[n] = PutArg(t, at, n, strings[n])
    BY <1>1, <1>2, <1>4
  <2> HIDE DEF t
  <2>2. /\ put[n].off = o - sizes(strings)[n]
        /\ Laid(put[n].stack, strings, n, slots, base, USERSTACK - PAGE_SIZE)
        /\ Kept(t.stack, put[n].stack, strings, PAGE_SIZE, slots, base)
    BY <2>1, PutArgRound
  <2>3. Kept(s.stack, put[n].stack, strings, PAGE_SIZE, slots, base)
    <3> HIDE DEF slots, base
    <3> QED BY <2>1, <2>2, KeptTwice
  <2> QED BY <2>1, <2>2, <2>3
<1>5. N \in X
  <2> HIDE DEF X, N
  <2>1. \A n \in 0..N : n \in X
    BY <1>2, <1>3, <1>4, Induct
  <2> QED BY <1>2, <2>1
<1>6. put[N] \in PutState /\ Good(put[N], N)
  BY <1>1, <1>2, <1>5
<1> QED BY <1>1, <1>6 DEF size

\* Rounding up to a multiple. (elf.c:174)
LEMMA Aligned ==
  ASSUME NEW d \in Nat, d >= 1, NEW x \in Nat, NEW n \in Nat, x <= n, n % d = 0
  PROVE  LET y == ((x + (d - 1)) \div d) * d IN
         y \in Nat /\ x <= y /\ y <= n /\ y % d = 0
<1> DEFINE q == (x + (d - 1)) \div d
           r == (x + (d - 1)) % d
           p == n \div d
<1>1. q \in Nat /\ r \in Nat /\ r < d /\ x + (d - 1) = d * q + r
  BY x + (d - 1) \in Nat, Quotient
<1>2. p \in Nat /\ n = d * p
  <2>1. p \in Nat /\ n = d * p + 0
    BY Quotient
  <2>2. d * p \in Nat
    BY <2>1, SMTT(30)
  <2> QED BY <2>1, <2>2
<1> HIDE DEF q, r, p
<1>3. d * q \in Nat /\ q * d = d * q /\ d * p \in Nat
  BY <1>1, <1>2, SMTT(30)
<1>4. x <= d * q
  BY <1>1, <1>3
<1>5. q <= p
  <2> SUFFICES ASSUME p < q PROVE FALSE
    BY <1>1, <1>2
  <2>1. PICK e \in Nat : q = p + 1 + e
    <3>1. q - p - 1 \in Nat /\ q = p + 1 + (q - p - 1)
      BY <1>1, <1>2
    <3> QED BY <3>1
  <2>2. d * e \in Nat /\ d * (p + 1 + e) = d * p + d + d * e
    BY <1>2, <2>1, SMTT(30)
  <2>3. d * q >= d * p + d
    BY <1>3, <2>1, <2>2
  <2> QED BY <1>1, <1>2, <1>3, <2>3
<1>6. d * q <= n
  <2>1. PICK e \in Nat : p = q + e
    <3>1. p - q \in Nat /\ p = q + (p - q)
      BY <1>1, <1>2, <1>5
    <3> QED BY <3>1
  <2>2. d * e \in Nat /\ d * (q + e) = d * q + d * e
    BY <1>1, <2>1, SMTT(30)
  <2> QED BY <1>2, <1>3, <2>1, <2>2
<1>7. (d * q) % d = 0
  <2> DEFINE a == (d * q) \div d
             b == (d * q) % d
  <2>1. a \in Nat /\ b \in Nat /\ b < d /\ d * q = d * a + b
    BY <1>3, Quotient
  <2> HIDE DEF a, b
  <2>2. d * a \in Nat
    BY <2>1, SMTT(30)
  <2>3. CASE a < q
    <3>1. PICK e \in Nat : q = a + 1 + e
      <4>1. q - a - 1 \in Nat /\ q = a + 1 + (q - a - 1)
        BY <1>1, <2>1, <2>3
      <4> QED BY <4>1
    <3>2. d * e \in Nat /\ d * (a + 1 + e) = d * a + d + d * e
      BY <2>1, <3>1, SMTT(30)
    <3> QED BY <1>3, <2>1, <2>2, <3>1, <3>2
  <2>4. CASE q < a
    <3>1. PICK e \in Nat : a = q + 1 + e
      <4>1. a - q - 1 \in Nat /\ a = q + 1 + (a - q - 1)
        BY <1>1, <2>1, <2>4
      <4> QED BY <4>1
    <3>2. d * e \in Nat /\ d * (q + 1 + e) = d * q + d + d * e
      BY <1>1, <3>1, SMTT(30)
    <3> QED BY <1>3, <2>1, <2>2, <3>1, <3>2
  <2>5. CASE a = q
    BY <1>3, <2>1, <2>5 DEF b
  <2> QED BY <1>1, <2>1, <2>3, <2>4, <2>5
<1> QED BY <1>3, <1>4, <1>6, <1>7 DEF q

\* What the program finds on a stack m with registers r.
Word(m, address) == m[PAGE_SIZE - (USERSTACK - address)]

Finds(m, array, strings) ==
  [k \in 1..Len(strings) |->
     StringAt(m, PAGE_SIZE - (USERSTACK - Word(m, array + (k - 1) * W)))] = strings

Sees(m, r, arguments, env) ==
  /\ r.a0 = Len(arguments)
  /\ Finds(m, r.a1, arguments) /\ Finds(m, r.a2, env)
  /\ Word(m, r.a2 + Len(env) * W) = 0
  /\ r.sp <= r.a1 /\ r.sp >= USERSTACK - PAGE_SIZE
  /\ (USERSTACK - r.sp) % (2 * W) = 0

LEMMA LaidFinds ==
  ASSUME NEW strings \in Seq(String), NEW m \in Memory(PAGE_SIZE), NEW at \in Nat, NEW base,
         Room(strings, Len(strings), PAGE_SIZE, PAGE_SIZE - at, base),
         Laid(m, strings, Len(strings), PAGE_SIZE - at, base, USERSTACK - PAGE_SIZE)
  PROVE  Finds(m, USERSTACK - at, strings)
<1> DEFINE delta == USERSTACK - PAGE_SIZE
<1>1. PAGE_SIZE \in Nat /\ USERSTACK \in Nat /\ delta \in Int
  BY ArgsAssumption
<1>2. ASSUME NEW k \in 1..Len(strings)
      PROVE  StringAt(m, PAGE_SIZE - (USERSTACK - Word(m, USERSTACK - at + (k - 1) * W)))
               = strings[k]
  <2> DEFINE w == (k - 1) * W
             slot == PAGE_SIZE - at + w
  <2>1. StringAt(m, m[slot] - delta) = strings[k]
    <3> HIDE DEF delta
    <3> QED BY <1>1, LaidFound DEF delta
  <2>2. w \in Nat
    <3>1. k - 1 \in Nat
      OBVIOUS
    <3> QED BY <3>1, Pointers
  <2>3. slot \in 0..(PAGE_SIZE - 1)
    <3>1. slot \in Nat /\ slot < PAGE_SIZE
      <4>1. Len(strings) \in 0..Len(strings)
        OBVIOUS
      <4> QED BY <1>1, <4>1, Places
    <3> HIDE DEF slot
    <3> QED BY <1>1, <3>1
  <2> HIDE DEF w
  <2>4. PAGE_SIZE - (USERSTACK - (USERSTACK - at + w)) = slot
    BY <1>1, <2>2
  <2>5. m[slot] \in Int
    <3> HIDE DEF slot
    <3> QED BY <2>3 DEF Memory
  <2> HIDE DEF slot
  <2>6. PAGE_SIZE - (USERSTACK - m[slot]) = m[slot] - delta
    BY <1>1, <2>5
  <2>7. Word(m, USERSTACK - at + w) = m[slot]
    BY <2>4 DEF Word
  <2> QED BY <2>1, <2>6, <2>7 DEF w
<1>3. strings = [k \in 1..Len(strings) |-> strings[k]]
  OBVIOUS
<1> QED BY <1>2, <1>3 DEF Finds

\* What the arguments and the environment take on the stack.
ArgSize(arguments, env) == size(arguments) + size(env) + (Len(arguments) + Len(env) + 2) * W

\* The block of arguments in numbers: A and E units of strings, c and v of
\* pointers, the list of pointers of argv P below the end of the page and that of
\* envp V.
BlockOf(page, w, A, E, c, v, P, V, total) ==
  /\ page \in Nat /\ w \in Nat /\ w > 0
  /\ A \in Nat /\ E \in Nat /\ c \in Nat /\ v \in Nat
  /\ V = v + 2 * w /\ P = c + V /\ total = A + E + P /\ total <= page

\* Where everything then lies.
OffsetsOf(page, w, A, E, c, v, P, V, total) ==
  /\ P \in Nat /\ V \in Nat /\ total \in Nat
  /\ P <= page /\ V <= page /\ P <= total /\ A <= total
  /\ E + P \in Nat /\ E + P <= page /\ total - A = E + P /\ (E + P) - E = P
  /\ page - P \in Nat /\ page - V \in Nat
  /\ page - total \in Nat /\ page - (E + P) \in Nat
  /\ (page - P) + c = page - V /\ (page - V) + v = page - 2 * w
  /\ (page - total) + A = page - (E + P) /\ (page - (E + P)) + E = page - P
  /\ page - total <= page - (E + P) /\ page - (E + P) <= page - P
  /\ page - P <= page - V /\ page - V <= page - 2 * w
  /\ page - 2 * w \in Nat /\ page - 2 * w < page

LEMMA Offsets ==
  ASSUME NEW page, NEW w, NEW A, NEW E, NEW c, NEW v, NEW P, NEW V, NEW total,
         BlockOf(page, w, A, E, c, v, P, V, total)
  PROVE  OffsetsOf(page, w, A, E, c, v, P, V, total)
<1>1. PICK x \in Nat : x = 2 * w /\ x > 0
  BY DEF BlockOf
<1>2. /\ page \in Nat /\ A \in Nat /\ E \in Nat /\ c \in Nat /\ v \in Nat
      /\ V = v + x /\ P = c + V /\ total = A + E + P /\ total <= page
  BY <1>1 DEF BlockOf
<1>3. V \in Nat /\ P \in Nat /\ total \in Nat
  BY <1>2
<1> QED BY <1>1, <1>2, <1>3 DEF OffsetsOf

\* A program that starts finds its arguments and its environment. (elf.c:127-180)
LEMMA InitElfFacts ==
  ASSUME NEW arguments \in Seq(String), NEW env \in Seq(String),
         ArgSize(arguments, env) <= PAGE_SIZE
  PROVE  LET new == task_init_elf(arguments, env) IN
         new.ok /\ Sees(new.stack, new.registers, arguments, env)
<1> DEFINE A == size(arguments)
           E == size(env)
           cW == Len(arguments) * W
           vW == Len(env) * W
           P == (Len(arguments) + Len(env) + 2) * W
           V == (Len(env) + 2) * W
           total == A + E + P
           delta == USERSTACK - PAGE_SIZE
           s == [stack |-> [u \in 0..(PAGE_SIZE - 1) |-> 0], off |-> total]
           a == PutArgs(s, P, arguments)
           e == PutArgs(a, V, env)
           aligned == ((total + 2 * W - 1) \div (2 * W)) * (2 * W)
<1>1. PAGE_SIZE \in Nat /\ USERSTACK \in Nat /\ W \in Nat /\ W > 0
  BY ArgsAssumption
<1>2. /\ A \in Nat /\ E \in Nat /\ cW \in Nat /\ vW \in Nat
      /\ V = vW + 2 * W /\ P = cW + V
  <2>1. Len(arguments) \in Nat /\ Len(env) \in Nat
        /\ Len(arguments) \in 0..Len(arguments) /\ Len(env) \in 0..Len(env)
    OBVIOUS
  <2>2. A \in Nat /\ E \in Nat
    BY <2>1, SizesGrow DEF size
  <2>3. cW \in Nat /\ vW \in Nat /\ V = vW + 2 * W /\ P = cW + V
    BY <1>1, <2>1, SMTT(30)
  <2> QED BY <2>2, <2>3
<1>3. total <= PAGE_SIZE
  BY DEF ArgSize
<1> HIDE DEF A, E, cW, vW, P, V
<1>21. /\ P \in Nat /\ V \in Nat /\ total \in Nat
      /\ P <= PAGE_SIZE /\ V <= PAGE_SIZE /\ P <= total /\ A <= total
      /\ E + P \in Nat /\ E + P <= PAGE_SIZE /\ total - A = E + P /\ (E + P) - E = P
      /\ PAGE_SIZE - P \in Nat /\ PAGE_SIZE - V \in Nat
      /\ PAGE_SIZE - total \in Nat /\ PAGE_SIZE - (E + P) \in Nat
      /\ (PAGE_SIZE - P) + cW = PAGE_SIZE - V /\ (PAGE_SIZE - V) + vW = PAGE_SIZE - 2 * W
      /\ (PAGE_SIZE - total) + A = PAGE_SIZE - (E + P)
      /\ (PAGE_SIZE - (E + P)) + E = PAGE_SIZE - P
      /\ PAGE_SIZE - total <= PAGE_SIZE - (E + P) /\ PAGE_SIZE - (E + P) <= PAGE_SIZE - P
      /\ PAGE_SIZE - P <= PAGE_SIZE - V /\ PAGE_SIZE - V <= PAGE_SIZE - 2 * W
      /\ PAGE_SIZE - 2 * W \in Nat /\ PAGE_SIZE - 2 * W < PAGE_SIZE
  <2>1. BlockOf(PAGE_SIZE, W, A, E, cW, vW, P, V, total)
    BY <1>1, <1>2, <1>3 DEF BlockOf
  <2> HIDE DEF A, E, cW, vW, P, V, total
  <2>2. OffsetsOf(PAGE_SIZE, W, A, E, cW, vW, P, V, total)
    BY <2>1, Offsets, Zenon
  <2> QED BY <2>2, Zenon DEF OffsetsOf
<1>4. P \in Nat /\ V \in Nat /\ total \in Nat /\ delta \in Int
  BY <1>1, <1>21, SMTT(30)
<1> DEFINE p1 == PAGE_SIZE - total
           p2 == PAGE_SIZE - (E + P)
           p3 == PAGE_SIZE - P
           p4 == PAGE_SIZE - V
           p5 == PAGE_SIZE - 2 * W
<1>22. /\ p1 \in Nat /\ p2 \in Nat /\ p3 \in Nat /\ p4 \in Nat /\ p5 \in Nat
      /\ p1 <= p2 /\ p2 <= p3 /\ p3 <= p4 /\ p4 <= p5 /\ p5 < PAGE_SIZE
      /\ p1 + A = p2 /\ p2 + E = p3 /\ p3 + cW = p4 /\ p4 + vW = p5
  BY <1>21
<1> HIDE DEF p1, p2, p3, p4, p5
<1>5. s \in PutState
  <2>1. [u \in 0..(PAGE_SIZE - 1) |-> 0] \in Memory(PAGE_SIZE)
    BY DEF Memory
  <2> QED BY <1>4, <2>1 DEF PutState
<1>6. Room(arguments, Len(arguments), PAGE_SIZE, p3, p1)
  <2>1. p3 + cW <= PAGE_SIZE /\ p1 + A <= PAGE_SIZE /\ p1 + A <= p3
    BY <1>1, <1>22
  <2> QED BY <1>22, <2>1 DEF Room, A, cW, size
<1>7. /\ a \in PutState /\ a.off = total - A
      /\ Laid(a.stack, arguments, Len(arguments), p3, p1, delta)
      /\ Kept(s.stack, a.stack, arguments, PAGE_SIZE, p3, p1)
  <2>1. s.off = total
    OBVIOUS
  <2>2. size(arguments) <= s.off
    BY <1>21, <2>1 DEF A
  <2>3. Room(arguments, Len(arguments), PAGE_SIZE, PAGE_SIZE - P, PAGE_SIZE - s.off)
    BY <1>6, <2>1 DEF p1, p3
  <2>4. s.off \in Nat /\ s.off <= PAGE_SIZE /\ P \in Nat /\ P <= PAGE_SIZE
    BY <1>3, <1>4, <1>21, <2>1
  <2> HIDE DEF s
  <2>5. /\ a \in PutState /\ a.off = s.off - size(arguments)
        /\ Laid(a.stack, arguments, Len(arguments), PAGE_SIZE - P, PAGE_SIZE - s.off,
                USERSTACK - PAGE_SIZE)
        /\ Kept(s.stack, a.stack, arguments, PAGE_SIZE, PAGE_SIZE - P, PAGE_SIZE - s.off)
    BY <1>5, <2>2, <2>3, <2>4, PutArgsFacts
  <2> HIDE DEF a, total
  <2> QED BY <2>1, <2>5 DEF A, p1, p3
<1> HIDE DEF a
<1>8. a.off = E + P
  BY <1>7, <1>21
<1>9. Room(env, Len(env), PAGE_SIZE, p4, p2)
  <2>1. p4 + vW <= PAGE_SIZE /\ p2 + E <= PAGE_SIZE /\ p2 + E <= p4
    BY <1>1, <1>22
  <2> QED BY <1>22, <2>1 DEF Room, E, vW, size
<1>10. /\ e \in PutState /\ e.off = P
       /\ Laid(e.stack, env, Len(env), p4, p2, delta)
       /\ Kept(a.stack, e.stack, env, PAGE_SIZE, p4, p2)
  <2>1. E <= E + P
    BY <1>2, <1>4
  <2>2. size(env) <= a.off
    BY <1>8, <2>1 DEF E
  <2>3. /\ a.off \in Nat /\ a.off <= PAGE_SIZE /\ V \in Nat /\ V <= PAGE_SIZE
        /\ Room(env, Len(env), PAGE_SIZE, PAGE_SIZE - V, PAGE_SIZE - a.off)
    BY <1>4, <1>21, <1>8, <1>9 DEF p2, p4
  <2>4. /\ e \in PutState /\ e.off = a.off - size(env)
        /\ Laid(e.stack, env, Len(env), PAGE_SIZE - V, PAGE_SIZE - a.off,
                USERSTACK - PAGE_SIZE)
        /\ Kept(a.stack, e.stack, env, PAGE_SIZE, PAGE_SIZE - V, PAGE_SIZE - a.off)
    BY <1>7, <2>2, <2>3, PutArgsFacts
  <2> HIDE DEF e
  <2>5. e.off = P
    BY <1>21, <1>8, <2>4 DEF E
  <2> QED BY <1>8, <2>4, <2>5 DEF p2, p4
<1> HIDE DEF e
<1>12. \A u \in 0..(PAGE_SIZE - 1) :
         (u < p4 \/ u >= p5) /\ (u < p2 \/ u >= p3) => e.stack[u] = a.stack[u]
  <2>1. p4 + Len(env) * W = p5 /\ p2 + size(env) = p3
    BY <1>22 DEF E, vW
  <2> QED BY <1>10, <2>1 DEF Kept
<1>13. Laid(e.stack, arguments, Len(arguments), p3, p1, delta)
  <2>1. ASSUME NEW u \in p3..(p4 - 1) PROVE e.stack[u] = a.stack[u]
    <3>1. u \in 0..(PAGE_SIZE - 1) /\ u < p4 /\ u >= p3
      BY <1>1, <1>22
    <3> QED BY <1>12, <3>1
  <2>2. ASSUME NEW u \in p1..(p2 - 1) PROVE e.stack[u] = a.stack[u]
    <3>1. u \in 0..(PAGE_SIZE - 1) /\ u < p4 /\ u < p2
      BY <1>1, <1>22
    <3> QED BY <1>12, <3>1
  <2>3. Len(arguments) \in 0..Len(arguments)
    OBVIOUS
  <2>4. p3 + Len(arguments) * W = p4 /\ p1 + size(arguments) = p2
    BY <1>22 DEF A, cW
  <2>5. /\ \A u \in p3..((p3 + Len(arguments) * W) - 1) : e.stack[u] = a.stack[u]
        /\ \A u \in p1..((p1 + size(arguments)) - 1) : e.stack[u] = a.stack[u]
    BY <2>1, <2>2, <2>4
  <2> HIDE DEF delta
  <2> QED BY <1>1, <1>6, <1>7, <2>3, <2>5, LaidKept
<1>14. e.stack[p5] = 0
  <2>1. p5 \in 0..(PAGE_SIZE - 1) /\ p5 >= p5 /\ p5 >= p4 /\ p5 >= p3 /\ p5 >= p2
    BY <1>1, <1>22
  <2>2. e.stack[p5] = a.stack[p5]
    BY <1>12, <2>1
  <2>3. a.stack[p5] = s.stack[p5]
    <3>1. p3 + Len(arguments) * W = p4 /\ p1 + size(arguments) = p2
      BY <1>22 DEF A, cW
    <3> QED BY <1>7, <2>1, <3>1 DEF Kept
  <2>4. s.stack[p5] = 0
    BY <2>1
  <2> QED BY <2>2, <2>3, <2>4
<1>15. Finds(e.stack, USERSTACK - P, arguments) /\ Finds(e.stack, USERSTACK - V, env)
  <2>1. e.stack \in Memory(PAGE_SIZE)
    BY <1>10 DEF PutState
  <2>2. Finds(e.stack, USERSTACK - P, arguments)
    BY <1>4, <1>6, <1>13, <2>1, LaidFinds DEF p3
  <2>3. Finds(e.stack, USERSTACK - V, env)
    BY <1>4, <1>9, <1>10, <2>1, LaidFinds DEF p4
  <2> QED BY <2>2, <2>3
<1>16. Word(e.stack, USERSTACK - V + Len(env) * W) = 0
  <2>1. PAGE_SIZE - (USERSTACK - (USERSTACK - V + vW)) = (PAGE_SIZE - V) + vW
    <3>1. V \in Nat /\ vW \in Nat
      BY <1>2, <1>4
    <3> QED BY <1>1, <3>1
  <2>2. (PAGE_SIZE - V) + vW = p5
    BY <1>22 DEF p4
  <2> QED BY <1>14, <2>1, <2>2 DEF Word, vW
<1>17. aligned \in Nat /\ total <= aligned /\ aligned <= PAGE_SIZE /\ aligned % (2 * W) = 0
  <2> DEFINE d == 2 * W
  <2>1. d \in Nat /\ d >= 1
    BY <1>1
  <2>3. PAGE_SIZE % d = 0
    BY ArgsAssumption
  <2> HIDE DEF d, total
  <2>2. LET y == ((total + (d - 1)) \div d) * d IN
        y \in Nat /\ total <= y /\ y <= PAGE_SIZE /\ y % d = 0
    BY <1>1, <1>3, <1>4, <2>1, <2>3, Aligned
  <2> QED BY <2>2 DEF d
<1> HIDE DEF aligned
<1>18. /\ USERSTACK - aligned <= USERSTACK - P
       /\ USERSTACK - aligned >= USERSTACK - PAGE_SIZE
       /\ (USERSTACK - (USERSTACK - aligned)) % (2 * W) = 0
  <2>1. USERSTACK - (USERSTACK - aligned) = aligned
    BY <1>1, <1>17
  <2>2. /\ USERSTACK - aligned <= USERSTACK - P
        /\ USERSTACK - aligned >= USERSTACK - PAGE_SIZE
    <3>1. P \in Nat /\ total \in Nat /\ P <= total
      BY <1>21
    <3> HIDE DEF total
    <3> QED BY <1>1, <1>17, <3>1
  <2> QED BY <1>17, <2>1, <2>2
<1> DEFINE new == [ok |-> e.off = P, stack |-> e.stack,
                   registers |-> [a0 |-> Len(arguments), a1 |-> USERSTACK - P,
                                  a2 |-> USERSTACK - V, sp |-> USERSTACK - aligned]]
<1>19. task_init_elf(arguments, env) = new
  <2>1. ~(total > PAGE_SIZE)
    BY <1>1, <1>3, <1>4
  <2> QED BY <2>1 DEF task_init_elf, envp_off, user_stack_addr, A, E, P, V, a, e, aligned
<1>20. new.ok /\ Sees(new.stack, new.registers, arguments, env)
  BY <1>10, <1>15, <1>16, <1>18 DEF Sees
<1> HIDE DEF new
<1> QED BY <1>19, <1>20

-----------------------------------------------------------------------------
(* What a call holds                                                       *)

USE DEF halt, panic, program

\* The buffer of argv is held while envp is copied.
Held == IF which = "argv" THEN 0 ELSE 1

\* Between calls, NothingLeftBehind.  Inside, a copy that may meet a page fault
\* is the one whose handler is stored, and its buffer is the last one counted.
Holding ==
  /\ pc \in {"user", "user_copy_args", "count", "copy", "task_init_elf", "panic", "corrupt"}
  /\ which \in {"argv", "envp"}
  /\ buffers \in Int /\ before.buffers \in Int
  /\ NothingLeftBehind
  /\ pc = "user_copy_args" =>
       /\ buffers = before.buffers + Held
       /\ sum => which = "argv" /\ before.sum
  /\ pc \in {"count", "copy"} =>
       /\ sum /\ page_fault_handler = which
       /\ buffers = before.buffers + Held + 1
  /\ pc = "copy" => ~TooMany(args)
  /\ pc = "task_init_elf" =>
       /\ which = "envp"
       /\ envp # NULL => ~sum /\ buffers = before.buffers + 2

LEMMA HoldingInit == Init => Holding
  BY DEF Init, Holding, NothingLeftBehind

\* user_copy_args gives up: the error is the result of the call, or, for envp,
\* the pointer that task_init_elf gets. (mm.c:459-487, syscall.c:67)
LEMMA HoldingFailed ==
  ASSUME Holding, pc \in {"user_copy_args", "count", "copy"},
         NEW err \in {"EFAULT", "E2BIG"}, Failed(err),
         buffers' \in Int,
         which = "argv" =>
           /\ sum' => before.sum \/ (err = "E2BIG" /\ TooMany(args))
           /\ buffers' = before.buffers + IF err = "E2BIG" /\ TooMany(args) THEN 1 ELSE 0
  PROVE  Holding'
<1>1. CASE which = "argv"
  BY <1>1 DEF Holding, Failed, Store, NothingLeftBehind, Held, args, TooMany
<1>2. CASE which = "envp"
  BY <1>2 DEF Holding, Failed, Store, NothingLeftBehind, Held, args, TooMany
<1> QED BY <1>1, <1>2 DEF Holding

LEMMA HoldingHalt ==
  ASSUME Holding, NEW how \in {"panic", "corrupt"}, halt(how)
  PROVE  Holding'
  BY DEF Holding, NothingLeftBehind, Held, args, TooMany

LEMMA HoldingCleanup ==
  ASSUME Holding, pc \in {"count", "copy"},
         NEW err \in {"EFAULT", "E2BIG"}, cleanup(err),
         err = "E2BIG" => ~TooMany(args)
  PROVE  Holding'
<1>1. /\ Failed(err) /\ sum' = FALSE /\ buffers' = buffers - 1
      /\ buffers = before.buffers + Held + 1 /\ buffers \in Int /\ before.buffers \in Int
  BY DEF cleanup, Holding
<1>2. buffers' \in Int /\ (which = "argv" => buffers' = before.buffers)
  BY <1>1 DEF Held
<1> QED BY <1>1, <1>2, HoldingFailed

\* A page fault in a copy ends in its cleanup. (irq.c:73-84)
LEMMA HoldingFault ==
  ASSUME Holding, pc \in {"count", "copy", "task_init_elf"}, PageFault
  PROVE  Holding'
<1>1. CASE panic
  BY <1>1, HoldingHalt
<1>2. CASE halt("corrupt")
  BY <1>2, HoldingHalt
<1>3. CASE cleanup("EFAULT") /\ pc \in {"count", "copy"}
  BY <1>3, HoldingCleanup
<1> QED BY <1>1, <1>2, <1>3 DEF PageFault

LEMMA HoldingStep == Holding /\ [Next]_vars => Holding'
<1> SUFFICES ASSUME Holding, [Next]_vars PROVE Holding'
  OBVIOUS
<1>1. ASSUME NEW c \in Calls, Execve(c) PROVE Holding'
  BY <1>1 DEF Execve, Holding, NothingLeftBehind, Held
<1>2. CASE CopyFromUser
  BY <1>2 DEF CopyFromUser, Holding, NothingLeftBehind, Held
<1>3. CASE Enter
  <2>1. CASE ~args.ok
    BY <1>3, <2>1, HoldingFailed DEF Enter, Holding, Held
  <2>2. CASE args.ok
    BY <1>3, <2>2 DEF Enter, Holding, Held, NothingLeftBehind, Store
  <2> QED BY <2>1, <2>2
<1>4. CASE Count
  <2>1. CASE 0 \in args.unreadable
    BY <1>4, <2>1, HoldingFault DEF Count
  <2>2. CASE 0 \notin args.unreadable /\ (argc + 1) * W > ARG_MAX
    <3>1. TooMany(args)
      BY <2>2 DEF TooMany, argc
    <3> QED BY <1>4, <2>2, <3>1, HoldingFailed DEF Count, Holding, Held
  <2>3. CASE 0 \notin args.unreadable /\ ~((argc + 1) * W > ARG_MAX)
    <3>1. ~TooMany(args)
      BY <2>3 DEF TooMany, argc
    <3> QED BY <1>4, <2>3, <3>1 DEF Count, Holding, Held, NothingLeftBehind, args, TooMany
  <2> QED BY <2>1, <2>2, <2>3
<1>5. CASE CopyString
  <2> DEFINE n == ARG_MAX - off
             memory == strlcpy(Pointer(buf, i * W, off), off, args.strings[i + 1], n)
  <2>1. CASE n = 0
    BY <1>5, <2>1, HoldingHalt DEF CopyString
  <2>2. CASE n # 0 /\ i + 1 \in args.unreadable
    BY <1>5, <2>2, HoldingFault DEF CopyString
  <2>3. CASE cleanup("E2BIG")
    BY <1>5, <2>3, HoldingCleanup DEF CopyString, Holding
  <2>4. CASE UNCHANGED <<pc, call, which, buffers, before, sum, page_fault_handler, result>>
    <3>1. pc = "copy"
      BY <1>5 DEF CopyString
    <3> QED BY <3>1, <2>4 DEF Holding, Held, NothingLeftBehind, args, TooMany
  <2> QED BY <1>5, <2>1, <2>2, <2>3, <2>4 DEF CopyString
<1>6. CASE CopyDone
  BY <1>6 DEF CopyDone, Holding, Held, NothingLeftBehind
<1>7. CASE InitElf
  <2>1. CASE PageFault
    BY <1>7, <2>1, HoldingFault DEF InitElf
  <2>2. CASE panic
    BY <2>2, HoldingHalt
  <2>3. CASE envp # NULL /\ pc' = "user" /\ result' = "ok"
             /\ UNCHANGED <<call, which, buffers, before, sum>>
    BY <1>7, <2>3 DEF InitElf, Holding, NothingLeftBehind, Held
  <2> QED BY <1>7, <2>1, <2>2, <2>3 DEF InitElf
<1>8. CASE UNCHANGED vars
  BY <1>8 DEF vars, Holding, NothingLeftBehind, Held, args, TooMany
<1> QED BY <1>1, <1>2, <1>3, <1>4, <1>5, <1>6, <1>7, <1>8 DEF Next, Halted

\* A call that fails leaves no buffer, no SUM and no armed handler behind, but
\* for a list with too many strings. (user_copy_args mm.c:442-488)
THEOREM FailureLeavesNothing == Spec => []NothingLeftBehind
<1>1. Holding => NothingLeftBehind
  BY DEF Holding
<1> QED BY <1>1, HoldingInit, HoldingStep, PTL DEF Spec

-----------------------------------------------------------------------------
(* What a call has read                                                    *)

\* A finished buffer.
Copied(a, memory) ==
  /\ Readable(a) /\ Size(a) <= ARG_MAX
  /\ memory \in Memory(ARG_MAX) /\ Strings(memory) = a.strings

\* The loop over the strings: i of them are in the buffer.
Copying(a, memory) ==
  /\ 0 \notin a.unreadable
  /\ i \in 0..Len(a.strings) /\ \A k \in 1..i : k \notin a.unreadable
  /\ off = (Len(a.strings) + 1) * W + sizes(a.strings)[i] /\ off <= ARG_MAX
  /\ Laid(memory, a.strings, i, 0, (Len(a.strings) + 1) * W, 0)

Data ==
  /\ call.argv \in Array /\ call.envp \in Array
  /\ ResultRight
  /\ pc = "user" /\ Accepted => Sees(stack, registers, call.argv.strings, call.envp.strings)
  /\ which = "envp" /\ pc \in {"user_copy_args", "count", "copy", "task_init_elf"} =>
       Copied(call.argv, argv)
  /\ pc \in {"count", "copy"} => args.ok /\ buf \in Memory(ARG_MAX)
  /\ pc = "copy" => Copying(args, buf)
  /\ pc = "task_init_elf" =>
       IF envp = NULL THEN ~(Readable(call.envp) /\ Size(call.envp) <= ARG_MAX)
                      ELSE Copied(call.envp, envp)

LEMMA ArrayFacts ==
  ASSUME NEW a \in Array
  PROVE  /\ a.strings \in Seq(String) /\ Len(a.strings) \in Nat
         /\ a.unreadable \subseteq 0..Len(a.strings) /\ a.ok \in BOOLEAN
         /\ size(a.strings) \in Nat /\ (Len(a.strings) + 1) * W \in Nat /\ Size(a) \in Nat
<1>1. /\ a.strings \in Seq(String) /\ Len(a.strings) \in Nat
      /\ a.unreadable \subseteq 0..Len(a.strings) /\ a.ok \in BOOLEAN
  BY DEF Array
<1>2. size(a.strings) \in Nat
  <2>1. Len(a.strings) \in 0..Len(a.strings)
    BY <1>1
  <2> QED BY <1>1, <2>1, SizesGrow DEF size
<1>3. (Len(a.strings) + 1) * W \in Nat
  BY <1>1, Pointers
<1> QED BY <1>1, <1>2, <1>3 DEF Size

LEMMA NotNull ==
  ASSUME NEW memory \in Memory(ARG_MAX)
  PROVE  memory # NULL
<1>1. 0 \in DOMAIN memory
  BY ArgMax DEF Memory
<1>2. 0 \notin DOMAIN NULL
  BY DEF NULL
<1> QED BY <1>1, <1>2

\* Both lists together on the stack.
LEMMA ArgSizeSum ==
  ASSUME NEW a \in Array, NEW e \in Array
  PROVE  ArgSize(a.strings, e.strings) = Size(a) + Size(e)
<1> DEFINE c == Len(a.strings)
           v == Len(e.strings)
           A == size(a.strings)
           E == size(e.strings)
<1>1. c \in Nat /\ v \in Nat /\ A \in Nat /\ E \in Nat /\ W \in Nat
  BY ArrayFacts, ArgMax
<1> HIDE DEF c, v, A, E
<1>2. /\ (c + v + 2) * W = (c + 1) * W + (v + 1) * W
      /\ (c + 1) * W \in Nat /\ (v + 1) * W \in Nat
  BY <1>1, SMTT(30)
<1> DEFINE cW == (c + 1) * W
           vW == (v + 1) * W
           P == (c + v + 2) * W
<1>3. P = cW + vW /\ cW \in Nat /\ vW \in Nat
  BY <1>2
<1> HIDE DEF cW, vW, P
<1>4. A + E + P = (cW + A) + (vW + E)
  BY <1>1, <1>3
<1> QED BY <1>4 DEF ArgSize, Size, A, E, P, cW, vW, c, v

LEMMA DataHalt ==
  ASSUME Data, NEW how \in {"panic", "corrupt"}, halt(how), ~Fits(call)
  PROVE  Data'
<1>1. pc' = how /\ UNCHANGED <<call, which, argv, envp, result, stack, registers>>
  OBVIOUS
<1>2. ResultRight'
  BY <1>1 DEF ResultRight, Fits, Readable, Size, size, sizes
<1> QED BY <1>1, <1>2 DEF Data

\* user_copy_args gives up.
LEMMA DataFailed ==
  ASSUME Holding, Data, pc \in {"user_copy_args", "count", "copy"},
         NEW err \in {"EFAULT", "E2BIG"}, Failed(err),
         err = "EFAULT" => ~Readable(args), err = "E2BIG" => Size(args) > ARG_MAX
  PROVE  Data'
<1>1. which \in {"argv", "envp"} /\ UNCHANGED <<call, which, stack, registers>>
  BY DEF Failed, Holding
<1>2. args \in Array
  BY <1>1 DEF Data, args
<1>3. Size(args) \in Nat /\ ARG_MAX \in Nat
  BY <1>2, ArrayFacts, ArgMax
<1>4. CASE which = "argv"
  <2>1. pc' = "user" /\ result' = err /\ args = call.argv
    BY <1>4 DEF Failed, args
  <2>2. ~Fits(call)
    BY <1>3, <2>1 DEF Fits
  <2>3. (~Fits(call))'
    BY <1>1, <2>2
  <2>4. /\ err = "EFAULT" => (~Readable(call.argv))'
        /\ err = "E2BIG" => (Size(call.argv) > ARG_MAX)'
    BY <1>1, <2>1
  <2>5. (~Accepted)'
    BY <2>1 DEF Accepted
  <2>6. ResultRight'
    BY <2>1, <2>3, <2>4, <2>5 DEF ResultRight
  <2> QED BY <1>1, <1>4, <2>1, <2>5, <2>6 DEF Data
<1>5. CASE which = "envp"
  <2>1. pc' = "task_init_elf" /\ result' = result /\ args = call.envp
        /\ envp' = NULL /\ argv' = argv
    BY <1>5 DEF Failed, args, Store
  <2>2. ~(Readable(call.envp) /\ Size(call.envp) <= ARG_MAX)
    BY <1>3, <2>1
  <2>3. (~(Readable(call.envp) /\ Size(call.envp) <= ARG_MAX))'
    BY <1>1, <2>2
  <2>4. Copied(call.argv, argv)
    BY <1>5 DEF Data
  <2>5. Copied(call.argv, argv)'
    BY <1>1, <2>1, <2>4
  <2>6. ResultRight'
    BY <2>1 DEF ResultRight
  <2> QED BY <1>1, <2>1, <2>3, <2>5, <2>6 DEF Data
<1> QED BY <1>1, <1>4, <1>5

\* A page fault in a copy means that the list cannot be read.
LEMMA DataFault ==
  ASSUME Holding, Data, pc \in {"count", "copy"}, PageFault, args.unreadable # {}
  PROVE  Data'
<1>1. ~Readable(args)
  BY DEF Readable
<1>2. which \in {"argv", "envp"} /\ sum /\ page_fault_handler = which
  BY DEF Holding
<1>3. cleanup("EFAULT")
  BY <1>2 DEF PageFault
<1> QED BY <1>1, <1>3, DataFailed DEF cleanup

LEMMA DataInit == Init => Data
<1> SUFFICES ASSUME Init PROVE Data
  OBVIOUS
<1> DEFINE a == <<Name>>
           e == << >>
           n == Len(Name)
<1>1. Name \in String /\ n \in Nat /\ 4 * W + n < PAGE_SIZE /\ PAGE_SIZE \in Nat
  BY ArgsAssumption, StringFacts
<1>2. a \in Seq(String) /\ e \in Seq(String) /\ Len(a) = 1 /\ Len(e) = 0 /\ a[1] = Name
  BY <1>1
<1>3. size(a) = n + 1
  <2>1. /\ sizes(a)[0] = 0
        /\ \A k \in 1..Len(a) : sizes(a)[k] = sizes(a)[k - 1] + Len(a[k]) + 1
    BY <1>2, SizesRec
  <2>2. sizes(a)[1] = sizes(a)[1 - 1] + Len(a[1]) + 1
    BY <1>2, <2>1
  <2>3. sizes(a)[1] = 0 + n + 1
    BY <1>2, <2>1, <2>2
  <2> QED BY <1>1, <1>2, <2>3 DEF size
<1>4. size(e) = 0
  BY <1>2, SizesRec DEF size
<1>5. call.argv.strings = a /\ call.envp.strings = e /\ Readable(call.argv) /\ Readable(call.envp)
      /\ call.argv \in Array /\ call.envp \in Array
  BY <1>2 DEF Init, Readable, Array
<1>6. Size(call.argv) = 2 * W + n + 1 /\ Size(call.envp) = W
  <2>1. W \in Nat /\ (1 + 1) * W = 2 * W /\ (0 + 1) * W = W
    BY ArgMax
  <2> QED BY <1>1, <1>2, <1>3, <1>4, <1>5, <2>1 DEF Size
<1>7. /\ Size(call.argv) <= ARG_MAX /\ Size(call.envp) <= ARG_MAX
      /\ Size(call.argv) + Size(call.envp) <= PAGE_SIZE
  <2>1. W \in Nat /\ W > 0 /\ ARG_MAX + 2 * W = PAGE_SIZE /\ ARG_MAX \in Nat
    BY ArgMax
  <2> HIDE DEF n
  <2> QED BY <1>1, <1>6, <2>1
<1>8. Fits(call)
  BY <1>5, <1>7 DEF Fits
<1>9. ArgSize(a, e) <= PAGE_SIZE
  BY <1>5, <1>7, ArgSizeSum
<1>10. Sees(stack, registers, a, e)
  <2> HIDE DEF a, e
  <2>1. LET new == task_init_elf(a, e) IN Sees(new.stack, new.registers, a, e)
    BY <1>2, <1>9, InitElfFacts
  <2>2. stack = task_init_elf(a, e).stack /\ registers = task_init_elf(a, e).registers
    BY DEF Init, a, e
  <2> QED BY <2>1, <2>2
<1>11. pc = "user" /\ result = "main" /\ which = "argv"
  BY DEF Init
<1>12. ResultRight
  BY <1>8, <1>11 DEF ResultRight, Accepted
<1> QED BY <1>5, <1>10, <1>11, <1>12 DEF Data

LEMMA DataEnter == ASSUME Holding, Data, Enter PROVE Data'
<1>1. pc = "user_copy_args" /\ which \in {"argv", "envp"}
  BY DEF Enter, Holding
<1>2. CASE ~args.ok
  <2>1. Failed("EFAULT") /\ ~Readable(args)
    BY <1>2 DEF Enter, Readable
  <2> QED BY <1>1, <2>1, DataFailed
<1>3. CASE args.ok
  <2> DEFINE new == [k \in 0..(ARG_MAX - 1) |-> Stale]
  <2>1. new \in Memory(ARG_MAX)
    BY ArgsAssumption DEF Memory, Stale
  <2>2. pc' = "count" /\ Store(new) /\ UNCHANGED <<call, which, result, stack, registers>>
    BY <1>3 DEF Enter
  <2> HIDE DEF new
  <2>3. args' = args /\ args.ok /\ buf' = new
    BY <1>1, <1>3, <2>2 DEF args, buf, Store
  <2>4. ResultRight'
    BY <2>2 DEF ResultRight
  <2>5. which = "envp" => Copied(call.argv, argv)'
    <3> HAVE which = "envp"
    <3>1. Copied(call.argv, argv) /\ argv' = argv /\ call' = call
      BY <1>1, <2>2 DEF Data, Store
    <3> QED BY <3>1
  <2> QED BY <1>1, <2>1, <2>2, <2>3, <2>4, <2>5 DEF Data
<1> QED BY <1>2, <1>3

LEMMA DataCount == ASSUME Holding, Data, Count PROVE Data'
<1>1. pc = "count" /\ which \in {"argv", "envp"} /\ args \in Array
  BY DEF Count, Holding, Data, args
<1>2. CASE 0 \in args.unreadable
  BY <1>1, <1>2, DataFault DEF Count
<1>3. CASE 0 \notin args.unreadable /\ (argc + 1) * W > ARG_MAX
  <2>1. Failed("E2BIG")
    BY <1>3 DEF Count
  <2>2. Size(args) > ARG_MAX
    <3> DEFINE x == (argc + 1) * W
    <3>1. x \in Nat /\ size(args.strings) \in Nat /\ Size(args) = x + size(args.strings)
      BY <1>1, ArrayFacts DEF argc, Size
    <3>2. x > ARG_MAX
      BY <1>3
    <3> HIDE DEF x
    <3> QED BY <3>1, <3>2, ArgMax
  <2> QED BY <1>1, <2>1, <2>2, DataFailed
<1>4. CASE 0 \notin args.unreadable /\ ~((argc + 1) * W > ARG_MAX)
  <2>1. pc' = "copy" /\ i' = 0 /\ off' = (argc + 1) * W
        /\ UNCHANGED <<call, which, argv, envp, result, stack, registers>>
    BY <1>4 DEF Count
  <2>2. args' = args /\ buf' = buf /\ args.ok /\ buf \in Memory(ARG_MAX)
    BY <1>1, <2>1 DEF args, buf, Data
  <2>3. Copying(args, buf)'
    <3> DEFINE x == (Len(args.strings) + 1) * W
               z == sizes(args.strings)
    <3>1. x \in Nat /\ ~(x > ARG_MAX) /\ z[0] = 0 /\ 0 \in 0..Len(args.strings)
      BY <1>1, <1>4, ArrayFacts, SizesRec DEF argc
    <3>2. off' = x /\ off' = x + z[0] /\ off' <= ARG_MAX
      <4> HIDE DEF z
      <4>1. off' = x
        BY <2>1 DEF argc
      <4> HIDE DEF x
      <4> QED BY <3>1, <4>1, ArgMax
    <3>3. Laid(buf, args.strings, 0, 0, x, 0)
      BY DEF Laid
    <3> HIDE DEF x, z
    <3>4. 0 \notin args.unreadable /\ \A k \in 1..0 : k \notin args.unreadable
      BY <1>4
    <3> QED BY <2>1, <2>2, <3>1, <3>2, <3>3, <3>4 DEF Copying, x, z
  <2>4. ResultRight'
    BY <2>1 DEF ResultRight
  <2>5. which = "envp" => Copied(call.argv, argv)'
    <3> HAVE which = "envp"
    <3>1. Copied(call.argv, argv)
      BY <1>1 DEF Data
    <3> QED BY <2>1, <3>1
  <2> QED BY <1>1, <2>1, <2>2, <2>3, <2>4, <2>5 DEF Data
<1> QED BY <1>2, <1>3, <1>4

LEMMA DataExecve == ASSUME Holding, Data, NEW c \in Calls, Execve(c) PROVE Data'
<1>1. /\ call' = c /\ pc' = "user_copy_args" /\ which' = "argv"
      /\ UNCHANGED <<result, stack, registers>>
  BY DEF Execve
<1>2. c.argv \in Array /\ c.envp \in Array
  BY ArgsAssumption
<1>3. (call.argv \in Array /\ call.envp \in Array)'
  BY <1>1, <1>2
<1>4. ResultRight'
  BY <1>1 DEF ResultRight
<1> QED BY <1>1, <1>3, <1>4 DEF Data

LEMMA DataSame ==
  ASSUME Holding, Data, UNCHANGED <<pc, call, which, i, off, argv, envp, result, stack, registers>>
  PROVE  Data'
<1>1. ResultRight'
  BY DEF Data, ResultRight, Accepted, Fits, Readable, Size, size, sizes
<1>2. UNCHANGED <<args, buf>>
  BY DEF args, buf
<1> QED BY <1>1, <1>2 DEF Data, Accepted, Copied, Copying

\* One string. (mm.c:472-483)
LEMMA DataCopyString == ASSUME Holding, Data, CopyString PROVE Data'
<1> DEFINE strings == args.strings
           k == i + 1
           z == sizes(strings)
           x == z[i]
           l == Len(strings[k])
           base == (Len(strings) + 1) * W
           n == ARG_MAX - off
           pointed == Pointer(buf, i * W, off)
           copied == strlcpy(pointed, off, strings[k], n)
           one == LayOne(buf, strings, k, 0, base, 0, n)
<1>1. /\ pc = "copy" /\ which \in {"argv", "envp"} /\ args \in Array
      /\ args.ok /\ buf \in Memory(ARG_MAX) /\ Copying(args, buf)
  BY DEF CopyString, Holding, Data, args
<1>2. /\ strings \in Seq(String) /\ Len(strings) \in Nat /\ base \in Nat
      /\ size(strings) \in Nat /\ Size(args) = base + size(strings)
  BY <1>1, ArrayFacts DEF Size
<1>3. i \in 0..Len(strings) /\ i < Len(strings)
  BY <1>1 DEF CopyString, Copying, argc
<1>4. k \in 1..Len(strings) /\ k - 1 = i /\ i \in Nat /\ strings[k] \in String
  BY <1>2, <1>3
<1>5. /\ x \in Nat /\ l \in Nat /\ z[k] = x + l + 1 /\ z[k] <= size(strings)
      /\ z[k] \in Nat
  <2>1. k \in 0..Len(strings) /\ Len(strings) \in 0..Len(strings)
    BY <1>2, <1>4
  <2>2. z[k] = z[k - 1] + l + 1
    BY <1>2, <1>4, SizesRec
  <2>3. z[k] <= z[Len(strings)]
    BY <1>2, <2>1, SizesGrow
  <2>4. x \in Nat /\ z[k] \in Nat
    BY <1>2, <1>3, <2>1, SizesGrow
  <2>5. l \in Nat
    BY <1>4, StringFacts
  <2> QED BY <1>4, <2>2, <2>3, <2>4, <2>5 DEF size
<1>6. off = base + x /\ off <= ARG_MAX /\ ARG_MAX \in Nat
  BY <1>1, ArgMax DEF Copying
<1>7. off \in Nat /\ n \in Nat /\ Size(args) >= (off + l) + 1
  <2> HIDE DEF base, x, l, z
  <2> QED BY <1>2, <1>5, <1>6
<1>8. l >= n => Size(args) > ARG_MAX
  <2> HIDE DEF base, x, l, z
  <2> QED BY <1>2, <1>5, <1>6, <1>7
<1>9. CASE n = 0
  <2>1. panic
    BY <1>9 DEF CopyString
  <2>2. l >= n
    BY <1>5, <1>9
  <2>3. ~Fits(call)
    <3>1. Size(args) > ARG_MAX /\ Size(args) \in Nat
      BY <1>1, <1>8, <2>2, ArrayFacts
    <3>2. ~(Size(args) <= ARG_MAX)
      BY <1>6, <3>1
    <3> QED BY <1>1, <3>2 DEF Fits, args
  <2> QED BY <2>1, <2>3, DataHalt DEF panic
<1>10. CASE n # 0 /\ k \in args.unreadable
  <2>1. PageFault
    BY <1>10 DEF CopyString
  <2> QED BY <1>1, <1>10, <2>1, DataFault
<1>11. CASE n # 0 /\ k \notin args.unreadable /\ Truncated(copied.retval, n)
  <2>1. cleanup("E2BIG")
    BY <1>11 DEF CopyString
  <2>2. Size(args) > ARG_MAX
    <3>1. SUFFICES ASSUME ~(l >= n) PROVE FALSE
      BY <1>8
    <3>2. l < n /\ off + l < ARG_MAX
      <4> HIDE DEF x, l, base
      <4> QED BY <1>5, <1>6, <1>7, <3>1
    <3>3. i * W \in Nat /\ i * W < ARG_MAX
      <4>1. i * W \in Nat /\ Len(strings) * W \in Nat /\ i * W + W <= Len(strings) * W
            /\ base = Len(strings) * W + W
        BY <1>2, <1>3, <1>4, Slots, Pointers
      <4> DEFINE iW == i * W
                 nW == Len(strings) * W
      <4>2. iW \in Nat /\ nW \in Nat /\ iW + W <= nW /\ base = nW + W
        BY <4>1
      <4> HIDE DEF iW, nW, base, x
      <4>3. iW < ARG_MAX
        BY <4>2, <1>5, <1>6, ArgMax
      <4> QED BY <4>2, <4>3 DEF iW
    <3>4. pointed \in Memory(ARG_MAX)
      BY <1>1, <1>6, <1>7, <3>3, PointerFacts
    <3>5. copied.retval = l
      <4> HIDE DEF pointed, n
      <4> QED BY <1>4, <1>6, <1>7, <3>2, <3>4, StrlcpyFacts, SMTT(30)
    <3>6. l >= n
      <4> HIDE DEF copied, l, n
      <4> QED BY <1>11, <3>5 DEF Truncated
    <3> QED BY <3>1, <3>6
  <2> QED BY <1>1, <2>1, <2>2, DataFailed DEF cleanup
<1>12. CASE n # 0 /\ k \notin args.unreadable /\ ~Truncated(copied.retval, n)
  <2>1. /\ Store(copied.memory) /\ off' = off + copied.retval + 1 /\ i' = k
        /\ UNCHANGED <<pc, call, which, result, stack, registers>>
    BY <1>12 DEF CopyString
  <2>2. copied = one
    <3>1. 0 + (k - 1) * W = i * W
      <4>1. i * W \in Nat
        BY <1>4, Pointers
      <4> QED BY <1>4, <4>1
    <3>2. base + z[k - 1] = off /\ (base + z[k - 1]) + 0 = off
      BY <1>4, <1>6, <1>7
    <3> HIDE DEF base, z, k, n
    <3> QED BY <3>1, <3>2 DEF LayOne, z
  <2>3. l < n
    <3>1. SUFFICES ASSUME n <= l PROVE FALSE
      <4> HIDE DEF l, n
      <4> QED BY <1>5, <1>7
    <3>2. copied.retval = n
      <4> HIDE DEF pointed, n
      <4> QED BY <1>4, <1>7, <3>1, StrlcpyCuts
    <3> HIDE DEF copied, n
    <3> QED BY <1>7, <1>12, <3>2 DEF Truncated
  <2>4. base + z[k] <= ARG_MAX
    <3> HIDE DEF base, z, x, l
    <3> QED BY <1>2, <1>5, <1>6, <1>7, <2>3
  <2>5. Room(strings, k, ARG_MAX, 0, base)
    <3>1. Len(strings) * W \in Nat /\ base = Len(strings) * W + W
      BY <1>2, Pointers
    <3> DEFINE nW == Len(strings) * W
               y == z[k]
    <3>2. nW \in Nat /\ base = nW + W /\ base \in Nat /\ y \in Nat /\ base + y <= ARG_MAX
      BY <1>2, <1>5, <2>4, <3>1
    <3> HIDE DEF nW, y, base
    <3>3. 0 + nW <= ARG_MAX /\ base + y <= ARG_MAX /\ 0 + nW <= base
      BY <3>2, ArgMax
    <3> HIDE DEF k
    <3> QED BY <3>2, <3>3 DEF Room, nW, y, z
  <2>6. Laid(buf, strings, k - 1, 0, base, 0)
    BY <1>1, <1>4 DEF Copying
  <2>7. /\ one.retval = l /\ one.memory \in Memory(ARG_MAX)
        /\ Laid(one.memory, strings, k, 0, base, 0)
    <3>1. 0 \in Int /\ n \in Nat /\ ARG_MAX \in Nat /\ Len(strings[k]) < n
      BY <1>6, <1>7, <2>3
    <3>2. buf \in Memory(ARG_MAX) /\ strings \in Seq(String) /\ k \in 1..Len(strings)
      BY <1>1, <1>2, <1>4
    <3> HIDE DEF base, k, n, strings
    <3> QED BY <2>5, <2>6, <3>1, <3>2, LayOneFacts
  <2>8. off' = base + z[k] /\ off' <= ARG_MAX
    <3> HIDE DEF one, copied, base, z, k, l, x
    <3> QED BY <1>2, <1>5, <1>6, <2>1, <2>2, <2>4, <2>7
  <2>9. args' = args /\ buf' = copied.memory
    <3> HIDE DEF copied
    <3> QED BY <1>1, <2>1 DEF args, buf, Store
  <2>10. Copying(args, buf)'
    <3>1. 0 \notin args.unreadable /\ \A j \in 1..i : j \notin args.unreadable
      BY <1>1 DEF Copying
    <3>2. \A j \in 1..k : j \notin args.unreadable
      BY <1>4, <1>12, <3>1
    <3>3. k \in 0..Len(strings)
      BY <1>4
    <3> HIDE DEF one, copied, k
    <3> QED BY <2>1, <2>2, <2>7, <2>8, <2>9, <3>1, <3>2, <3>3 DEF Copying
  <2>11. ResultRight'
    BY <1>1, <2>1 DEF ResultRight
  <2>12. which = "envp" => Copied(call.argv, argv)'
    <3> HAVE which = "envp"
    <3>1. Copied(call.argv, argv) /\ argv' = argv
      BY <1>1, <2>1 DEF Data, Store
    <3> QED BY <2>1, <3>1
  <2>13. buf' \in Memory(ARG_MAX)
    BY <2>2, <2>7, <2>9
  <2> HIDE DEF one, copied
  <2> QED BY <1>1, <2>1, <2>9, <2>10, <2>11, <2>12, <2>13 DEF Data
<1> QED BY <1>9, <1>10, <1>11, <1>12

\* All strings of a list. (mm.c:484-487)
LEMMA Finished ==
  ASSUME Holding, Data, CopyDone
  PROVE  Copied(args, Pointer(buf, argc * W, 0))
<1> DEFINE strings == args.strings
           z == sizes(strings)
           nW == Len(strings) * W
           base == (Len(strings) + 1) * W
           sz == size(strings)
           new == Pointer(buf, nW, 0)
<1>1. /\ pc = "copy" /\ args \in Array /\ i = Len(strings)
      /\ args.ok /\ buf \in Memory(ARG_MAX) /\ Copying(args, buf)
  BY DEF CopyDone, Holding, Data, args, argc
<1>2. /\ strings \in Seq(String) /\ Len(strings) \in Nat
      /\ args.unreadable \subseteq 0..Len(strings)
      /\ sz \in Nat /\ Size(args) = base + sz
  BY <1>1, ArrayFacts DEF Size
<1>3. nW \in Nat /\ base \in Nat /\ base = nW + W
  BY <1>2, Pointers
<1>4. base + sz <= ARG_MAX /\ Laid(buf, strings, Len(strings), 0, base, 0)
  BY <1>1 DEF Copying, size
<1>5. args.unreadable = {}
  BY <1>1, <1>2 DEF Copying
<1>6. ARG_MAX \in Nat /\ W \in Nat /\ W > 0 /\ nW < ARG_MAX
  <2> HIDE DEF nW, base, sz
  <2> QED BY <1>2, <1>3, <1>4, ArgMax
<1>7. /\ new \in Memory(ARG_MAX) /\ new[nW] = 0
      /\ \A u \in 0..(ARG_MAX - 1) : u < nW \/ u >= nW + W => new[u] = buf[u]
  <2> HIDE DEF nW
  <2> QED BY <1>1, <1>3, <1>6, PointerFacts
<1>8. Laid(new, strings, Len(strings), 0, base, 0)
  <2>1. Room(strings, Len(strings), ARG_MAX, 0, base)
    BY <1>2, <1>4, BufferRoom
  <2> HIDE DEF new
  <2>2. ASSUME NEW u \in 0..((0 + Len(strings) * W) - 1) PROVE new[u] = buf[u]
    <3>1. u \in 0..((0 + nW) - 1)
      OBVIOUS
    <3> HIDE DEF nW
    <3> QED BY <1>3, <1>6, <1>7, <3>1
  <2>3. ASSUME NEW u \in base..((base + sz) - 1) PROVE new[u] = buf[u]
    <3> HIDE DEF nW, base, sz
    <3> QED BY <1>2, <1>3, <1>4, <1>6, <1>7
  <2>4. Len(strings) \in 0..Len(strings)
    BY <1>2
  <2> HIDE DEF base, strings
  <2> QED BY <1>2, <1>4, <1>6, <2>1, <2>2, <2>3, <2>4, LaidKept
<1>9. Strings(new) = strings
  <2> HIDE DEF new, strings
  <2> QED BY <1>2, <1>4, <1>7, <1>8, BufferStrings
<1>10. Readable(args) /\ Size(args) <= ARG_MAX
  BY <1>1, <1>2, <1>4, <1>5 DEF Readable
<1> HIDE DEF new
<1>11. Copied(args, new)
  BY <1>7, <1>9, <1>10 DEF Copied
<1> QED BY <1>11 DEF new, argc

LEMMA DataCopyDone == ASSUME Holding, Data, CopyDone PROVE Data'
<1> DEFINE new == Pointer(buf, argc * W, 0)
<1>1. Copied(args, new) /\ pc = "copy" /\ which \in {"argv", "envp"}
  BY Finished DEF CopyDone, Holding
<1>2. Store(new) /\ UNCHANGED <<call, result, stack, registers>>
  BY DEF CopyDone
<1>3. new # NULL
  BY <1>1, NotNull DEF Copied
<1> HIDE DEF new
<1>4. ASSUME pc' # "user", pc' \notin {"panic", "corrupt"} PROVE ResultRight'
  BY <1>4 DEF ResultRight
<1>5. CASE which = "argv"
  <2>1. pc' = "user_copy_args" /\ argv' = new /\ args = call.argv
    BY <1>2, <1>5 DEF CopyDone, Store, args
  <2>2. Copied(call.argv, argv)'
    BY <1>1, <1>2, <2>1 DEF Copied
  <2> QED BY <1>2, <1>4, <2>1, <2>2 DEF Data
<1>6. CASE which = "envp"
  <2>1. pc' = "task_init_elf" /\ envp' = new /\ argv' = argv /\ args = call.envp
    BY <1>2, <1>6 DEF CopyDone, Store, args
  <2>2. Copied(call.envp, envp)'
    BY <1>1, <1>2, <2>1 DEF Copied
  <2>3. Copied(call.argv, argv)'
    <3>1. Copied(call.argv, argv)
      BY <1>1, <1>6 DEF Data
    <3> QED BY <1>2, <2>1, <3>1
  <2> QED BY <1>2, <1>3, <1>4, <2>1, <2>2, <2>3 DEF Data
<1> QED BY <1>1, <1>5, <1>6

\* The new program, or a panic when the arguments do not fit.
\* (elf.c:147, syscall.c:69-83)
LEMMA DataInitElf == ASSUME Holding, Data, InitElf PROVE Data'
<1> DEFINE a == call.argv.strings
           e == call.envp.strings
           new == task_init_elf(a, e)
<1>1. /\ pc = "task_init_elf" /\ which = "envp" /\ call.argv \in Array /\ call.envp \in Array
      /\ Copied(call.argv, argv)
  BY DEF InitElf, Holding, Data
<1>2. CASE envp = NULL
  <2>1. ~Fits(call)
    BY <1>1, <1>2 DEF Data, Fits
  <2>2. PageFault => halt("panic") \/ halt("corrupt")
    BY <1>1 DEF PageFault, panic
  <2>3. \E how \in {"panic", "corrupt"} : halt(how)
    BY <1>2, <2>2 DEF InitElf, panic
  <2> QED BY <2>1, <2>3, DataHalt
<1>3. CASE envp # NULL
  <2>1. Copied(call.envp, envp)
    BY <1>1, <1>3 DEF Data
  <2>2. Strings(argv) = a /\ Strings(envp) = e
    BY <1>1, <2>1 DEF Copied
  <2>3. a \in Seq(String) /\ e \in Seq(String) /\ Size(call.argv) + Size(call.envp) = ArgSize(a, e)
    BY <1>1, ArrayFacts, ArgSizeSum
  <2>4. Size(call.argv) \in Nat /\ Size(call.envp) \in Nat /\ PAGE_SIZE \in Nat
    BY <1>1, ArrayFacts, ArgsAssumption
  <2>5. CASE ~new.ok
    <3>1. ~(ArgSize(a, e) <= PAGE_SIZE)
      BY <2>3, <2>5, InitElfFacts
    <3>2. panic
      <4> HIDE DEF a, e
      <4> QED BY <1>3, <2>2, <2>5 DEF InitElf
    <3>3. ~Fits(call)
      BY <2>3, <3>1 DEF Fits
    <3> QED BY <3>2, <3>3, DataHalt DEF panic
  <2>6. CASE new.ok
    <3>1. ArgSize(a, e) <= PAGE_SIZE
      <4>1. ArgSize(a, e) \in Int /\ (ArgSize(a, e) > PAGE_SIZE => ~new.ok)
        <5>1. ArgSize(a, e) \in Int
          BY <2>3, <2>4
        <5>2. ArgSize(a, e) > PAGE_SIZE => new = [ok |-> FALSE]
          <6> HIDE DEF a, e
          <6> QED BY DEF task_init_elf, ArgSize
        <5> HIDE DEF new
        <5> QED BY <5>1, <5>2
      <4> HIDE DEF new, a, e
      <4> QED BY <2>4, <2>6, <4>1
    <3>2. Sees(new.stack, new.registers, a, e)
      <4> HIDE DEF a, e
      <4> QED BY <2>3, <3>1, InitElfFacts
    <3> HIDE DEF new, a, e
    <3>3. /\ stack' = new.stack /\ registers' = new.registers /\ pc' = "user" /\ result' = "ok"
          /\ UNCHANGED <<call, which, argv, envp>>
      BY <1>3, <2>2, <2>6 DEF InitElf, new
    <3>4. Sees(stack', registers', a, e)
      BY <3>2, <3>3
    <3>5. Sees(stack, registers, call.argv.strings, call.envp.strings)'
      BY <3>3, <3>4 DEF a, e
    <3>6. Fits(call)
      BY <1>1, <2>1, <2>3, <3>1 DEF Fits, Copied
    <3>7. Fits(call)'
      BY <3>3, <3>6
    <3>8. ResultRight'
      BY <3>3, <3>7 DEF ResultRight, Accepted
    <3>9. (call.argv \in Array /\ call.envp \in Array)'
      BY <1>1, <3>3
    <3> QED BY <3>3, <3>5, <3>8, <3>9 DEF Data
  <2> QED BY <2>5, <2>6
<1> QED BY <1>2, <1>3

LEMMA DataStep == Holding /\ Data /\ [Next]_vars => Data'
<1> SUFFICES ASSUME Holding, Data, [Next]_vars PROVE Data'
  OBVIOUS
<1>1. ASSUME NEW c \in Calls, Execve(c) PROVE Data'
  BY <1>1, DataExecve
<1>2. CASE CopyFromUser
  BY <1>2, DataSame DEF CopyFromUser, program
<1>3. CASE Enter
  BY <1>3, DataEnter
<1>4. CASE Count
  BY <1>4, DataCount
<1>5. CASE CopyString
  BY <1>5, DataCopyString
<1>6. CASE CopyDone
  BY <1>6, DataCopyDone
<1>7. CASE InitElf
  BY <1>7, DataInitElf
<1>8. CASE Halted \/ UNCHANGED vars
  BY <1>8, DataSame DEF Halted, vars
<1> QED BY <1>1, <1>2, <1>3, <1>4, <1>5, <1>6, <1>7, <1>8 DEF Next

LEMMA DataSees == Data => ProgramSeesArguments
<1> SUFFICES ASSUME Data, pc = "user", Accepted
             PROVE  /\ registers.a0 = Len(call.argv.strings)
                    /\ Seen(registers.a1, registers.a0) = call.argv.strings
                    /\ Seen(registers.a2, Len(call.envp.strings)) = call.envp.strings
                    /\ At(registers.a2 + Len(call.envp.strings) * W) = 0
                    /\ registers.sp <= registers.a1
                    /\ registers.sp >= USERSTACK - PAGE_SIZE
                    /\ (USERSTACK - registers.sp) % (2 * W) = 0
  BY DEF ProgramSeesArguments
<1>1. Sees(stack, registers, call.argv.strings, call.envp.strings)
  BY DEF Data
<1>2. /\ registers.a0 = Len(call.argv.strings)
      /\ Finds(stack, registers.a1, call.argv.strings)
      /\ Finds(stack, registers.a2, call.envp.strings)
  BY <1>1, Zenon DEF Sees
<1>3. Seen(registers.a1, registers.a0) = call.argv.strings
  BY <1>2, Zenon DEF Seen, Finds, At, Word
<1>4. Seen(registers.a2, Len(call.envp.strings)) = call.envp.strings
  BY <1>2, Zenon DEF Seen, Finds, At, Word
<1>5. At(registers.a2 + Len(call.envp.strings) * W) = 0
  BY <1>1, Zenon DEF Sees, At, Word
<1>6. /\ registers.sp <= registers.a1 /\ registers.sp >= USERSTACK - PAGE_SIZE
      /\ (USERSTACK - registers.sp) % (2 * W) = 0
  BY <1>1, Zenon DEF Sees
<1> QED BY <1>2, <1>3, <1>4, <1>5, <1>6

\* The invariant of both.
LEMMA Copies == Spec => [](Holding /\ Data)
<1>1. Init => Holding /\ Data
  BY HoldingInit, DataInit
<1>2. Holding /\ Data /\ [Next]_vars => (Holding /\ Data)'
  BY HoldingStep, DataStep
<1> QED BY <1>1, <1>2, PTL DEF Spec

\* Arguments that can be read and fit, to the last byte, are accepted and never
\* panic the kernel, others are never accepted, and an error says what was wrong
\* with argv: for lists of any number of strings of any length. (user_copy_args
\* mm.c:467-478, task_init_elf elf.c:147, strlcpy string.c:11)
THEOREM FittingArgumentsAccepted == Spec => []ResultRight
<1>1. Holding /\ Data => ResultRight
  BY DEF Data
<1> QED BY <1>1, Copies, PTL

\* After execve the program finds every argument and every variable of its
\* environment as they were passed, and sp, aligned, below them.
\* (task_init_elf elf.c:140-178)
THEOREM ArgumentsArrive == Spec => []ProgramSeesArguments
<1>1. Holding /\ Data => ProgramSeesArguments
  BY DataSees
<1> QED BY <1>1, Copies, PTL

=============================================================================
