----------------------------- MODULE UartProofs -----------------------------
(***************************************************************************)
(* Proofs about the console driver of Uart.tla, for any number of threads, *)
(* any size of the rings and of the receive FIFO, and any number of        *)
(* characters.                                                             *)
(***************************************************************************)
EXTENDS UartProps, SequenceTheorems, TLAPS

N == UART_TX_BUF_SIZE

\* What n slots of a ring hold, from cursor r on.
Ring(buf, r, n) == [i \in 1..n |-> buf[(r + i - 1) % N]]

Buffer == [Slot -> Nat]

\* A ring in which n characters of s have been stored from cursor w on.
Stored(buf, w, s, n) ==
  [i \in Slot |->
     IF \E j \in 1..n : (w + j - 1) % N = i
     THEN s[CHOOSE j \in 1..n : (w + j - 1) % N = i]
     ELSE buf[i]]

-----------------------------------------------------------------------------
(* Sequences and rings                                                     *)

LEMMA Assoc ==
  \A s, t, u \in Seq(Nat) : (s \o t) \o u = s \o (t \o u)
BY ConcatAssociative, SMTT(30)

LEMMA Difference ==
  \A a, b \in Nat : a <= b => b - a \in Nat /\ b = a + (b - a)
OBVIOUS

LEMMA Size == N \in Nat /\ N \in Int /\ N > 0
BY UartAssumption DEF N

\* Cursors less than a ring apart use different slots.
LEMMA SlotsDiffer ==
  ASSUME NEW a \in Nat, NEW b \in Nat, a < b, b < a + N
  PROVE  a % N # b % N
<1>1. ASSUME NEW M \in Int, M > 0, NEW c \in Nat
      PROVE  c = M * (c \div M) + (c % M) /\ c \div M \in Nat
  BY <1>1, SMTT(30)
<1> DEFINE p == a \div N
           q == b \div N
<1>2. a = N * p + (a % N) /\ b = N * q + (b % N) /\ p \in Nat /\ q \in Nat
  BY <1>1, Size
<1> HIDE DEF p, q
<1>3. SUFFICES ASSUME a % N = b % N PROVE FALSE
  OBVIOUS
<1>4. a % N \in Int /\ b % N \in Int
  BY Size
<1>5. b - a = N * (q - p)
  BY <1>2, <1>3, <1>4, Size
<1>6. N * (q - p) > 0 /\ N * (q - p) < N
  BY <1>5, Size
<1>7. ASSUME NEW d \in Int, N * d > 0, N * d < N PROVE FALSE
  BY <1>7, Size
<1> QED BY <1>2, <1>6, <1>7

LEMMA InSlot ==
  ASSUME NEW a \in Nat
  PROVE  a % N \in Slot
BY Size DEF Slot, N

LEMMA RingSeq ==
  ASSUME NEW buf \in Buffer, NEW r \in Nat, NEW n \in Nat
  PROVE  /\ Ring(buf, r, n) \in Seq(Nat)
         /\ Len(Ring(buf, r, n)) = n
         /\ \A i \in 1..n : Ring(buf, r, n)[i] = buf[(r + i - 1) % N]
<1>1. ASSUME NEW i \in 1..n PROVE buf[(r + i - 1) % N] \in Nat
  <2>1. r + i - 1 \in Nat
    OBVIOUS
  <2> QED BY <2>1, InSlot DEF Buffer
<1> QED BY <1>1 DEF Ring

\* The first k characters of a ring and the rest of it.
LEMMA RingSplit ==
  ASSUME NEW buf \in Buffer, NEW r \in Nat, NEW n \in Nat, NEW k \in 0..n
  PROVE  Ring(buf, r, k) \o Ring(buf, r + k, n - k) = Ring(buf, r, n)
<1> DEFINE a == Ring(buf, r, k)
           b == Ring(buf, r + k, n - k)
           c == Ring(buf, r, n)
<1>1. k \in Nat /\ r + k \in Nat /\ n - k \in Nat /\ k + (n - k) = n
  OBVIOUS
<1>2. /\ a \in Seq(Nat) /\ Len(a) = k
      /\ \A i \in 1..k : a[i] = buf[(r + i - 1) % N]
  BY <1>1, RingSeq
<1>3. /\ b \in Seq(Nat) /\ Len(b) = n - k
      /\ \A i \in 1..(n - k) : b[i] = buf[((r + k) + i - 1) % N]
  BY <1>1, RingSeq
<1>4. /\ c \in Seq(Nat) /\ Len(c) = n
      /\ \A i \in 1..n : c[i] = buf[(r + i - 1) % N]
  BY RingSeq
<1> HIDE DEF a, b, c
<1>5. /\ a \o b \in Seq(Nat) /\ Len(a \o b) = n
      /\ \A i \in 1..n : (a \o b)[i] = IF i <= k THEN a[i] ELSE b[i - k]
  <2>1. /\ a \o b \in Seq(Nat) /\ Len(a \o b) = k + (n - k)
        /\ \A i \in 1..(k + (n - k)) :
             (a \o b)[i] = IF i <= k THEN a[i] ELSE b[i - k]
    BY <1>2, <1>3, ConcatProperties
  <2> QED BY <1>1, <2>1
<1> DEFINE d == a \o b
<1> HIDE DEF d
<1>6. ASSUME NEW i \in 1..n PROVE d[i] = c[i]
  <2>1. CASE i <= k
    <3>1. i \in 1..k
      BY <2>1
    <3>2. d[i] = a[i]
      BY <1>5, <2>1 DEF d
    <3> QED BY <1>2, <1>4, <3>1, <3>2
  <2>2. CASE ~(i <= k)
    <3>1. i - k \in 1..(n - k) /\ (r + k) + (i - k) - 1 = r + i - 1
      BY <2>2
    <3>2. d[i] = b[i - k]
      BY <1>5, <2>2 DEF d
    <3>3. b[i - k] = buf[((r + k) + (i - k) - 1) % N]
      BY <1>3, <3>1
    <3> QED BY <1>4, <3>1, <3>2, <3>3
  <2> QED BY <2>1, <2>2
<1>7. d \in Seq(Nat) /\ Len(d) = n
  BY <1>5 DEF d
<1>8. d = c
  BY <1>4, <1>6, <1>7, SeqEqual
<1> QED BY <1>8 DEF a, b, c, d

\* uartputc stores behind the last character of a ring that is not full.
LEMMA RingStore ==
  ASSUME NEW buf \in Buffer, NEW r \in Nat, NEW n \in Nat, n < N,
         NEW c \in Nat
  PROVE  LET new == [buf EXCEPT ![(r + n) % N] = c] IN
         /\ new \in Buffer
         /\ Ring(new, r, n + 1) = Append(Ring(buf, r, n), c)
<1> DEFINE new == [buf EXCEPT ![(r + n) % N] = c]
           a == Ring(buf, r, n)
           b == Ring(new, r, n + 1)
<1>1. new \in Buffer
  BY DEF Buffer
<1>2. /\ a \in Seq(Nat) /\ Len(a) = n
      /\ \A i \in 1..n : a[i] = buf[(r + i - 1) % N]
  BY RingSeq
<1>3. /\ b \in Seq(Nat) /\ Len(b) = n + 1
      /\ \A i \in 1..(n + 1) : b[i] = new[(r + i - 1) % N]
  <2> HIDE DEF new
  <2> QED BY <1>1, RingSeq, SMTT(30)
<1>4. ASSUME NEW i \in 1..n PROVE new[(r + i - 1) % N] = buf[(r + i - 1) % N]
  <2>1. (r + i - 1) % N # (r + n) % N
    <3>1. r + i - 1 \in Nat /\ r + n \in Nat /\ r + i - 1 < r + n
          /\ r + n < (r + i - 1) + N
      BY Size
    <3> QED BY <3>1, SlotsDiffer
  <2>2. r + i - 1 \in Nat
    OBVIOUS
  <2>3. (r + i - 1) % N \in Slot
    BY <2>2, InSlot
  <2> QED BY <2>1, <2>3 DEF Buffer
<1>5. new[(r + n) % N] = c
  BY InSlot DEF Buffer
<1> DEFINE d == Append(a, c)
<1> HIDE DEF a, b, new
<1>6. /\ d \in Seq(Nat) /\ Len(d) = n + 1 /\ d[n + 1] = c
      /\ \A i \in 1..n : d[i] = a[i]
  BY <1>2, AppendProperties
<1> HIDE DEF d
<1>7. ASSUME NEW i \in 1..(n + 1) PROVE b[i] = d[i]
  <2>1. CASE i = n + 1
    <3>1. r + i - 1 = r + n
      BY <2>1
    <3> QED BY <1>3, <1>5, <1>6, <2>1, <3>1
  <2>2. CASE i # n + 1
    <3>1. i \in 1..n
      BY <2>2
    <3> QED BY <1>2, <1>3, <1>4, <1>6, <3>1
  <2> QED BY <2>1, <2>2
<1>8. b = d
  BY <1>3, <1>6, <1>7, SeqEqual
<1> QED BY <1>1, <1>8 DEF a, b, d, new


\* uartintr stores n received characters behind the last one, if they fit.
LEMMA RingReceive ==
  ASSUME NEW buf \in Buffer, NEW r \in Nat, NEW w \in Nat, r <= w,
         NEW s \in Seq(Nat), NEW n \in 0..Len(s), (w - r) + n <= N
  PROVE  /\ Stored(buf, w, s, n) \in Buffer
         /\ Ring(Stored(buf, w, s, n), r, (w - r) + n)
              = Ring(buf, r, w - r) \o SubSeq(s, 1, n)
<1> DEFINE new == Stored(buf, w, s, n)
<1>0. new = [i \in Slot |->
               IF \E j \in 1..n : (w + j - 1) % N = i
               THEN s[CHOOSE j \in 1..n : (w + j - 1) % N = i]
               ELSE buf[i]]
  BY DEF Stored
<1> HIDE DEF new
<1>1. n \in Nat /\ w - r \in Nat /\ (w - r) + n \in Nat /\ n <= N
  BY Size
<1>2. \A j \in 1..n : s[j] \in Nat
  OBVIOUS
<1>3. new \in Buffer
  <2>1. ASSUME NEW i \in Slot PROVE new[i] \in Nat
    <3>1. CASE \E j \in 1..n : (w + j - 1) % N = i
      <4> DEFINE h == CHOOSE j \in 1..n : (w + j - 1) % N = i
      <4>1. h \in 1..n
        BY <3>1
      <4>2. new[i] = s[h]
        BY <1>0, <3>1
      <4> HIDE DEF h
      <4> QED BY <1>2, <4>1, <4>2
    <3>2. CASE ~\E j \in 1..n : (w + j - 1) % N = i
      BY <1>0, <3>2 DEF Buffer
    <3> QED BY <3>1, <3>2
  <2>2. new = [i \in Slot |-> new[i]]
    BY <1>0
  <2> QED BY <2>1, <2>2 DEF Buffer
\* The new characters.
<1>4. ASSUME NEW j \in 1..n PROVE new[(w + j - 1) % N] = s[j]
  <2> DEFINE x == (w + j - 1) % N
             h == CHOOSE k \in 1..n : (w + k - 1) % N = x
  <2>1. x \in Slot
    <3>1. w + j - 1 \in Nat
      BY <1>1
    <3> QED BY <3>1, InSlot
  <2>2. h \in 1..n /\ (w + h - 1) % N = x
    OBVIOUS
  <2>3. new[x] = s[h]
    BY <1>0, <2>1
  <2> HIDE DEF h
  <2>4. h = j
    <3>1. w + h - 1 \in Nat /\ w + j - 1 \in Nat
      BY <1>1, <2>2
    <3>2. CASE h < j
      <4>1. w + h - 1 < w + j - 1 /\ w + j - 1 < (w + h - 1) + N
        BY <1>1, <2>2, <3>2, Size
      <4> QED BY <2>2, <3>1, <4>1, SlotsDiffer
    <3>3. CASE j < h
      <4>1. w + j - 1 < w + h - 1 /\ w + h - 1 < (w + j - 1) + N
        BY <1>1, <2>2, <3>3, Size
      <4> QED BY <2>2, <3>1, <4>1, SlotsDiffer
    <3> QED BY <2>2, <3>2, <3>3
  <2> QED BY <2>3, <2>4
\* The old ones stay.
<1>5. ASSUME NEW i \in 1..(w - r)
      PROVE  new[(r + i - 1) % N] = buf[(r + i - 1) % N]
  <2> DEFINE x == (r + i - 1) % N
  <2>1. r + i - 1 \in Nat
    BY <1>1
  <2>2. x \in Slot
    BY <2>1, InSlot
  <2>3. ASSUME NEW j \in 1..n PROVE (w + j - 1) % N # x
    <3>1. /\ w + j - 1 \in Nat /\ r + i - 1 < w + j - 1
          /\ w + j - 1 < (r + i - 1) + N
      BY <1>1, Size
    <3> QED BY <2>1, <3>1, SlotsDiffer
  <2> HIDE DEF x
  <2>4. new[x] = buf[x]
    BY <1>0, <2>2, <2>3
  <2> QED BY <2>4 DEF x
<1> DEFINE m == w - r
           a == Ring(buf, r, m)
           t == SubSeq(s, 1, n)
           b == Ring(new, r, m + n)
           d == a \o t
<1>6. /\ a \in Seq(Nat) /\ Len(a) = m
      /\ \A i \in 1..m : a[i] = buf[(r + i - 1) % N]
  BY <1>1, RingSeq
<1>7. /\ b \in Seq(Nat) /\ Len(b) = m + n
      /\ \A i \in 1..(m + n) : b[i] = new[(r + i - 1) % N]
  BY <1>1, <1>3, RingSeq
<1>8. t \in Seq(Nat) /\ Len(t) = n /\ \A i \in 1..n : t[i] = s[i]
  <2>1. /\ t \in Seq(Nat) /\ Len(t) = IF 1 <= n THEN n - 1 + 1 ELSE 0
        /\ \A i \in 1..(n - 1 + 1) : t[i] = s[1 + i - 1]
    BY <1>1, <1>2, SubSeqProperties
  <2> HIDE DEF t
  <2>2. Len(t) = n
    BY <1>1, <2>1
  <2>3. ASSUME NEW i \in 1..n PROVE t[i] = s[i]
    <3>1. i \in 1..(n - 1 + 1) /\ 1 + i - 1 = i
      BY <1>1
    <3> QED BY <2>1, <3>1
  <2> QED BY <2>1, <2>2, <2>3
<1> HIDE DEF a, t, b
<1>9. /\ d \in Seq(Nat) /\ Len(d) = m + n
      /\ \A i \in 1..(m + n) : d[i] = IF i <= m THEN a[i] ELSE t[i - m]
  <2>1. /\ d \in Seq(Nat) /\ Len(d) = Len(a) + Len(t)
        /\ \A i \in 1..(Len(a) + Len(t)) :
             d[i] = IF i <= Len(a) THEN a[i] ELSE t[i - Len(a)]
    BY <1>6, <1>8, ConcatProperties
  <2> HIDE DEF d, m
  <2> QED BY <1>6, <1>8, <2>1
<1> HIDE DEF d
<1>10. ASSUME NEW i \in 1..(m + n) PROVE b[i] = d[i]
  <2>1. CASE i <= m
    <3>1. i \in 1..m
      BY <1>1, <2>1
    <3>2. d[i] = a[i]
      BY <1>9, <2>1
    <3> QED BY <1>5, <1>6, <1>7, <3>1, <3>2
  <2>2. CASE ~(i <= m)
    <3>1. i - m \in 1..n /\ w + (i - m) - 1 = r + i - 1
      BY <1>1, <2>2
    <3>2. d[i] = t[i - m]
      BY <1>9, <2>2
    <3>3. new[(w + (i - m) - 1) % N] = s[i - m]
      BY <1>4, <3>1
    <3> QED BY <1>7, <1>8, <3>1, <3>2, <3>3
  <2> QED BY <2>1, <2>2
<1>11. b = d
  BY <1>7, <1>9, <1>10, SeqEqual
<1> QED BY <1>3, <1>11 DEF a, b, d, t, new

-----------------------------------------------------------------------------
(* The characters of a sequence                                            *)

LEMMA ToSetSeq ==
  ASSUME NEW s \in Seq(Nat)
  PROVE  ToSet(s) = {s[i] : i \in 1..Len(s)} /\ ToSet(s) \subseteq Nat
BY DEF ToSet

\* A character that is new to a sequence of different ones joins it.
LEMMA Insert ==
  ASSUME NEW s \in Seq(Nat), NEW t \in Seq(Nat), NEW c \in Nat,
         IsInjective(s \o t), c \notin ToSet(s \o t)
  PROVE  /\ IsInjective((s \o <<c>>) \o t)
         /\ ToSet((s \o <<c>>) \o t) = ToSet(s \o t) \cup {c}
<1> DEFINE k == Len(s)
           l == Len(t)
           a == s \o t
           b == (s \o <<c>>) \o t
           old(i) == IF i <= k THEN i ELSE i - 1
<1>1. k \in Nat /\ l \in Nat
  OBVIOUS
<1>2. /\ a \in Seq(Nat) /\ Len(a) = k + l
      /\ \A i \in 1..(k + l) : a[i] = IF i <= k THEN s[i] ELSE t[i - k]
  BY ConcatProperties
<1>3. /\ b \in Seq(Nat) /\ Len(b) = k + 1 + l /\ b[k + 1] = c
      /\ \A i \in 1..k : b[i] = s[i]
      /\ \A i \in (k + 2)..(k + 1 + l) : b[i] = t[i - (k + 1)]
  <2> DEFINE u == s \o <<c>>
             v == <<c>>
  <2>1. v \in Seq(Nat) /\ Len(v) = 1 /\ v[1] = c
    OBVIOUS
  <2> HIDE DEF v
  <2>2. /\ s \o v \in Seq(Nat) /\ Len(s \o v) = k + 1
        /\ \A i \in 1..(k + 1) : (s \o v)[i] = IF i <= k THEN s[i] ELSE v[i - k]
    <3>1. /\ s \o v \in Seq(Nat) /\ Len(s \o v) = k + Len(v)
          /\ \A i \in 1..(k + Len(v)) :
               (s \o v)[i] = IF i <= k THEN s[i] ELSE v[i - k]
      BY <2>1, ConcatProperties
    <3> HIDE DEF k
    <3> QED BY <2>1, <3>1
  <2>3. /\ u \in Seq(Nat) /\ Len(u) = k + 1
        /\ \A i \in 1..(k + 1) : u[i] = IF i <= k THEN s[i] ELSE v[i - k]
    BY <2>2 DEF v
  <2> HIDE DEF u, k, l
  <2>4. u[k + 1] = c /\ \A i \in 1..k : u[i] = s[i]
    BY <1>1, <2>1, <2>3
  <2> USE DEF l
  <2>5. /\ u \o t \in Seq(Nat) /\ Len(u \o t) = Len(u) + Len(t)
        /\ \A i \in 1..(Len(u) + Len(t)) :
             (u \o t)[i] = IF i <= Len(u) THEN u[i] ELSE t[i - Len(u)]
    BY <2>3, ConcatProperties
  <2> HIDE DEF l
  <2>6. /\ u \o t \in Seq(Nat) /\ Len(u \o t) = k + 1 + l
        /\ \A i \in 1..(k + 1 + l) :
             (u \o t)[i] = IF i <= k + 1 THEN u[i] ELSE t[i - (k + 1)]
    BY <2>3, <2>5 DEF l
  <2> DEFINE x == u \o t
  <2> HIDE DEF x
  <2>7. /\ x \in Seq(Nat) /\ Len(x) = k + 1 + l
        /\ \A i \in 1..(k + 1 + l) :
             x[i] = IF i <= k + 1 THEN u[i] ELSE t[i - (k + 1)]
    BY <2>6 DEF x
  <2>8. x[k + 1] = c /\ \A i \in 1..k : x[i] = s[i]
    <3>1. k + 1 \in 1..(k + 1 + l) /\ k + 1 <= k + 1
      BY <1>1
    <3>2. \A i \in 1..k : i \in 1..(k + 1 + l) /\ i <= k + 1
      BY <1>1
    <3> QED BY <2>4, <2>7, <3>1, <3>2
  <2>9. \A i \in (k + 2)..(k + 1 + l) : x[i] = t[i - (k + 1)]
    BY <1>1, <2>7
  <2> QED BY <2>7, <2>8, <2>9 DEF x, u
<1>4. DOMAIN a = 1..(k + l) /\ DOMAIN b = 1..(k + 1 + l)
  BY <1>2, <1>3
<1>5. ToSet(a) = {a[i] : i \in 1..(k + l)}
      /\ ToSet(b) = {b[i] : i \in 1..(k + 1 + l)}
  BY <1>4 DEF ToSet
<1> HIDE DEF a, b, k, l
<1>6. \A i \in 1..(k + 1 + l) : i # k + 1 =>
        old(i) \in 1..(k + l) /\ b[i] = a[old(i)]
  <2> SUFFICES ASSUME NEW i \in 1..(k + 1 + l), i # k + 1
               PROVE  old(i) \in 1..(k + l) /\ b[i] = a[old(i)]
    OBVIOUS
  <2>1. CASE i <= k
    <3>1. i \in 1..k /\ old(i) = i /\ i \in 1..(k + l)
      BY <1>1, <2>1
    <3> QED BY <1>2, <1>3, <2>1, <3>1
  <2>2. CASE ~(i <= k)
    <3>1. /\ i \in (k + 2)..(k + 1 + l) /\ old(i) = i - 1
          /\ i - 1 \in 1..(k + l) /\ ~(i - 1 <= k)
          /\ (i - 1) - k = i - (k + 1)
      BY <1>1, <2>2
    <3> QED BY <1>2, <1>3, <3>1
  <2> QED BY <2>1, <2>2
<1>7. c \notin {a[i] : i \in 1..(k + l)}
  BY <1>5 DEF a
<1>8. \A i, j \in 1..(k + l) : a[i] = a[j] => i = j
  BY <1>4 DEF IsInjective, a
<1>9. ASSUME NEW i \in 1..(k + 1 + l), NEW j \in 1..(k + 1 + l), b[i] = b[j]
      PROVE  i = j
  <2>1. CASE i = k + 1 /\ j = k + 1
    BY <2>1
  <2>2. CASE i = k + 1 /\ j # k + 1
    BY <1>3, <1>6, <1>7, <1>9, <2>2
  <2>3. CASE i # k + 1 /\ j = k + 1
    BY <1>3, <1>6, <1>7, <1>9, <2>3
  <2>4. CASE i # k + 1 /\ j # k + 1
    <3>1. old(i) = old(j)
      <4> HIDE DEF old
      <4> QED BY <1>6, <1>8, <1>9, <2>4
    <3> QED BY <1>1, <2>4, <3>1
  <2> QED BY <2>1, <2>2, <2>3, <2>4
<1>10. {b[i] : i \in 1..(k + 1 + l)} = {a[i] : i \in 1..(k + l)} \cup {c}
  <2>1. ASSUME NEW i \in 1..(k + 1 + l)
        PROVE  b[i] \in {a[j] : j \in 1..(k + l)} \cup {c}
    <3> HIDE DEF old
    <3> QED BY <1>3, <1>6
  <2>2. k + 1 \in 1..(k + 1 + l)
    BY <1>1
  <2>3. ASSUME NEW i \in 1..(k + l)
        PROVE  a[i] \in {b[j] : j \in 1..(k + 1 + l)}
    <3>1. CASE i <= k
      <4>1. i \in 1..(k + 1 + l) /\ i # k + 1 /\ old(i) = i
        BY <1>1, <3>1
      <4> QED BY <1>6, <4>1
    <3>2. CASE ~(i <= k)
      <4>1. i + 1 \in 1..(k + 1 + l) /\ i + 1 # k + 1 /\ old(i + 1) = i
        BY <1>1, <3>2
      <4> QED BY <1>6, <4>1
    <3> QED BY <3>1, <3>2
  <2> QED BY <1>3, <2>1, <2>2, <2>3, ZenonT(40)
<1> QED BY <1>4, <1>5, <1>9, <1>10 DEF IsInjective, a, b


-----------------------------------------------------------------------------
(* Output                                                                  *)

Places == {"outside", "wait_in", "wait_out", "getc_loop", "putc_loop"}

\* The output side of the driver and of the device: the ring is never fuller
\* than its size, and THR holds one character at most.
OutTypes ==
  /\ uart_out_tx_buf \in Buffer
  /\ uart_out_tx_r \in Nat /\ uart_out_tx_w \in Nat
  /\ uart_out_tx_r <= uart_out_tx_w /\ uart_out_tx_w <= uart_out_tx_r + N
  /\ thr \in Seq(Nat) /\ Len(thr) <= 1
  /\ line \in Seq(Nat)
  /\ irq \in BOOLEAN

\* All the driver has sent or will send, in the order it will.
Driver == (line \o thr) \o OutBuffer

\* uartstart, called with a ring its caller may just have put a character in,
\* sends characters in order and leaves the device busy if any are left.
LEMMA Uartstart ==
  ASSUME OutTypes, NEW raised \in BOOLEAN, uartstart(raised),
         uart_out_tx_buf' \in Buffer, uart_out_tx_w' \in Nat,
         uart_out_tx_r <= uart_out_tx_w',
         uart_out_tx_w' <= uart_out_tx_r + N
  PROVE  /\ OutTypes'
         /\ Driver' = (line \o thr)
                        \o Ring(uart_out_tx_buf', uart_out_tx_r,
                                uart_out_tx_w' - uart_out_tx_r)
         /\ uart_out_tx_w' # uart_out_tx_r' => thr' # << >>
         /\ raised => irq'
<1> DEFINE buf == uart_out_tx_buf'
           r == uart_out_tx_r
           n == uart_out_tx_w' - r
<1>0. r \in Nat /\ n \in Nat /\ uart_out_tx_w' = r + n
  <2>1. r \in Nat
    BY DEF OutTypes
  <2>2. uart_out_tx_w' - r \in Nat /\ uart_out_tx_w' = r + (uart_out_tx_w' - r)
    BY <2>1, Difference
  <2> QED BY <2>1, <2>2
<1>1. \E k \in 0..n :
        LET sent == thr \o [i \in 1..k |-> buf[(r + i - 1) % UART_TX_BUF_SIZE]]
        IN
        /\ (TxIdle /\ uart_out_tx_w' > r) => k > 0
        /\ uart_out_tx_r' = r + k
        /\ thr' = IF sent = << >> THEN << >> ELSE <<Last(sent)>>
        /\ line' = IF sent = << >> THEN line ELSE line \o Front(sent)
        /\ irq' = (raised \/ Len(sent) > 1)
  BY DEF uartstart
<1> HIDE DEF n
<1>k. PICK k \in 0..n :
        LET sent == thr \o [i \in 1..k |-> buf[(r + i - 1) % UART_TX_BUF_SIZE]]
        IN
        /\ (TxIdle /\ uart_out_tx_w' > r) => k > 0
        /\ uart_out_tx_r' = r + k
        /\ thr' = IF sent = << >> THEN << >> ELSE <<Last(sent)>>
        /\ line' = IF sent = << >> THEN line ELSE line \o Front(sent)
        /\ irq' = (raised \/ Len(sent) > 1)
  BY <1>1
<1> DEFINE moved == Ring(buf, r, k)
           rest == Ring(buf, r + k, n - k)
           sent == thr \o moved
<1>2. /\ (TxIdle /\ uart_out_tx_w' > r) => k > 0
      /\ uart_out_tx_r' = r + k
      /\ thr' = IF sent = << >> THEN << >> ELSE <<Last(sent)>>
      /\ line' = IF sent = << >> THEN line ELSE line \o Front(sent)
      /\ irq' = (raised \/ Len(sent) > 1)
  BY <1>k DEF Ring, N
<1>3. /\ r \in Nat /\ n \in Nat /\ k \in Nat /\ n - k \in Nat /\ r + k \in Nat
      /\ uart_out_tx_w' - (r + k) = n - k
  BY <1>0
<1>4. /\ moved \in Seq(Nat) /\ Len(moved) = k /\ rest \in Seq(Nat)
      /\ moved \o rest = Ring(buf, r, n)
  BY <1>3, RingSeq, RingSplit
<1>5. OutBuffer' = rest
  BY <1>2, <1>3 DEF OutBuffer, Ring, N
<1>t. moved \in Seq(Nat) /\ rest \in Seq(Nat)
  BY <1>4
<1>l. thr \in Seq(Nat) /\ line \in Seq(Nat)
  BY DEF OutTypes
<1>6. Len(thr) \in Nat /\ line \o thr \in Seq(Nat)
  BY <1>l, ConcatProperties
<1> HIDE DEF moved, rest
<1>7. sent \in Seq(Nat) /\ Len(sent) = Len(thr) + k /\ Len(sent) \in Nat
  <2>1. sent \in Seq(Nat) /\ Len(sent) = Len(thr) + Len(moved)
    BY <1>l, <1>t, ConcatProperties
  <2> HIDE DEF sent
  <2> QED BY <1>4, <2>1
<1> HIDE DEF sent
<1>8. /\ line' \in Seq(Nat) /\ thr' \in Seq(Nat) /\ Len(thr') <= 1
      /\ line' \o thr' = line \o sent
      /\ sent # << >> => thr' # << >>
  <2>1. CASE sent = << >>
    <3>1. thr' = << >> /\ line' = line
      BY <1>2, <2>1
    <3> QED BY <1>l, <2>1, <3>1, EmptySeq
  <2>2. CASE sent # << >>
    <3> DEFINE f == Front(sent)
               e == <<Last(sent)>>
    <3>1. thr' = e /\ line' = line \o f
      BY <1>2, <2>2
    <3>2. f \in Seq(Nat) /\ Last(sent) \in Nat /\ f \o e = sent
      <4>1. Len(sent) \in 1..Len(sent)
        BY <1>7, <2>2, EmptySeq
      <4>2. Last(sent) \in Nat
        BY <1>7, <4>1, ElementOfSeq DEF Last
      <4>3. f \in Seq(Nat)
        BY <1>7, <4>1 DEF Front
      <4>4. SubSeq(sent, 1, Len(sent)) = SubSeq(sent, 1, Len(sent) - 1) \o <<sent[Len(sent)]>>
        <5>1. 1 \in 1..Len(sent)
          BY <4>1
        <5> QED BY <1>7, <4>1, <5>1, SubSeqRecursiveSecond
      <4>5. SubSeq(sent, 1, Len(sent)) = sent
        BY <1>7, SubSeqFull
      <4> QED BY <4>2, <4>3, <4>4, <4>5 DEF Front, Last
    <3>3. e \in Seq(Nat) /\ Len(e) = 1 /\ e # << >>
      BY <3>2
    <3> HIDE DEF f, e
    <3>t. f \in Seq(Nat) /\ e \in Seq(Nat)
      BY <3>2, <3>3
    <3>4. line \o f \in Seq(Nat)
      BY <1>l, <3>t, ConcatProperties
    <3>5. (line \o f) \o e = line \o (f \o e)
      BY <1>l, <3>t, Assoc, Zenon
    <3> QED BY <3>1, <3>2, <3>3, <3>4, <3>5
  <2> QED BY <2>1, <2>2
<1>9. Driver' = (line \o thr) \o Ring(buf, r, n)
  <2>1. Driver' = (line \o sent) \o rest
    BY <1>5, <1>8 DEF Driver
  <2>2. (line \o thr) \o moved = line \o (thr \o moved)
    BY <1>l, <1>t, Assoc, Zenon
  <2>3. ((line \o thr) \o moved) \o rest = (line \o thr) \o (moved \o rest)
    <3>1. line \o thr \in Seq(Nat)
      BY <1>6
    <3> QED BY <1>t, <3>1, Assoc, Zenon
  <2> QED BY <1>4, <2>1, <2>2, <2>3 DEF sent
<1>10. uart_out_tx_w' # uart_out_tx_r' => thr' # << >>
  <2> SUFFICES ASSUME uart_out_tx_w' # uart_out_tx_r' PROVE sent # << >>
    BY <1>8
  <2>1. CASE thr = << >>
    <3>1. uart_out_tx_w' > r
      <4>1. uart_out_tx_w' # r + k
        BY <1>2
      <4> QED BY <1>0, <1>3, <4>1
    <3>2. k > 0
      BY <1>2, <2>1, <3>1 DEF TxIdle
    <3> QED BY <1>3, <1>6, <1>7, <3>2
  <2>2. CASE thr # << >>
    <3>1. Len(thr) > 0
      BY <1>6, <2>2, EmptySeq
    <3> QED BY <1>3, <1>6, <1>7, <3>1
  <2> QED BY <2>1, <2>2
<1>11. OutTypes'
  <2>1. irq' \in BOOLEAN
    BY <1>2
  <2>2. /\ uart_out_tx_r' \in Nat /\ uart_out_tx_r' <= uart_out_tx_w'
        /\ uart_out_tx_w' <= uart_out_tx_r' + N
    BY <1>0, <1>2, <1>3, Size
  <2> QED BY <1>8, <2>1, <2>2 DEF OutTypes
<1>12. raised => irq'
  BY <1>2
<1> QED BY <1>9, <1>10, <1>11, <1>12 DEF n

\* uartputc's append to the ring, and the uartstart that follows.
LEMMA EnqueueStep ==
  ASSUME OutTypes, NEW c \in Nat, Enqueue(c)
  PROVE  /\ OutTypes'
         /\ Driver' = (Driver \o <<c>>) \o << >>
         /\ Driver \in Seq(Nat)
         /\ uart_out_tx_w' # uart_out_tx_r' => thr' # << >>
         /\ irq => irq'
<1> DEFINE r == uart_out_tx_r
           n == uart_out_tx_w - r
           buf == uart_out_tx_buf'
<1>1. /\ ~uart_out_buffer_full
      /\ buf = [uart_out_tx_buf EXCEPT ![uart_out_tx_w % UART_TX_BUF_SIZE] = c]
      /\ uart_out_tx_w' = uart_out_tx_w + 1
      /\ uartstart(irq)
  BY DEF Enqueue
<1>2. /\ r \in Nat /\ n \in Nat /\ n < N /\ r + n = uart_out_tx_w
      /\ uart_out_tx_w' - r = n + 1
  BY <1>1, Size DEF OutTypes, uart_out_buffer_full, N
<1>3. uart_out_tx_buf \in Buffer
  BY DEF OutTypes
<1>4. buf \in Buffer /\ Ring(buf, r, n + 1) = Append(Ring(uart_out_tx_buf, r, n), c)
  <2>1. LET new == [uart_out_tx_buf EXCEPT ![(r + n) % N] = c] IN
        /\ new \in Buffer
        /\ Ring(new, r, n + 1) = Append(Ring(uart_out_tx_buf, r, n), c)
    <3> HIDE DEF n, r
    <3> QED BY <1>2, <1>3, RingStore
  <2>2. buf = [uart_out_tx_buf EXCEPT ![(r + n) % N] = c]
    BY <1>1, <1>2 DEF N
  <2> QED BY <2>1, <2>2
<1>5. OutBuffer = Ring(uart_out_tx_buf, r, n)
  BY DEF OutBuffer, Ring, N
<1>6. OutBuffer \in Seq(Nat) /\ line \o thr \in Seq(Nat)
  <2>1. OutBuffer \in Seq(Nat)
    BY <1>2, <1>3, <1>5, RingSeq
  <2> QED BY <2>1, ConcatProperties DEF OutTypes
<1>7. Driver \in Seq(Nat)
  BY <1>6, ConcatProperties DEF Driver
<1>8. /\ OutTypes' /\ (irq => irq')
      /\ Driver' = (line \o thr) \o Ring(buf, r, n + 1)
      /\ uart_out_tx_w' # uart_out_tx_r' => thr' # << >>
  <2>1. /\ irq \in BOOLEAN /\ uart_out_tx_w' \in Nat
        /\ uart_out_tx_r <= uart_out_tx_w'
        /\ uart_out_tx_w' <= uart_out_tx_r + N
    BY <1>1, <1>2, Size DEF OutTypes
  <2> HIDE DEF n
  <2> QED BY <1>1, <1>2, <1>4, <2>1, Uartstart
<1>9. Driver' = (Driver \o <<c>>) \o << >>
  <2>1. Append(OutBuffer, c) = OutBuffer \o <<c>>
    BY <1>6, AppendIsConcat
  <2>2. <<c>> \in Seq(Nat)
    OBVIOUS
  <2>3. (line \o thr) \o (OutBuffer \o <<c>>) = Driver \o <<c>>
    BY <1>6, <2>2, ConcatAssociative DEF Driver
  <2>4. Driver \o <<c>> \in Seq(Nat)
    BY <1>7, <2>2, ConcatProperties
  <2>5. (Driver \o <<c>>) \o << >> = Driver \o <<c>>
    BY <2>4, ConcatEmptySeq
  <2> QED BY <1>4, <1>5, <1>8, <2>1, <2>3, <2>5
<1> QED BY <1>7, <1>8, <1>9


\* The threads inside the driver; each holds a character of its own.
Threads ==
  /\ pc \in [Thread -> Places] /\ ch \in [Thread -> Nat] /\ written \in Nat
  /\ \A t, u \in InPutc : ch[t] = ch[u] => t = u

Held == {ch[t] : t \in InPutc}

\* NothingLost says it of what the driver has and what the threads hold.
Account(d, held, n) ==
  /\ IsInjective(d)
  /\ ToSet(d) \cup held = 1..n
  /\ ToSet(d) \cap held = {}

\* The inductive invariant of the output side.
OutInv ==
  /\ OutTypes /\ Threads
  /\ Account(Driver, Held, written)
  /\ Waiting("wait_out") # {} => uart_out_buffer_full
  /\ uart_out_tx_w # uart_out_tx_r => ~TxIdle \/ irq

LEMMA DriverSeq ==
  ASSUME OutTypes
  PROVE  /\ OutBuffer = Ring(uart_out_tx_buf, uart_out_tx_r,
                             uart_out_tx_w - uart_out_tx_r)
         /\ OutBuffer \in Seq(Nat) /\ line \o thr \in Seq(Nat)
         /\ Driver \in Seq(Nat)
<1>1. uart_out_tx_w - uart_out_tx_r \in Nat /\ uart_out_tx_r \in Nat
      /\ uart_out_tx_buf \in Buffer
  BY Difference DEF OutTypes
<1>2. OutBuffer = Ring(uart_out_tx_buf, uart_out_tx_r,
                       uart_out_tx_w - uart_out_tx_r)
  BY DEF OutBuffer, Ring, N
<1>3. OutBuffer \in Seq(Nat)
  BY <1>1, <1>2, RingSeq
<1>4. line \o thr \in Seq(Nat)
  BY ConcatProperties DEF OutTypes
<1>5. Driver \in Seq(Nat)
  BY <1>3, <1>4, ConcatProperties DEF Driver
<1> QED BY <1>2, <1>3, <1>4, <1>5

\* A new character goes to the device or to the ring.
LEMMA NewCharacter ==
  ASSUME NEW s \in Seq(Nat), NEW t \in Seq(Nat), NEW held, NEW n \in Nat,
         Account(s \o t, held, n)
  PROVE  Account((s \o <<n + 1>>) \o t, held, n + 1)
<1>1. n + 1 \in Nat /\ n + 1 \notin 1..n /\ 1..(n + 1) = (1..n) \cup {n + 1}
  OBVIOUS
<1>2. n + 1 \notin ToSet(s \o t) /\ n + 1 \notin held
  BY <1>1 DEF Account
<1> DEFINE c == n + 1
           d == (s \o <<c>>) \o t
<1> HIDE DEF c
<1>3. IsInjective(d) /\ ToSet(d) = ToSet(s \o t) \cup {c}
  BY <1>1, <1>2, Insert DEF Account, c
<1> HIDE DEF d
<1>4. ToSet(d) \cup held = 1..c /\ ToSet(d) \cap held = {}
  <2>1. ToSet(d) \cup held = (ToSet(s \o t) \cup held) \cup {c}
    BY <1>3
  <2>2. c \notin held /\ 1..c = (1..n) \cup {c}
    BY <1>1, <1>2 DEF c
  <2> QED BY <1>3, <2>1, <2>2 DEF Account
<1> QED BY <1>3, <1>4 DEF Account, d, c

\* A thread that was waiting puts its character in the ring.
LEMMA HeldCharacter ==
  ASSUME NEW s \in Seq(Nat), NEW held, NEW n \in Nat, Account(s, held, n),
         NEW c \in Nat, c \in held
  PROVE  Account((s \o <<c>>) \o << >>, held \ {c}, n)
<1> DEFINE d == (s \o <<c>>) \o << >>
<1>1. s \o << >> = s /\ << >> \in Seq(Nat)
  BY ConcatEmptySeq, EmptySeq
<1>2. c \notin ToSet(s \o << >>) /\ IsInjective(s \o << >>)
  BY <1>1 DEF Account
<1>3. IsInjective(d) /\ ToSet(d) = ToSet(s) \cup {c}
  <2>1. IsInjective(d) /\ ToSet(d) = ToSet(s \o << >>) \cup {c}
    <3> DEFINE e == << >>
    <3>1. e \in Seq(Nat) /\ c \notin ToSet(s \o e) /\ IsInjective(s \o e)
      BY <1>1, <1>2
    <3> HIDE DEF e
    <3>2. IsInjective((s \o <<c>>) \o e)
          /\ ToSet((s \o <<c>>) \o e) = ToSet(s \o e) \cup {c}
      BY <3>1, Insert
    <3> QED BY <3>2 DEF e
  <2> QED BY <1>1, <2>1
<1> HIDE DEF d
<1>4. ToSet(d) \cup (held \ {c}) = 1..n /\ ToSet(d) \cap (held \ {c}) = {}
  BY <1>3 DEF Account
<1> QED BY <1>3, <1>4 DEF Account, d

\* Steps that keep the output side: threads move, but none takes or leaves a
\* character, and none begins to wait for room that is there.
LEMMA SameOut ==
  ASSUME OutInv, UNCHANGED <<outVars, ch, written>>, irq' \in BOOLEAN, irq => irq',
         pc' \in [Thread -> Places], InPutc' = InPutc,
         Waiting("wait_out")' # {} =>
           Waiting("wait_out") # {} \/ uart_out_buffer_full
  PROVE  OutInv'
<1>1. /\ uart_out_tx_buf' = uart_out_tx_buf /\ uart_out_tx_w' = uart_out_tx_w
      /\ uart_out_tx_r' = uart_out_tx_r /\ thr' = thr /\ line' = line
      /\ ch' = ch /\ written' = written
  BY DEF outVars
<1>2. OutTypes'
  BY <1>1 DEF OutInv, OutTypes
<1>3. Driver' = Driver /\ Held' = Held
  BY <1>1 DEF Driver, OutBuffer, Held
<1>4. Threads'
  BY <1>1 DEF OutInv, Threads
<1>5. uart_out_buffer_full' = uart_out_buffer_full /\ TxIdle' = TxIdle
  BY <1>1 DEF uart_out_buffer_full, TxIdle
<1> QED BY <1>1, <1>2, <1>3, <1>4, <1>5 DEF OutInv

LEMMA UartputcOut ==
  ASSUME OutInv, NEW t \in Thread, uartputc(t)
  PROVE  OutInv'
<1>1. /\ pc[t] = "outside" /\ written' = written + 1 /\ written \in Nat
      /\ written' \in Nat
  BY DEF uartputc, OutInv, Threads
<1>2. OutTypes /\ Threads /\ Account(Driver, Held, written)
  BY DEF OutInv
<1>3. CASE Direct(written') /\ UNCHANGED <<pc, ch>>
  <2> DEFINE c == written + 1
  <2>1. /\ thr = << >> /\ thr' = <<c>>
        /\ UNCHANGED <<uart_out_tx_buf, uart_out_tx_w, uart_out_tx_r, line, irq,
                       pc, ch>>
    BY <1>1, <1>3 DEF Direct, TxIdle
  <2>2. OutTypes'
    BY <1>1, <1>2, <2>1 DEF OutTypes
  <2>3. /\ OutBuffer' = OutBuffer /\ OutBuffer \in Seq(Nat) /\ line \in Seq(Nat)
        /\ line \o << >> = line
    BY <1>2, <2>1, DriverSeq, ConcatEmptySeq DEF OutBuffer, OutTypes
  <2>4. Driver = line \o OutBuffer /\ Driver' = (line \o <<c>>) \o OutBuffer
    BY <2>1, <2>3 DEF Driver
  <2>5. InPutc' = InPutc /\ Held' = Held /\ Waiting("wait_out")' = Waiting("wait_out")
    BY <2>1 DEF InPutc, Held, Waiting
  <2>6. Account(Driver', Held', written')
    BY <1>1, <1>2, <2>3, <2>4, <2>5, NewCharacter
  <2>7. Threads'
    BY <1>1, <1>2, <2>1, <2>5 DEF Threads
  <2>8. uart_out_buffer_full' = uart_out_buffer_full /\ ~TxIdle'
    BY <2>1 DEF uart_out_buffer_full, TxIdle
  <2> QED BY <2>1, <2>2, <2>5, <2>6, <2>7, <2>8 DEF OutInv
<1>4. CASE ~TxIdle /\ Enqueue(written') /\ UNCHANGED <<pc, ch>>
  <2>1. /\ OutTypes' /\ Driver' = (Driver \o <<written'>>) \o << >>
        /\ Driver \in Seq(Nat)
        /\ uart_out_tx_w' # uart_out_tx_r' => thr' # << >>
    BY <1>1, <1>2, <1>4, EnqueueStep
  <2>2. Driver \o << >> = Driver /\ << >> \in Seq(Nat)
    BY <2>1, ConcatEmptySeq, EmptySeq
  <2>3. InPutc' = InPutc /\ Held' = Held /\ Waiting("wait_out")' = Waiting("wait_out")
    BY <1>4 DEF InPutc, Held, Waiting
  <2>4. Account(Driver', Held', written')
    BY <1>1, <1>2, <2>1, <2>2, <2>3, NewCharacter
  <2>5. Threads'
    BY <1>1, <1>2, <1>4, <2>3 DEF Threads
  <2>6. Waiting("wait_out")' = {}
    BY <1>4, <2>3 DEF OutInv, Enqueue
  <2> QED BY <2>1, <2>4, <2>5, <2>6 DEF OutInv, TxIdle
<1>5. CASE /\ uart_out_buffer_full
           /\ pc' = [pc EXCEPT ![t] = "wait_out"]
           /\ ch' = [ch EXCEPT ![t] = written']
           /\ UNCHANGED <<outVars, irq>>
  <2> DEFINE c == written + 1
  <2>1. /\ UNCHANGED <<uart_out_tx_buf, uart_out_tx_w, uart_out_tx_r, thr, line,
                       irq>>
        /\ pc' = [pc EXCEPT ![t] = "wait_out"] /\ ch' = [ch EXCEPT ![t] = c]
    BY <1>1, <1>5 DEF outVars
  <2>2. OutTypes' /\ Driver' = Driver
    BY <1>2, <2>1 DEF OutTypes, Driver, OutBuffer
  <2>3. t \notin InPutc /\ InPutc' = InPutc \cup {t}
    BY <1>1, <1>2, <2>1 DEF InPutc, Waiting, Threads
  <2>4. \A u \in InPutc : u \in Thread /\ u # t /\ ch'[u] = ch[u]
    BY <1>2, <2>1, <2>3 DEF InPutc, Waiting, Threads
  <2>5. ch'[t] = c
    BY <1>2, <2>1 DEF Threads
  <2>6. Held' = Held \cup {c}
    BY <2>3, <2>4, <2>5 DEF Held
  <2>7. c \notin 1..written /\ 1..c = (1..written) \cup {c}
    BY <1>1
  <2>8. c \notin ToSet(Driver) /\ c \notin Held
    BY <1>2, <2>7 DEF Account
  <2>9. Account(Driver', Held', written')
    <3>1. ToSet(Driver) \cup Held' = 1..c /\ ToSet(Driver) \cap Held' = {}
      <4> HIDE DEF c
      <4> QED BY <1>2, <2>6, <2>7, <2>8 DEF Account
    <3> QED BY <1>1, <1>2, <2>2, <3>1 DEF Account
  <2>10. Threads'
    <3>1. pc' \in [Thread -> Places] /\ ch' \in [Thread -> Nat]
      BY <1>1, <1>2, <2>1 DEF Threads, Places
    <3>2. \A u \in InPutc : ch[u] # c
      BY <2>8 DEF Held
    <3>3. ASSUME NEW u \in InPutc', NEW v \in InPutc', ch'[u] = ch'[v]
          PROVE  u = v
      <4> HIDE DEF c
      <4> QED BY <1>2, <2>3, <2>4, <2>5, <3>2, <3>3 DEF Threads
    <3> QED BY <1>1, <3>1, <3>3 DEF Threads
  <2>11. uart_out_buffer_full' /\ TxIdle' = TxIdle
    BY <1>5, <2>1 DEF uart_out_buffer_full, TxIdle
  <2> QED BY <2>1, <2>2, <2>9, <2>10, <2>11 DEF OutInv
<1> QED BY <1>3, <1>4, <1>5 DEF uartputc

LEMMA UartputcLoopOut ==
  ASSUME OutInv, NEW t \in Thread, uartputc_loop(t)
  PROVE  OutInv'
<1>1. OutTypes /\ Threads /\ Account(Driver, Held, written) /\ written' = written
      /\ pc[t] = "putc_loop" /\ t \in InPutc /\ ch[t] \in Nat /\ ch[t] \in Held
      /\ written \in Nat
  BY DEF uartputc_loop, OutInv, Threads, InPutc, Waiting, Held
<1>2. CASE /\ Enqueue(ch[t])
           /\ pc' = [pc EXCEPT ![t] = "outside"]
           /\ ch' = [ch EXCEPT ![t] = 0]
  <2>1. /\ OutTypes' /\ Driver' = (Driver \o <<ch[t]>>) \o << >>
        /\ Driver \in Seq(Nat)
        /\ uart_out_tx_w' # uart_out_tx_r' => thr' # << >>
    BY <1>1, <1>2, EnqueueStep
  <2>2. InPutc' = InPutc \ {t} /\ Waiting("wait_out")' \subseteq Waiting("wait_out")
    BY <1>1, <1>2 DEF InPutc, Waiting, Threads
  <2>3. \A u \in InPutc \ {t} : ch'[u] = ch[u] /\ ch[u] # ch[t]
    BY <1>1, <1>2 DEF InPutc, Waiting, Threads
  <2>4. Held' = Held \ {ch[t]}
    BY <1>1, <2>2, <2>3 DEF Held
  <2>5. Account(Driver', Held', written')
    BY <1>1, <2>1, <2>4, HeldCharacter
  <2>6. Threads'
    <3>1. pc' \in [Thread -> Places] /\ ch' \in [Thread -> Nat]
      BY <1>1, <1>2 DEF Threads, Places
    <3> QED BY <1>1, <2>2, <2>3, <3>1 DEF Threads
  <2>7. Waiting("wait_out")' = {}
    BY <1>2, <2>2 DEF OutInv, Enqueue
  <2> QED BY <2>1, <2>5, <2>6, <2>7 DEF OutInv, TxIdle
<1>3. CASE /\ uart_out_buffer_full
           /\ pc' = [pc EXCEPT ![t] = "wait_out"]
           /\ UNCHANGED <<outVars, ch, irq>>
  <2>1. InPutc' = InPutc
    BY <1>1, <1>3 DEF InPutc, Waiting, Threads
  <2>2. pc' \in [Thread -> Places]
    BY <1>1, <1>3 DEF Threads, Places
  <2>3. irq' = irq /\ irq \in BOOLEAN
    BY <1>1, <1>3 DEF OutTypes
  <2> QED BY <1>1, <1>3, <2>1, <2>2, <2>3, SameOut
<1> QED BY <1>2, <1>3 DEF uartputc_loop

LEMMA GetcharOut ==
  ASSUME OutInv, NEW t \in Thread, getchar(t)
  PROVE  OutInv'
<1>1. /\ UNCHANGED <<outVars, ch, written>> /\ irq' = irq /\ irq \in BOOLEAN
      /\ pc \in [Thread -> Places] /\ pc[t] \in {"outside", "getc_loop"}
      /\ pc' = [pc EXCEPT ![t] = "wait_in"] \/ pc' = [pc EXCEPT ![t] = "outside"]
  BY DEF getchar, OutInv, OutTypes, Threads
<1>2. pc' \in [Thread -> Places] /\ \A u \in Thread \ {t} : pc'[u] = pc[u]
      /\ pc'[t] \in {"wait_in", "outside"}
  BY <1>1 DEF Places
<1>3. InPutc' = InPutc /\ Waiting("wait_out")' = Waiting("wait_out")
  BY <1>1, <1>2 DEF InPutc, Waiting
<1> QED BY <1>1, <1>2, <1>3, SameOut

\* The interrupt handler sends in order, and wakes the writers only when it
\* has made room.
LEMMA UartintrOut ==
  ASSUME OutInv, uartintr
  PROVE  OutInv'
<1>1. /\ OutTypes /\ Threads /\ Account(Driver, Held, written)
      /\ uart_out_tx_buf' = uart_out_tx_buf /\ uart_out_tx_w' = uart_out_tx_w
      /\ ch' = ch /\ written' = written
  BY DEF uartintr, OutInv
<1>2. uartstart(FALSE) /\ WakeIf(rhr # << >>, ~uart_out_buffer_full')
  BY DEF uartintr, Wake
<1>3. /\ uart_out_tx_buf' \in Buffer /\ uart_out_tx_w' \in Nat
      /\ uart_out_tx_r <= uart_out_tx_w'
      /\ uart_out_tx_w' <= uart_out_tx_r + N
  BY <1>1 DEF OutTypes
<1>4. /\ OutTypes'
      /\ Driver' = (line \o thr)
                     \o Ring(uart_out_tx_buf', uart_out_tx_r,
                             uart_out_tx_w' - uart_out_tx_r)
      /\ uart_out_tx_w' # uart_out_tx_r' => thr' # << >>
  BY <1>1, <1>2, <1>3, Uartstart
<1>5. Driver' = Driver
  BY <1>1, <1>4, DriverSeq DEF Driver
<1>6. pc' \in [Thread -> Places]
      /\ \A t \in Thread : pc'[t] =
           IF pc[t] = "wait_in" /\ rhr # << >> THEN "getc_loop"
           ELSE IF pc[t] = "wait_out" /\ ~uart_out_buffer_full' THEN "putc_loop"
           ELSE pc[t]
  BY <1>1, <1>2 DEF WakeIf, Threads, Places
<1>7. InPutc' = InPutc
  <2>1. ASSUME NEW t \in Thread
        PROVE  pc'[t] \in {"wait_out", "putc_loop"}
                 <=> pc[t] \in {"wait_out", "putc_loop"}
    BY <1>6
  <2>2. ASSUME NEW t \in Thread
        PROVE  t \in InPutc' <=> t \in InPutc
    BY <2>1 DEF InPutc, Waiting
  <2>3. InPutc \subseteq Thread /\ InPutc' \subseteq Thread
    BY DEF InPutc, Waiting
  <2> QED BY <2>2, <2>3
<1>8. Held' = Held /\ Threads'
  BY <1>1, <1>6, <1>7 DEF Held, Threads
<1>9. Waiting("wait_out")' # {} => uart_out_buffer_full'
  BY <1>6 DEF Waiting
<1> QED BY <1>1, <1>4, <1>5, <1>8, <1>9 DEF OutInv, TxIdle

LEMMA DeviceOut ==
  ASSUME OutInv, TxDone \/ RxReady \/ Spurious
  PROVE  OutInv'
<1>1. CASE TxDone
  <2>1. /\ UNCHANGED <<uart_out_tx_buf, uart_out_tx_w, uart_out_tx_r, pc, ch,
                       written>>
        /\ line' = line \o thr /\ thr' = << >> /\ irq' = TRUE
    BY <1>1 DEF TxDone
  <2>2. OutTypes /\ Threads /\ line \o thr \in Seq(Nat)
    BY DriverSeq DEF OutInv
  <2>3. OutTypes'
    BY <2>1, <2>2, EmptySeq DEF OutTypes
  <2>4. Driver' = Driver
    <3>1. line' \o thr' = line \o thr
      BY <2>1, <2>2, ConcatEmptySeq
    <3> QED BY <2>1, <3>1 DEF Driver, OutBuffer
  <2>5. Held' = Held /\ Threads' /\ Waiting("wait_out")' = Waiting("wait_out")
        /\ uart_out_buffer_full' = uart_out_buffer_full
    BY <2>1, <2>2 DEF Held, Threads, InPutc, Waiting, uart_out_buffer_full
  <2> QED BY <2>1, <2>3, <2>4, <2>5 DEF OutInv
<1>2. CASE RxReady \/ Spurious
  <2>1. /\ UNCHANGED <<outVars, ch, written, pc>> /\ irq' = TRUE
        /\ pc \in [Thread -> Places]
    BY <1>2 DEF RxReady, Spurious, OutInv, Threads
  <2>2. InPutc' = InPutc /\ Waiting("wait_out")' = Waiting("wait_out")
    BY <2>1 DEF InPutc, Waiting
  <2> QED BY <2>1, <2>2, SameOut
<1> QED BY <1>1, <1>2

LEMMA InitOut == Init => OutInv
<1> SUFFICES ASSUME Init PROVE OutInv
  OBVIOUS
<1>1. OutTypes
  <2>1. uart_out_tx_buf \in Buffer
    BY DEF Init, Buffer
  <2>2. uart_out_tx_r = 0 /\ uart_out_tx_w = 0 /\ 0 <= 0 + N
    BY Size DEF Init
  <2>3. thr = << >> /\ line = << >> /\ irq \in BOOLEAN
    BY DEF Init
  <2> QED BY <2>1, <2>2, <2>3, EmptySeq DEF OutTypes
<1>2. InPutc = {} /\ Waiting("wait_out") = {}
  BY DEF Init, InPutc, Waiting
<1>3. Threads /\ Held = {}
  BY <1>2 DEF Init, Threads, Places, Held
<1>4. Driver = << >>
  <2>1. Len(OutBuffer) = 0 /\ OutBuffer \in Seq(Nat)
    <3>1. OutBuffer = Ring(uart_out_tx_buf, 0, 0) /\ uart_out_tx_buf \in Buffer
      BY <1>1, DriverSeq DEF Init, OutTypes
    <3> QED BY <3>1, RingSeq
  <2>2. OutBuffer = << >>
    BY <2>1, EmptySeq
  <2>3. line \o thr = << >>
    BY DEF Init
  <2> QED BY <2>2, <2>3 DEF Driver
<1>5. Account(Driver, Held, written)
  BY <1>3, <1>4 DEF Account, IsInjective, ToSet, Init
<1> QED BY <1>1, <1>2, <1>3, <1>5 DEF OutInv, Init

LEMMA StepOut ==
  ASSUME OutInv, [Next]_vars
  PROVE  OutInv'
<1>1. CASE Next
  <2>1. ASSUME NEW t \in Thread, uartputc(t) \/ uartputc_loop(t) \/ getchar(t)
        PROVE  OutInv'
    BY <2>1, UartputcOut, UartputcLoopOut, GetcharOut
  <2> QED BY <1>1, <2>1, UartintrOut, DeviceOut DEF Next
<1>2. CASE UNCHANGED vars
  <2>1. /\ UNCHANGED <<outVars, ch, written, pc, irq>> /\ irq \in BOOLEAN
        /\ pc \in [Thread -> Places]
    BY <1>2 DEF vars, OutInv, OutTypes, Threads
  <2>2. InPutc' = InPutc /\ Waiting("wait_out")' = Waiting("wait_out")
    BY <2>1 DEF InPutc, Waiting
  <2> QED BY <2>1, <2>2, SameOut
<1> QED BY <1>1, <1>2

LEMMA OutInvariant == Spec => []OutInv
<1>1. Init => OutInv
  BY InitOut
<1>2. OutInv /\ [Next]_vars => OutInv'
  BY StepOut
<1> QED BY <1>1, <1>2, PTL DEF Spec

\* Whatever the threads, the interrupts and the device do, in any order and at
\* any fill of the ring, no character passed to uartputc is lost or sent twice
\* (uartputc, uartstart, uartintr).
THEOREM EveryCharacterKept == Spec => []NothingLost
<1>1. OutInv => NothingLost
  BY Zenon DEF OutInv, Account, Driver, Held, NothingLost
<1> QED BY <1>1, OutInvariant, PTL

-----------------------------------------------------------------------------
(* Input                                                                   *)

InTypes ==
  /\ uart_in_tx_buf \in Buffer
  /\ uart_in_tx_r \in Nat /\ uart_in_tx_w \in Nat
  /\ uart_in_tx_r <= uart_in_tx_w /\ uart_in_tx_w <= uart_in_tx_r + N
  /\ rhr \in Seq(Nat) /\ got \in Seq(Nat) /\ typed \in Nat
  /\ pc \in [Thread -> Places] /\ irq \in BOOLEAN

\* What was typed and not dropped, in the order it is read.
Typed == (got \o InBuffer) \o rhr

\* Rises strictly, up to at most n.
Rising(s, n) ==
  /\ \A i, j \in 1..Len(s) : i < j => s[i] < s[j]
  /\ \A i \in 1..Len(s) : s[i] <= n

\* The inductive invariant of the input side.
InInv ==
  /\ InTypes
  /\ Rising(Typed, typed)
  /\ Waiting("wait_in") # {} => uart_in_tx_r = uart_in_tx_w
  /\ rhr # << >> => irq

LEMMA TypedSeq ==
  ASSUME InTypes
  PROVE  /\ InBuffer = Ring(uart_in_tx_buf, uart_in_tx_r,
                            uart_in_tx_w - uart_in_tx_r)
         /\ InBuffer \in Seq(Nat) /\ got \o InBuffer \in Seq(Nat)
         /\ Typed \in Seq(Nat)
<1>1. uart_in_tx_w - uart_in_tx_r \in Nat /\ uart_in_tx_r \in Nat
      /\ uart_in_tx_buf \in Buffer
  BY Difference DEF InTypes
<1>2. InBuffer = Ring(uart_in_tx_buf, uart_in_tx_r,
                      uart_in_tx_w - uart_in_tx_r)
  BY DEF InBuffer, Ring, N
<1>3. InBuffer \in Seq(Nat)
  BY <1>1, <1>2, RingSeq
<1>4. got \o InBuffer \in Seq(Nat)
  BY <1>3, ConcatProperties DEF InTypes
<1>5. Typed \in Seq(Nat)
  BY <1>4, ConcatProperties DEF Typed, InTypes
<1> QED BY <1>2, <1>3, <1>4, <1>5

\* A rising sequence goes on rising with a larger number at its end.
LEMMA RisingAppend ==
  ASSUME NEW s \in Seq(Nat), NEW n \in Nat, Rising(s, n)
  PROVE  Rising(Append(s, n + 1), n + 1) /\ Rising(s, n + 1)
<1> DEFINE k == Len(s)
           d == Append(s, n + 1)
<1>1. /\ k \in Nat /\ Len(d) = k + 1 /\ d[k + 1] = n + 1
      /\ \A i \in 1..k : d[i] = s[i] /\ s[i] \in Nat
  BY AppendProperties
<1>2. /\ \A i, j \in 1..k : i < j => s[i] < s[j]
      /\ \A i \in 1..k : s[i] <= n
  BY DEF Rising
<1>3. Rising(s, n + 1)
  BY <1>1, <1>2 DEF Rising
<1> HIDE DEF k, d
<1>4. ASSUME NEW i \in 1..(k + 1) PROVE d[i] <= n + 1
  <2>1. CASE i = k + 1
    BY <1>1, <2>1
  <2>2. CASE i # k + 1
    <3>1. i \in 1..k
      BY <1>1, <2>2
    <3> QED BY <1>1, <1>2, <3>1
  <2> QED BY <2>1, <2>2
<1>5. ASSUME NEW i \in 1..(k + 1), NEW j \in 1..(k + 1), i < j
      PROVE  d[i] < d[j]
  <2>1. i \in 1..k
    BY <1>1, <1>5
  <2>2. d[i] = s[i] /\ s[i] \in Nat /\ s[i] <= n
    BY <1>1, <1>2, <2>1
  <2>3. CASE j = k + 1
    BY <1>1, <2>2, <2>3
  <2>4. CASE j # k + 1
    <3>1. j \in 1..k
      BY <1>1, <2>4
    <3> QED BY <1>1, <1>2, <1>5, <2>1, <3>1
  <2> QED BY <2>3, <2>4
<1>6. Rising(d, n + 1)
  BY <1>1, <1>4, <1>5 DEF Rising
<1> QED BY <1>3, <1>6 DEF d

\* Dropping the end of a rising sequence leaves it rising.
LEMMA RisingPrefix ==
  ASSUME NEW p \in Seq(Nat), NEW s \in Seq(Nat), NEW n \in Nat,
         Rising(p \o s, n), NEW k \in 0..Len(s)
  PROVE  Rising(p \o SubSeq(s, 1, k), n) /\ SubSeq(s, 1, k) \in Seq(Nat)
<1> DEFINE m == Len(p)
           t == SubSeq(s, 1, k)
           a == p \o s
           b == p \o t
           l == Len(s)
<1>1. m \in Nat /\ k \in Nat /\ l \in Nat /\ k <= l
  OBVIOUS
<1>2. t \in Seq(Nat) /\ Len(t) = k /\ \A i \in 1..k : t[i] = s[i]
  <2>1. \A i \in 1..k : s[i] \in Nat
    BY <1>1
  <2>2. /\ t \in Seq(Nat) /\ Len(t) = IF 1 <= k THEN k - 1 + 1 ELSE 0
        /\ \A i \in 1..(k - 1 + 1) : t[i] = s[1 + i - 1]
    BY <1>1, <2>1, SubSeqProperties
  <2> HIDE DEF t, l
  <2>3. Len(t) = k
    BY <1>1, <2>2
  <2>4. ASSUME NEW i \in 1..k PROVE t[i] = s[i]
    <3>1. i \in 1..(k - 1 + 1) /\ 1 + i - 1 = i
      BY <1>1
    <3> QED BY <2>2, <3>1
  <2> QED BY <2>2, <2>3, <2>4
<1>3. /\ Len(a) = m + l
      /\ \A i \in 1..(m + l) : a[i] = IF i <= m THEN p[i] ELSE s[i - m]
  BY ConcatProperties
<1> HIDE DEF t, l
<1>4. /\ Len(b) = m + k
      /\ \A i \in 1..(m + k) : b[i] = IF i <= m THEN p[i] ELSE t[i - m]
  <2>1. /\ Len(b) = m + Len(t)
        /\ \A i \in 1..(m + Len(t)) : b[i] = IF i <= m THEN p[i] ELSE t[i - m]
    BY <1>2, ConcatProperties
  <2> HIDE DEF b, m
  <2> QED BY <1>2, <2>1
<1> HIDE DEF a, b, m
<1>5. ASSUME NEW i \in 1..(m + k) PROVE i \in 1..(m + l) /\ b[i] = a[i]
  <2>1. i \in 1..(m + l)
    BY <1>1
  <2>2. CASE i <= m
    BY <1>3, <1>4, <2>1, <2>2
  <2>3. CASE ~(i <= m)
    <3>1. i - m \in 1..k
      BY <1>1, <2>3
    <3> QED BY <1>2, <1>3, <1>4, <2>1, <2>3, <3>1
  <2> QED BY <2>1, <2>2, <2>3
<1>6. Rising(a, n)
  BY DEF a
<1>7. Rising(b, n)
  BY <1>3, <1>4, <1>5, <1>6 DEF Rising
<1> QED BY <1>2, <1>7 DEF b, t

\* Steps that keep the input side.
LEMMA SameIn ==
  ASSUME InInv, UNCHANGED <<inVars, rhr, typed, got>>, irq' \in BOOLEAN,
         irq => irq', pc' \in [Thread -> Places],
         Waiting("wait_in")' = Waiting("wait_in")
  PROVE  InInv'
<1>1. Typed' = Typed
  BY DEF Typed, InBuffer, inVars
<1> QED BY <1>1 DEF InInv, InTypes, inVars

LEMMA UartputcIn ==
  ASSUME InInv, OutTypes, OutTypes', NEW t \in Thread,
         uartputc(t) \/ uartputc_loop(t)
  PROVE  InInv'
<1>1. /\ UNCHANGED <<inVars, rhr, typed, got>> /\ irq' \in BOOLEAN
      /\ pc \in [Thread -> Places] /\ pc[t] \in {"outside", "putc_loop"}
      /\ \/ pc' = pc \/ pc' = [pc EXCEPT ![t] = "wait_out"]
         \/ pc' = [pc EXCEPT ![t] = "outside"]
  BY DEF uartputc, uartputc_loop, InInv, InTypes, OutTypes
<1>2. pc' \in [Thread -> Places] /\ \A u \in Thread \ {t} : pc'[u] = pc[u]
      /\ pc'[t] # "wait_in"
  BY <1>1 DEF Places
<1>3. Waiting("wait_in")' = Waiting("wait_in")
  BY <1>1, <1>2 DEF Waiting
<1>4. irq => irq'
  <2>1. ASSUME NEW c, Enqueue(c) PROVE irq => irq'
    BY <2>1 DEF Enqueue, uartstart
  <2> QED BY <2>1 DEF uartputc, uartputc_loop, Direct
<1> QED BY <1>1, <1>2, <1>3, <1>4, SameIn

\* getchar takes the oldest character of the ring, or waits for one.
LEMMA GetcharIn ==
  ASSUME InInv, NEW t \in Thread, getchar(t)
  PROVE  InInv'
<1> DEFINE r == uart_in_tx_r
           w == uart_in_tx_w
           n == w - r
           c == uart_in_tx_buf[r % N]
<1>1. /\ uart_in_tx_buf' = uart_in_tx_buf /\ w' = w /\ rhr' = rhr
      /\ typed' = typed /\ irq' = irq
  BY DEF getchar
<1>2. pc \in [Thread -> Places] /\ InTypes
  BY DEF InInv, InTypes
<1>3. CASE r = w /\ pc' = [pc EXCEPT ![t] = "wait_in"] /\ UNCHANGED <<r, got>>
  <2>1. Typed' = Typed
    BY <1>1, <1>3 DEF Typed, InBuffer
  <2>2. InTypes'
    BY <1>1, <1>2, <1>3 DEF InTypes, Places
  <2> QED BY <1>1, <1>3, <2>1, <2>2 DEF InInv
<1>4. CASE /\ r # w
           /\ got' = Append(got, uart_in_tx_buf[r % UART_TX_BUF_SIZE])
           /\ r' = r + 1 /\ pc' = [pc EXCEPT ![t] = "outside"]
  <2>1. /\ r \in Nat /\ w \in Nat /\ r + 1 <= w /\ w <= r + N
        /\ got \in Seq(Nat) /\ rhr \in Seq(Nat) /\ uart_in_tx_buf \in Buffer
    BY <1>2, <1>4 DEF InTypes
  <2>2. c \in Nat /\ n \in Nat /\ 1 \in 0..n /\ w - (r + 1) = n - 1
        /\ n - 1 \in Nat /\ r + 1 \in Nat
    BY <2>1, InSlot DEF Buffer
  <2> DEFINE a == Ring(uart_in_tx_buf, r, 1)
             b == Ring(uart_in_tx_buf, r + 1, n - 1)
             e == <<c>>
  <2>3. a = e
    <3>1. r + 1 - 1 = r /\ 1 \in Nat
      BY <2>1
    <3>2. a \in Seq(Nat) /\ Len(a) = 1 /\ a[1] = uart_in_tx_buf[(r + 1 - 1) % N]
      <4>1. /\ a \in Seq(Nat) /\ Len(a) = 1
            /\ \A i \in 1..1 : a[i] = uart_in_tx_buf[(r + i - 1) % N]
        <5> HIDE DEF r
        <5> QED BY <2>1, <3>1, RingSeq
      <4> HIDE DEF a
      <4> QED BY <4>1
    <3> HIDE DEF a
    <3>3. e \in Seq(Nat) /\ Len(e) = 1 /\ e[1] = c
      BY <2>2
    <3> HIDE DEF e
    <3> QED BY <3>1, <3>2, <3>3, SeqEqual
  <2>4. a \o b = InBuffer
    <3>1. InBuffer = Ring(uart_in_tx_buf, r, n)
      BY <1>2, TypedSeq
    <3> HIDE DEF n, r
    <3> QED BY <2>1, <2>2, <3>1, RingSplit
  <2>5. InBuffer' = b
    <3>1. InBuffer' = [i \in 1..(w - (r + 1)) |->
                         uart_in_tx_buf[(r + 1 + i - 1) % UART_TX_BUF_SIZE]]
      BY <1>1, <1>4 DEF InBuffer
    <3> HIDE DEF n
    <3> QED BY <2>2, <3>1 DEF Ring, N
  <2>6. got' = got \o e
    BY <1>4, <2>1, <2>2, AppendIsConcat DEF N
  <2>7. b \in Seq(Nat) /\ e \in Seq(Nat)
    <3>1. e \in Seq(Nat)
      BY <2>2
    <3> HIDE DEF n
    <3> QED BY <2>1, <2>2, <3>1, RingSeq
  <2>8. got' \in Seq(Nat)
    BY <2>1, <2>6, <2>7, ConcatProperties
  <2>9. Typed' = Typed
    <3> HIDE DEF a, b, e
    <3>1. (got \o e) \o b = got \o (e \o b)
      BY <2>1, <2>7, Assoc, Zenon
    <3> QED BY <1>1, <2>3, <2>4, <2>5, <2>6, <3>1 DEF Typed
  <2>10. InTypes'
    <3>1. r' \in Nat /\ r' <= w' /\ w' <= r' + N
      BY <1>1, <1>4, <2>1, Size
    <3>2. pc' \in [Thread -> Places]
      BY <1>2, <1>4 DEF Places
    <3> QED BY <1>1, <1>2, <2>8, <3>1, <3>2 DEF InTypes
  <2>11. Waiting("wait_in")' = {}
    <3>1. Waiting("wait_in") = {}
      BY <1>4 DEF InInv
    <3> QED BY <1>2, <1>4, <3>1 DEF Waiting
  <2> QED BY <1>1, <2>9, <2>10, <2>11 DEF InInv
<1> QED BY <1>3, <1>4 DEF getchar

\* The interrupt handler stores what fits and drops the rest.
LEMMA UartintrIn ==
  ASSUME InInv, OutTypes', uartintr
  PROVE  InInv'
<1> DEFINE r == uart_in_tx_r
           w == uart_in_tx_w
           room == N - (w - r)
           n == IF Len(rhr) < room THEN Len(rhr) ELSE room
<1>1. InTypes /\ Rising(Typed, typed) /\ rhr \in Seq(Nat) /\ Len(rhr) \in Nat
      /\ typed \in Nat /\ got \in Seq(Nat) /\ irq' \in BOOLEAN
  BY DEF InInv, InTypes, OutTypes
<1>2. /\ r' = r /\ got' = got /\ typed' = typed /\ rhr' = << >>
      /\ w' = w + n
      /\ uart_in_tx_buf' = Stored(uart_in_tx_buf, w, rhr, n)
  BY DEF uartintr, Receive, in_room, N, Stored
<1>3. /\ n \in 0..Len(rhr) /\ (w - r) + n <= N /\ r \in Nat /\ w \in Nat /\ r <= w
      /\ n \in Nat
  <2>1. r \in Nat /\ w \in Nat /\ r <= w /\ w <= r + N
    BY <1>1 DEF InTypes
  <2>2. room \in Nat /\ (w - r) + room = N
    BY <2>1, Size
  <2> HIDE DEF room
  <2> QED BY <1>1, <2>1, <2>2, Size
<1>4. uart_in_tx_buf \in Buffer
  BY <1>1 DEF InTypes
<1> HIDE DEF n
<1>5. /\ uart_in_tx_buf' \in Buffer
      /\ Ring(uart_in_tx_buf', r, (w - r) + n)
           = Ring(uart_in_tx_buf, r, w - r) \o SubSeq(rhr, 1, n)
  BY <1>1, <1>2, <1>3, <1>4, RingReceive, ZenonT(40)
<1> DEFINE t == SubSeq(rhr, 1, n)
           p == got \o InBuffer
<1>6. /\ InBuffer = Ring(uart_in_tx_buf, r, w - r)
      /\ InBuffer \in Seq(Nat) /\ p \in Seq(Nat) /\ Typed = p \o rhr
  BY <1>1, TypedSeq DEF Typed
<1>7. InBuffer' = InBuffer \o t
  <2>1. (w + n) - r = (w - r) + n
    BY <1>3
  <2>2. InBuffer' = Ring(uart_in_tx_buf', r, (w + n) - r)
    BY <1>2 DEF InBuffer, Ring, N
  <2> QED BY <1>5, <1>6, <2>1, <2>2
<1>8. Rising(p \o t, typed) /\ t \in Seq(Nat)
  <2> HIDE DEF p, t
  <2> QED BY <1>1, <1>3, <1>6, RisingPrefix DEF t
<1>9. Typed' = p \o t
  <2> HIDE DEF t
  <2>1. (got \o InBuffer) \o t = got \o (InBuffer \o t)
    BY <1>1, <1>6, <1>8, Assoc, ZenonT(40)
  <2>2. p \o t \in Seq(Nat)
    BY <1>6, <1>8, ConcatProperties
  <2>3. (p \o t) \o << >> = p \o t
    BY <2>2, ConcatEmptySeq
  <2> QED BY <1>2, <1>7, <2>1, <2>3 DEF Typed
<1>10. InTypes'
  <2>1. w' \in Nat /\ r' \in Nat /\ r' <= w' /\ w' <= r' + N
    BY <1>2, <1>3, Size
  <2>2. pc' \in [Thread -> Places]
    BY <1>1 DEF InTypes, uartintr, Wake, WakeIf, Places
  <2> QED BY <1>1, <1>2, <1>5, <2>1, <2>2, EmptySeq DEF InTypes
<1>11. Waiting("wait_in")' # {} => r' = w'
  <2> SUFFICES ASSUME NEW u \in Thread, pc'[u] = "wait_in" PROVE r' = w'
    BY DEF Waiting
  <2>1. pc[u] = "wait_in" /\ rhr = << >>
    BY DEF uartintr, Wake, WakeIf
  <2>2. Len(rhr) = 0 /\ n = 0
    BY <1>3, <2>1
  <2>3. r = w
    BY <2>1 DEF InInv, Waiting
  <2> QED BY <1>2, <1>3, <2>2, <2>3
<1> QED BY <1>1, <1>2, <1>8, <1>9, <1>10, <1>11 DEF InInv

LEMMA DeviceIn ==
  ASSUME InInv, TxDone \/ RxReady \/ Spurious
  PROVE  InInv'
<1>1. CASE TxDone \/ Spurious
  <2>1. UNCHANGED <<inVars, rhr, typed, got, pc>> /\ irq' = TRUE
        /\ pc' \in [Thread -> Places]
    BY <1>1 DEF TxDone, Spurious, InInv, InTypes
  <2>2. Waiting("wait_in")' = Waiting("wait_in")
    BY <2>1 DEF Waiting
  <2> QED BY <2>1, <2>2, SameIn
<1>2. CASE RxReady
  <2> DEFINE p == got \o InBuffer
  <2>1. /\ UNCHANGED <<inVars, pc, got>> /\ irq' = TRUE /\ typed' = typed + 1
        /\ rhr' = IF Len(rhr) < RX_FIFO THEN Append(rhr, typed + 1) ELSE rhr
    BY <1>2 DEF RxReady
  <2>2. InTypes /\ Rising(Typed, typed) /\ typed \in Nat /\ rhr \in Seq(Nat)
    BY DEF InInv, InTypes
  <2>3. p \in Seq(Nat) /\ Typed = p \o rhr /\ Typed' = p \o rhr'
        /\ Typed \in Seq(Nat)
    BY <2>1, <2>2, TypedSeq DEF Typed, InBuffer, inVars
  <2>4. InTypes'
    BY <2>1, <2>2 DEF InTypes, inVars
  <2>5. Rising(Typed', typed')
    <3>1. Rising(Append(Typed, typed + 1), typed + 1) /\ Rising(Typed, typed + 1)
      BY <2>2, <2>3, RisingAppend
    <3>2. p \o Append(rhr, typed + 1) = Append(p \o rhr, typed + 1)
      <4> DEFINE e == <<typed + 1>>
      <4> HIDE DEF p
      <4>1. e \in Seq(Nat) /\ Append(rhr, typed + 1) = rhr \o e
        BY <2>2, AppendIsConcat
      <4>2. p \o rhr \in Seq(Nat)
        BY <2>3
      <4>3. Append(p \o rhr, typed + 1) = (p \o rhr) \o e
        <5> DEFINE q == p \o rhr
        <5>1. q \in Seq(Nat) /\ typed + 1 \in Nat
          BY <2>2, <4>2
        <5> HIDE DEF q
        <5>2. Append(q, typed + 1) = q \o <<typed + 1>>
          BY <5>1, AppendIsConcat
        <5> QED BY <5>2 DEF q
      <4>4. (p \o rhr) \o e = p \o (rhr \o e)
        <5> HIDE DEF e
        <5> QED BY <2>2, <2>3, <4>1, Assoc, ZenonT(40)
      <4> QED BY <4>1, <4>3, <4>4
    <3>3. rhr' = rhr \/ rhr' = Append(rhr, typed + 1)
      BY <2>1
    <3> HIDE DEF p
    <3> QED BY <2>1, <2>3, <3>1, <3>2, <3>3
  <2>6. Waiting("wait_in")' = Waiting("wait_in")
    BY <2>1 DEF Waiting
  <2> QED BY <2>1, <2>4, <2>5, <2>6 DEF InInv, inVars
<1> QED BY <1>1, <1>2

LEMMA InitIn == Init => InInv
<1> SUFFICES ASSUME Init PROVE InInv
  OBVIOUS
<1>1. InTypes
  <2>1. uart_in_tx_buf \in Buffer
    BY DEF Init, Buffer
  <2>2. uart_in_tx_r = 0 /\ uart_in_tx_w = 0 /\ 0 <= 0 + N
    BY Size DEF Init
  <2>3. pc \in [Thread -> Places]
    BY DEF Init, Places
  <2>4. rhr = << >> /\ got = << >> /\ irq \in BOOLEAN /\ typed \in Nat
    BY DEF Init
  <2> QED BY <2>1, <2>2, <2>3, <2>4, EmptySeq DEF InTypes
<1>2. Typed = << >>
  <2>1. Len(InBuffer) = 0 /\ InBuffer \in Seq(Nat)
    <3>1. InBuffer = Ring(uart_in_tx_buf, 0, 0) /\ uart_in_tx_buf \in Buffer
      BY <1>1, TypedSeq DEF Init, InTypes
    <3> QED BY <3>1, RingSeq
  <2>2. InBuffer = << >>
    BY <2>1, EmptySeq
  <2> QED BY <2>2 DEF Typed, Init
<1> QED BY <1>1, <1>2 DEF InInv, Rising, Waiting, Init

LEMMA InInvariant == Spec => []InInv
<1>1. Init => InInv
  BY InitIn
<1>2. InInv /\ OutInv /\ OutInv' /\ [Next]_vars => InInv'
  <2> SUFFICES ASSUME InInv, OutInv, OutInv', [Next]_vars PROVE InInv'
    OBVIOUS
  <2>1. OutTypes /\ OutTypes'
    BY DEF OutInv
  <2>2. CASE Next
    <3>1. ASSUME NEW t \in Thread, uartputc(t) \/ uartputc_loop(t) \/ getchar(t)
          PROVE  InInv'
      BY <2>1, <3>1, UartputcIn, GetcharIn
    <3> QED BY <2>1, <2>2, <3>1, UartintrIn, DeviceIn DEF Next
  <2>3. CASE UNCHANGED vars
    <3>1. UNCHANGED <<inVars, rhr, typed, got, pc, irq>> /\ irq' \in BOOLEAN
          /\ pc' \in [Thread -> Places]
      BY <2>3 DEF vars, InInv, InTypes
    <3>2. Waiting("wait_in")' = Waiting("wait_in")
      BY <3>1 DEF Waiting
    <3> QED BY <3>1, <3>2, SameIn
  <2> QED BY <2>2, <2>3
<1> QED BY <1>1, <1>2, OutInvariant, PTL DEF Spec

\* getchar returns characters in the order they were typed, none twice,
\* whatever the interrupt handler had to drop (uartintr, getchar).
THEOREM InputKeepsOrder == Spec => []InputInOrder
<1>1. InInv => InputInOrder
  BY Zenon DEF InInv, Rising, Typed, InputInOrder
<1> QED BY <1>1, InInvariant, PTL

\* No thread sleeps in wait(&wait_out) while the ring has room, or in
\* wait(&wait_in) while a character is there to be read (uartputc, getchar,
\* uartintr).
THEOREM NoWakeupLost == Spec => []NoLostWakeup
<1>1. OutInv /\ InInv => NoLostWakeup
  BY Zenon DEF OutInv, InInv, NoLostWakeup
<1> QED BY <1>1, OutInvariant, InInvariant, PTL

\* Whatever is in the output ring or in the receive FIFO, an interrupt that
\* will move it on is pending, or will be when THR has been sent (uartstart,
\* uartintr).
THEOREM InterruptComes == Spec => []WillInterrupt
<1>1. OutInv /\ InInv => WillInterrupt
  BY Zenon DEF OutInv, InInv, WillInterrupt
<1> QED BY <1>1, OutInvariant, InInvariant, PTL

=============================================================================
