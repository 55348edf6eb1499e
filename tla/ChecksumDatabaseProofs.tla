----------------------- MODULE ChecksumDatabaseProofs -----------------------
(* What the client trusts is in the tree that was signed, what it has      *)
(* trusted is one history, and an honest database is never refused, for    *)
(* tiles of any height and histories of any length: first the tree and its *)
(* reader (MerkleTiles), then the commands that share the cache.           *)
EXTENDS MCChecksumDatabase, WellFoundedInduction, TLAPS

-----------------------------------------------------------------------------
(* Induction.                                                              *)

(* What holds of 0, and of every number whose predecessor it holds of.     *)
LEMMA StepByStep ==
  ASSUME NEW N \in Nat, NEW T, 0 \in T, \A i \in 1..N : i - 1 \in T => i \in T
  PROVE  0..N \subseteq T
<1> DEFINE B == (0..N) \ T
<1> SUFFICES ASSUME B # {} PROVE FALSE
  OBVIOUS
<1>1. B \subseteq Nat
  OBVIOUS
<1>2. PICK x \in B : \A y \in B : <<y, x>> \notin OpToRel(<, Nat)
  <2> HIDE DEF B
  <2> QED
    BY ONLY B # {}, <1>1, NatLessThanWellFounded, WFMin
<1>3. x \in 1..N /\ x - 1 \in 0..N
  OBVIOUS
<1>4. x - 1 \in B
  BY <1>3
<1>5. <<x - 1, x>> \in OpToRel(<, Nat)
  BY <1>3 DEF OpToRel
<1> QED
  BY <1>2, <1>4, <1>5

(* The same for all numbers.                                               *)
LEMMA AllNumbers ==
  ASSUME NEW T, 0 \in T, \A i \in Nat : i \in T => i + 1 \in T
  PROVE  Nat \subseteq T
<1> SUFFICES ASSUME NEW n \in Nat PROVE n \in T
  OBVIOUS
<1>1. \A i \in 1..n : i - 1 \in T => i \in T
  <2> SUFFICES ASSUME NEW i \in 1..n, i - 1 \in T PROVE i \in T
    OBVIOUS
  <2>1. i - 1 \in Nat /\ (i - 1) + 1 = i
    OBVIOUS
  <2> QED
    BY <2>1
<1>2. 0..n \subseteq T
  BY ONLY <1>1, n \in Nat, 0 \in T, StepByStep
<1> QED
  BY <1>2

-----------------------------------------------------------------------------
(* Products.                                                               *)

LEMMA TimesLess ==
  ASSUME NEW i \in Nat, NEW j \in Nat, NEW v \in Nat, i <= j
  PROVE  i * v <= j * v /\ i * v \in Nat /\ j * v \in Nat
<1>1. PICK d \in Nat : j = i + d
  <2>1. j - i \in Nat /\ j = i + (j - i)
    OBVIOUS
  <2> QED
    BY <2>1
<1>2. (i + d) * v = i * v + d * v
  OBVIOUS
<1>3. i * v \in Nat /\ d * v \in Nat
  OBVIOUS
<1> QED
  BY <1>1, <1>2, <1>3

LEMMA TimesPairs ==
  ASSUME NEW b \in Nat, NEW i \in Nat, i >= 1, NEW v \in Nat, NEW w, w = b + (2 * i - 2) * v
  PROVE  /\ b + ((2 * i - 1) - 1) * v = w /\ b + (2 * i - 1) * v = w + v /\ b + (2 * i) * v = w + 2 * v
         /\ w = b + (i - 1) * (2 * v) /\ w + 2 * v = b + i * (2 * v) /\ w \in Nat
<1>1. PICK x : x = i * v
  OBVIOUS
<1>2. x \in Nat /\ v <= x
  <2>1. 1 * v <= i * v /\ i * v \in Nat
    BY TimesLess
  <2> QED
    BY <1>1, <2>1
<1>3. (2 * i - 2) * v = 2 * x - 2 * v
  BY <1>1
<1>4. (2 * i - 1) * v = 2 * x - v
  BY <1>1
<1>5. (2 * i) * v = 2 * x
  BY <1>1
<1>6. (i - 1) * (2 * v) = 2 * x - 2 * v
  BY <1>1
<1>7. i * (2 * v) = 2 * x
  BY <1>1
<1>8. (2 * i - 1) - 1 = 2 * i - 2
  OBVIOUS
<1> QED
  BY <1>2, <1>3, <1>4, <1>5, <1>6, <1>7, <1>8

-----------------------------------------------------------------------------
(* Powers of two.                                                          *)

(* A function that doubles at every step up to n.                          *)
Doubles(g, n) == g \in [0..n -> Nat] /\ g[0] = 1 /\ \A i \in 1..n : g[i] = 2 * g[i - 1]

LEMMA DoublesExist ==
  ASSUME NEW n \in Nat
  PROVE  \E g : Doubles(g, n)
<1> DEFINE T == {m \in Nat : \E g : Doubles(g, m)}
<1>1. 0 \in T
  <2> DEFINE g == [i \in 0..0 |-> 1]
  <2>1. Doubles(g, 0)
    BY DEF Doubles
  <2> HIDE DEF g
  <2> QED
    BY <2>1
<1>2. ASSUME NEW m \in Nat, m \in T PROVE m + 1 \in T
  <2>1. PICK g : Doubles(g, m)
    BY <1>2
  <2> DEFINE h == [i \in 0..(m + 1) |-> IF i = m + 1 THEN 2 * g[m] ELSE g[i]]
  <2>2. g[m] \in Nat
    BY <2>1 DEF Doubles
  <2>3. h \in [0..(m + 1) -> Nat] /\ h[0] = 1
    BY <2>1, <2>2 DEF Doubles
  <2>4. ASSUME NEW i \in 1..(m + 1) PROVE h[i] = 2 * h[i - 1]
    <3>1. CASE i = m + 1
      BY <3>1
    <3>2. CASE i # m + 1
      <4>1. h[i] = g[i] /\ h[i - 1] = g[i - 1] /\ i \in 1..m
        BY <3>2
      <4> HIDE DEF h
      <4> QED
        BY <2>1, <4>1 DEF Doubles
    <3> QED
      BY <3>1, <3>2
  <2>5. Doubles(h, m + 1)
    <3> HIDE DEF h
    <3> QED
      BY <2>3, <2>4 DEF Doubles
  <2> HIDE DEF h
  <2> QED
    BY <2>5
<1>3. Nat \subseteq T
  <2> HIDE DEF T
  <2> QED
    BY <1>1, <1>2, AllNumbers
<1> QED
  BY <1>3

LEMMA DoublesAgree ==
  ASSUME NEW n \in Nat, NEW m \in Nat, n <= m, NEW g, NEW h, Doubles(g, n), Doubles(h, m)
  PROVE  \A i \in 0..n : g[i] = h[i]
<1> DEFINE T == {i \in 0..n : g[i] = h[i]}
<1>1. 0 \in T
  BY DEF Doubles
<1>2. ASSUME NEW i \in 1..n, i - 1 \in T PROVE i \in T
  BY <1>2 DEF Doubles
<1>3. 0..n \subseteq T
  <2> HIDE DEF T
  <2> QED
    BY <1>1, <1>2, StepByStep
<1> QED
  BY <1>3

(* Pow2 is what its definition says.                                       *)
LEMMA Pow2Steps ==
  /\ Pow2 \in [Nat -> Nat] /\ Pow2[0] = 1
  /\ \A k \in Nat : Pow2[k + 1] = 2 * Pow2[k]
<1> DEFINE g(n) == CHOOSE g : Doubles(g, n)
           P == [n \in Nat |-> g(n)[n]]
<1>1. \A n \in Nat : Doubles(g(n), n)
  BY DoublesExist
<1> HIDE DEF g
<1>2. P \in [Nat -> Nat] /\ P[0] = 1
  BY <1>1 DEF Doubles
<1>3. ASSUME NEW k \in Nat, k # 0 PROVE P[k] = 2 * P[k - 1]
  <2>1. k - 1 \in Nat /\ k - 1 <= k /\ k - 1 \in 0..(k - 1) /\ k \in 1..k
    BY <1>3
  <2>2. g(k - 1)[k - 1] = g(k)[k - 1]
    <3>1. Doubles(g(k - 1), k - 1) /\ Doubles(g(k), k)
      BY <1>1, <2>1
    <3> QED
      BY <2>1, <3>1, DoublesAgree
  <2>3. g(k)[k] = 2 * g(k)[k - 1]
    BY <1>1, <2>1 DEF Doubles
  <2> QED
    BY <2>1, <2>2, <2>3
<1>4. P = [k \in Nat |-> IF k = 0 THEN 1 ELSE 2 * P[k - 1]]
  <2> HIDE DEF P
  <2>1. \A k \in Nat : P[k] = IF k = 0 THEN 1 ELSE 2 * P[k - 1]
    BY <1>2, <1>3
  <2>2. P = [k \in Nat |-> P[k]]
    BY <1>2
  <2> QED
    BY <2>1, <2>2
<1>5. Pow2 = [k \in Nat |-> IF k = 0 THEN 1 ELSE 2 * Pow2[k - 1]]
  <2>1. \E Q : Q = [k \in Nat |-> IF k = 0 THEN 1 ELSE 2 * Q[k - 1]]
    <3> HIDE DEF P
    <3> QED
      BY <1>4
  <2> QED
    BY <2>1 DEF Pow2
<1> HIDE DEF P
<1>6. /\ DOMAIN Pow2 = Nat /\ Pow2 = [k \in Nat |-> Pow2[k]]
      /\ \A k \in Nat : Pow2[k] = IF k = 0 THEN 1 ELSE 2 * Pow2[k - 1]
  BY <1>5, Zenon
<1>7. Pow2[0] = 1
  BY <1>6
<1>8. ASSUME NEW k \in Nat PROVE Pow2[k + 1] = 2 * Pow2[k]
  <2>1. k + 1 \in Nat /\ k + 1 # 0 /\ (k + 1) - 1 = k
    OBVIOUS
  <2> QED
    BY <1>6, <2>1
<1>9. \A k \in Nat : Pow2[k] \in Nat
  <2> DEFINE T == {k \in Nat : Pow2[k] \in Nat}
  <2>1. 0 \in T
    BY <1>7
  <2>2. ASSUME NEW k \in Nat, k \in T PROVE k + 1 \in T
    BY <1>8, <2>2
  <2>3. Nat \subseteq T
    <3> HIDE DEF T
    <3> QED
      BY <2>1, <2>2, AllNumbers
  <2> QED
    BY <2>3
<1>10. Pow2 \in [Nat -> Nat]
  BY <1>6, <1>9
<1> QED
  BY <1>7, <1>8, <1>10

LEMMA Pow2Grows ==
  /\ \A k \in Nat : Pow2[k] \in Nat /\ Pow2[k] > k
  /\ \A i, j \in Nat : i <= j => Pow2[i] <= Pow2[j]
  /\ \A i, j \in Nat : i < j => Pow2[i] < Pow2[j]
<1>1. \A k \in Nat : Pow2[k] \in Nat
  BY Pow2Steps
<1>2. \A k \in Nat : Pow2[k] > k
  <2> DEFINE T == {k \in Nat : Pow2[k] > k}
  <2>1. 0 \in T
    BY Pow2Steps
  <2>2. ASSUME NEW k \in Nat, k \in T PROVE k + 1 \in T
    BY <1>1, <2>2, Pow2Steps
  <2>3. Nat \subseteq T
    <3> HIDE DEF T
    <3> QED
      BY <2>1, <2>2, AllNumbers
  <2> QED
    BY <2>3
<1>3. ASSUME NEW i \in Nat PROVE \A d \in Nat : Pow2[i] <= Pow2[i + d]
  <2> DEFINE T == {d \in Nat : Pow2[i] <= Pow2[i + d]}
  <2>1. 0 \in T
    BY <1>1
  <2>2. ASSUME NEW d \in Nat, d \in T PROVE d + 1 \in T
    <3>1. i + d \in Nat /\ i + (d + 1) = (i + d) + 1
      OBVIOUS
    <3>2. Pow2[i + (d + 1)] = 2 * Pow2[i + d]
      BY <3>1, Pow2Steps
    <3> QED
      BY <1>1, <2>2, <3>1, <3>2
  <2>3. Nat \subseteq T
    <3> HIDE DEF T
    <3> QED
      BY <2>1, <2>2, AllNumbers
  <2> QED
    BY <2>3
<1>4. ASSUME NEW i \in Nat, NEW j \in Nat, i <= j PROVE Pow2[i] <= Pow2[j]
  <2>1. j - i \in Nat /\ i + (j - i) = j
    BY <1>4
  <2> QED
    BY <1>3, <2>1
<1>5. ASSUME NEW i \in Nat, NEW j \in Nat, i < j PROVE Pow2[i] < Pow2[j]
  <2>1. i + 1 \in Nat /\ i + 1 <= j
    BY <1>5
  <2>2. Pow2[i + 1] <= Pow2[j]
    BY <1>4, <2>1
  <2>3. Pow2[i + 1] = 2 * Pow2[i] /\ Pow2[i] \in Nat /\ Pow2[i] > 0 /\ Pow2[j] \in Nat
    BY <1>1, <1>2, Pow2Steps
  <2> QED
    BY <2>2, <2>3
<1> QED
  BY <1>1, <1>2, <1>4, <1>5

LEMMA Pow2Sum ==
  ASSUME NEW i \in Nat, NEW j \in Nat
  PROVE  Pow2[i + j] = Pow2[i] * Pow2[j]
<1> DEFINE T == {d \in Nat : Pow2[i + d] = Pow2[i] * Pow2[d]}
<1>1. 0 \in T
  BY Pow2Steps, Pow2Grows
<1>2. ASSUME NEW d \in Nat, d \in T PROVE d + 1 \in T
  <2>1. i + d \in Nat /\ i + (d + 1) = (i + d) + 1
    OBVIOUS
  <2>2. Pow2[i + (d + 1)] = 2 * Pow2[i + d] /\ Pow2[d + 1] = 2 * Pow2[d]
    BY <2>1, Pow2Steps
  <2>3. Pow2[i] \in Nat /\ Pow2[d] \in Nat /\ Pow2[i + d] = Pow2[i] * Pow2[d]
    BY <1>2, Pow2Grows
  <2>4. 2 * (Pow2[i] * Pow2[d]) = Pow2[i] * (2 * Pow2[d])
    BY <2>3
  <2> QED
    BY <2>2, <2>3, <2>4
<1>3. Nat \subseteq T
  <2> HIDE DEF T
  <2> QED
    BY <1>1, <1>2, AllNumbers
<1> QED
  BY <1>3

(* Where a range is split.                                                 *)
LEMMA SplitBetween ==
  ASSUME NEW w \in Nat, w > 1
  PROVE  Split(w) \in 1..(w - 1) /\ 2 * Split(w) >= w /\ IsPowerOfTwo(Split(w))
<1> DEFINE B == {e \in Nat : w <= Pow2[e]}
<1>1. w \in B /\ B \subseteq Nat
  BY Pow2Grows
<1>2. PICK e \in B : \A y \in B : <<y, e>> \notin OpToRel(<, Nat)
  <2>1. B # {}
    BY <1>1
  <2> HIDE DEF B
  <2> QED
    BY ONLY <2>1, <1>1, NatLessThanWellFounded, WFMin
<1>3. e \in Nat /\ e # 0 /\ w <= Pow2[e]
  BY Pow2Steps
<1>4. e - 1 \in Nat /\ e - 1 \notin B
  <2>1. e - 1 \in Nat /\ <<e - 1, e>> \in OpToRel(<, Nat)
    BY <1>3 DEF OpToRel
  <2> QED
    BY <1>2, <2>1
<1>5. Pow2[e - 1] < w /\ Pow2[e] = 2 * Pow2[e - 1] /\ Pow2[e - 1] \in Nat /\ Pow2[e - 1] > e - 1
  <2>1. (e - 1) + 1 = e
    BY <1>3
  <2> QED
    BY <1>4, <2>1, Pow2Grows, Pow2Steps
<1> DEFINE k == Pow2[e - 1]
<1>6. k \in 1..w /\ k < w /\ 2 * k >= w /\ IsPowerOfTwo(k)
  <2>1. e - 1 \in 0..k
    BY <1>4, <1>5
  <2> QED
    BY <1>3, <1>4, <1>5, <2>1 DEF IsPowerOfTwo
<1> HIDE DEF k
<1>7. Split(w) \in 1..w /\ IsPowerOfTwo(Split(w)) /\ Split(w) < w /\ 2 * Split(w) >= w
  BY <1>6 DEF Split
<1> QED
  BY <1>7

LEMMA Log2Of ==
  ASSUME NEW w \in Nat, IsPowerOfTwo(w)
  PROVE  Log2(w) \in Nat /\ Pow2[Log2(w)] = w
BY DEF IsPowerOfTwo, Log2

(* A complete subtree is split in the middle.                              *)
LEMMA SplitHalves ==
  ASSUME NEW m \in Nat
  PROVE  Split(Pow2[m + 1]) = Pow2[m]
<1> DEFINE w == Pow2[m + 1]
<1>1. w \in Nat /\ w > 1 /\ w = 2 * Pow2[m] /\ Pow2[m] \in Nat
  <2>1. Pow2[m] \in Nat /\ Pow2[m] > m
    BY Pow2Grows
  <2>2. Pow2[m + 1] = 2 * Pow2[m]
    BY Pow2Steps
  <2> QED
    BY <2>1, <2>2
<1>2. PICK j \in Nat : Split(w) = Pow2[j] /\ Pow2[j] < w /\ 2 * Pow2[j] >= w
  <2>1. Split(w) \in 1..(w - 1) /\ 2 * Split(w) >= w /\ IsPowerOfTwo(Split(w))
    BY ONLY <1>1, SplitBetween
  <2> QED
    BY <2>1, <1>1 DEF IsPowerOfTwo
<1>3. j < m + 1
  BY <1>1, <1>2, Pow2Grows
<1>4. ~(j < m)
  <2> SUFFICES ASSUME j < m PROVE FALSE
    OBVIOUS
  <2>1. Pow2[j] < Pow2[m] /\ Pow2[j] \in Nat
    BY Pow2Grows
  <2> QED
    BY <1>1, <1>2, <2>1
<1>5. j = m
  BY <1>3, <1>4
<1> QED
  BY <1>2, <1>5

-----------------------------------------------------------------------------
(* Hashes of ranges.  Where a range is split k[s] of it, and what is known *)
(* of the ranges in b is v[s].                                             *)

Inside(n, w) == {s \in Spans(n) : s[2] - s[1] <= w}
Hashed(f, D, b, v, k) ==
  /\ f = [s \in D |-> f[s]]
  /\ \A s \in D : f[s] = IF s \in b THEN v[s]
                         ELSE NodeHash(f[<<s[1], k[s]>>], f[<<k[s], s[2]>>])

(* The parts of a range are shorter ranges.                                *)
LEMMA SpanParts ==
  ASSUME NEW n \in Nat, NEW s \in Spans(n), NEW m \in (s[1] + 1)..(s[2] - 1)
  PROVE  /\ s = <<s[1], s[2]>> /\ s[1] \in 0..n /\ s[2] \in 0..n /\ s[1] < s[2]
         /\ <<s[1], m>> \in Spans(n) /\ <<m, s[2]>> \in Spans(n)
         /\ m - s[1] < s[2] - s[1] /\ s[2] - m < s[2] - s[1]
BY DEF Spans

LEMMA PartsInside ==
  ASSUME NEW n \in Nat, NEW w \in 1..n, NEW s \in Inside(n, w), NEW m \in (s[1] + 1)..(s[2] - 1)
  PROVE  <<s[1], m>> \in Inside(n, w - 1) /\ <<m, s[2]>> \in Inside(n, w - 1)
<1>1. s \in Spans(n) /\ s[2] - s[1] <= w
  BY DEF Inside
<1>2. /\ s[1] \in 0..n /\ s[2] \in 0..n /\ m \in Nat
      /\ <<s[1], m>> \in Spans(n) /\ <<m, s[2]>> \in Spans(n)
  BY <1>1, SpanParts
<1>3. m - s[1] <= w - 1 /\ s[2] - m <= w - 1
  BY <1>1, <1>2
<1> QED
  BY <1>2, <1>3 DEF Inside

LEMMA SpanWithin ==
  ASSUME NEW n \in Nat, NEW m \in Nat, NEW s \in Spans(n), s[2] <= m
  PROVE  s \in Spans(m)
BY DEF Spans

LEMMA HashesExist ==
  ASSUME NEW n \in Nat, NEW b, NEW v, NEW k,
         \A s \in Spans(n) \ b : k[s] \in (s[1] + 1)..(s[2] - 1)
  PROVE  \E f : Hashed(f, Spans(n), b, v, k)
<1> DEFINE T == {w \in 0..n : \E f : Hashed(f, Inside(n, w), b, v, k)}
<1>1. 0 \in T
  <2>1. Inside(n, 0) = {}
    BY DEF Inside, Spans
  <2> DEFINE f == [s \in Inside(n, 0) |-> 0]
  <2>2. Hashed(f, Inside(n, 0), b, v, k)
    <3>1. f = [s \in Inside(n, 0) |-> f[s]]
      OBVIOUS
    <3> HIDE DEF f
    <3> QED
      BY <2>1, <3>1 DEF Hashed
  <2> HIDE DEF f
  <2> QED
    BY <2>2
<1>2. ASSUME NEW w \in 1..n, w - 1 \in T PROVE w \in T
  <2>1. PICK f : Hashed(f, Inside(n, w - 1), b, v, k)
    BY <1>2
  <2> DEFINE g == [s \in Inside(n, w) |->
                     IF s \in Inside(n, w - 1) THEN f[s]
                     ELSE IF s \in b THEN v[s] ELSE NodeHash(f[<<s[1], k[s]>>], f[<<k[s], s[2]>>])]
  <2>2. \A s \in Inside(n, w - 1) : s \in Inside(n, w) /\ g[s] = f[s]
    BY DEF Inside, Spans
  <2>3. ASSUME NEW s \in Inside(n, w)
        PROVE  g[s] = IF s \in b THEN v[s] ELSE NodeHash(f[<<s[1], k[s]>>], f[<<k[s], s[2]>>])
    <3>1. CASE s \in Inside(n, w - 1)
      BY <2>1, <2>2, <3>1 DEF Hashed
    <3>2. CASE s \notin Inside(n, w - 1)
      BY <3>2
    <3> QED
      BY <3>1, <3>2
  <2>4. g = [s \in Inside(n, w) |-> g[s]]
    OBVIOUS
  <2> HIDE DEF g
  <2>5. ASSUME NEW s \in Inside(n, w), s \notin b
        PROVE  g[<<s[1], k[s]>>] = f[<<s[1], k[s]>>] /\ g[<<k[s], s[2]>>] = f[<<k[s], s[2]>>]
    <3>1. s \in Spans(n) /\ s[2] - s[1] <= w /\ k[s] \in (s[1] + 1)..(s[2] - 1)
      BY <2>5 DEF Inside
    <3>2. /\ s[1] \in 0..n /\ s[2] \in 0..n /\ k[s] \in Int
          /\ <<s[1], k[s]>> \in Spans(n) /\ <<k[s], s[2]>> \in Spans(n)
          /\ k[s] - s[1] < s[2] - s[1] /\ s[2] - k[s] < s[2] - s[1]
      BY <3>1, SpanParts
    <3>3. k[s] - s[1] <= w - 1 /\ s[2] - k[s] <= w - 1
      BY <3>1, <3>2
    <3>4. <<s[1], k[s]>> \in Inside(n, w - 1) /\ <<k[s], s[2]>> \in Inside(n, w - 1)
      BY <3>2, <3>3 DEF Inside
    <3> QED
      BY <2>2, <3>4
  <2>6. Hashed(g, Inside(n, w), b, v, k)
    BY <2>3, <2>4, <2>5 DEF Hashed
  <2> QED
    BY <2>6
<1>3. 0..n \subseteq T
  <2> HIDE DEF T
  <2> QED
    BY <1>1, <1>2, StepByStep
<1>4. Inside(n, n) = Spans(n)
  BY DEF Inside, Spans
<1> QED
  BY <1>3, <1>4

-----------------------------------------------------------------------------
(* The tree.                                                               *)

Middle(s) == s[1] + Split(s[2] - s[1])

LEMMA MiddleInside ==
  ASSUME NEW n \in Nat, NEW s \in Spans(n), s[2] - s[1] # 1
  PROVE  /\ Middle(s) \in (s[1] + 1)..(s[2] - 1)
         /\ <<s[1], Middle(s)>> \in Spans(n) /\ <<Middle(s), s[2]>> \in Spans(n)
         /\ Middle(s) - s[1] < s[2] - s[1] /\ s[2] - Middle(s) < s[2] - s[1]
<1>1. s[1] \in 0..n /\ s[2] \in 0..n /\ s[2] - s[1] \in Nat /\ s[2] - s[1] > 1
  BY DEF Spans
<1>2. Split(s[2] - s[1]) \in 1..((s[2] - s[1]) - 1)
  BY <1>1, SplitBetween
<1>3. Middle(s) \in (s[1] + 1)..(s[2] - 1)
  BY <1>1, <1>2 DEF Middle
<1> QED
  BY <1>3, SpanParts

LEMMA TreeSteps ==
  ASSUME NEW recs, Len(recs) \in Nat, NEW s \in Spans(Len(recs))
  PROVE  TreeHashes(recs)[s] =
           IF s[2] - s[1] = 1 THEN RecordHash(recs[s[2]])
           ELSE NodeHash(TreeHashes(recs)[<<s[1], Middle(s)>>], TreeHashes(recs)[<<Middle(s), s[2]>>])
<1> DEFINE D == Spans(Len(recs))
           b == {t \in D : t[2] - t[1] = 1}
           v == [t \in b |-> RecordHash(recs[t[2]])]
           k == [t \in D |-> Middle(t)]
<1>1. \A t \in D \ b : k[t] \in (t[1] + 1)..(t[2] - 1)
  BY MiddleInside
<1>2. PICK f : Hashed(f, D, b, v, k)
  <2> HIDE DEF b, v, k
  <2> QED
    BY <1>1, HashesExist
<1>3. f = [t \in D |->
             IF t[2] - t[1] = 1 THEN RecordHash(recs[t[2]])
             ELSE NodeHash(f[<<t[1], t[1] + Split(t[2] - t[1])>>], f[<<t[1] + Split(t[2] - t[1]), t[2]>>])]
  <2>1. \A t \in D : f[t] = IF t[2] - t[1] = 1 THEN RecordHash(recs[t[2]])
             ELSE NodeHash(f[<<t[1], t[1] + Split(t[2] - t[1])>>], f[<<t[1] + Split(t[2] - t[1]), t[2]>>])
    BY <1>2 DEF Hashed, Middle
  <2>2. f = [t \in D |-> f[t]]
    BY <1>2 DEF Hashed
  <2> QED
    BY ONLY <2>1, <2>2, Zenon
<1> DEFINE h == TreeHashes(recs)
<1>4. h = [t \in D |->
             IF t[2] - t[1] = 1 THEN RecordHash(recs[t[2]])
             ELSE NodeHash(h[<<t[1], t[1] + Split(t[2] - t[1])>>], h[<<t[1] + Split(t[2] - t[1]), t[2]>>])]
  BY <1>3, Zenon DEF TreeHashes
<1> HIDE DEF h
<1>5. h[s] = IF s[2] - s[1] = 1 THEN RecordHash(recs[s[2]])
             ELSE NodeHash(h[<<s[1], s[1] + Split(s[2] - s[1])>>], h[<<s[1] + Split(s[2] - s[1]), s[2]>>])
  BY <1>4, Zenon
<1> QED
  BY <1>5 DEF Middle, h

LEMMA HashFacts ==
  /\ EmptyHash # Missing
  /\ \A r : RecordHash(r) # Missing
  /\ \A q, r : RecordHash(q) = RecordHash(r) => q = r
  /\ \A l, r : NodeHash(l, r) = Missing <=> l = Missing \/ r = Missing
  /\ \A l, r, q : NodeHash(l, r) # RecordHash(q)
  /\ \A l, r, m, q : NodeHash(l, r) = NodeHash(m, q) /\ NodeHash(l, r) # Missing => l = m /\ r = q
<1>1. EmptyHash # Missing
  BY DEF EmptyHash, Missing
<1>2. \A r : Len(<<"record", r>>) = 2 /\ <<"record", r>>[2] = r
  OBVIOUS
<1>3. \A l, r : Len(<<"node", l, r>>) = 3 /\ <<"node", l, r>>[2] = l /\ <<"node", l, r>>[3] = r
  OBVIOUS
<1>4. Len(Missing) = 1
  BY DEF Missing
<1>5. /\ \A r : RecordHash(r) # Missing
      /\ \A q, r : RecordHash(q) = RecordHash(r) => q = r
  BY <1>2, <1>4 DEF RecordHash
<1>6. \A l, r : <<"node", l, r>> # Missing
  BY <1>3, <1>4
<1>7. \A l, r : NodeHash(l, r) = Missing <=> l = Missing \/ r = Missing
  BY <1>6 DEF NodeHash
<1>8. \A l, r, q : NodeHash(l, r) # RecordHash(q)
  BY <1>2, <1>3, <1>4 DEF NodeHash, RecordHash
<1>9. ASSUME NEW l, NEW r, NEW m, NEW q, NodeHash(l, r) = NodeHash(m, q), NodeHash(l, r) # Missing
      PROVE  l = m /\ r = q
  <2>1. NodeHash(l, r) = <<"node", l, r>> /\ NodeHash(m, q) = <<"node", m, q>>
    BY <1>7, <1>9 DEF NodeHash
  <2>2. <<"node", l, r>> = <<"node", m, q>>
    BY <1>9, <2>1
  <2> QED
    BY ONLY <2>2
<1> QED
  BY <1>1, <1>5, <1>7, <1>8, <1>9

(* A tree has all its hashes.                                              *)
LEMMA TreePresent ==
  ASSUME NEW recs, Len(recs) \in Nat, NEW s \in Spans(Len(recs))
  PROVE  TreeHashes(recs)[s] # Missing
<1> DEFINE n == Len(recs)
           T == {w \in 0..n : \A t \in Inside(n, w) : TreeHashes(recs)[t] # Missing}
<1>1. 0 \in T
  BY DEF Inside, Spans
<1>2. ASSUME NEW w \in 1..n, w - 1 \in T PROVE w \in T
  <2> SUFFICES ASSUME NEW t \in Inside(n, w) PROVE TreeHashes(recs)[t] # Missing
    OBVIOUS
  <2>1. t \in Spans(n) /\ t[2] - t[1] <= w /\ t[1] \in 0..n /\ t[2] \in 0..n
    BY DEF Inside, Spans
  <2>2. CASE t[2] - t[1] = 1
    <3>1. TreeHashes(recs)[t] = RecordHash(recs[t[2]])
      BY <2>1, <2>2, TreeSteps
    <3> QED
      BY <3>1, HashFacts
  <2>3. CASE t[2] - t[1] # 1
    <3>1. /\ Middle(t) \in (t[1] + 1)..(t[2] - 1)
          /\ <<t[1], Middle(t)>> \in Spans(n) /\ <<Middle(t), t[2]>> \in Spans(n)
      BY <2>1, <2>3, MiddleInside
    <3>2. <<t[1], Middle(t)>> \in Inside(n, w - 1) /\ <<Middle(t), t[2]>> \in Inside(n, w - 1)
      BY ONLY n \in Nat, w \in 1..n, t \in Inside(n, w), <3>1, PartsInside
    <3>3. TreeHashes(recs)[<<t[1], Middle(t)>>] # Missing /\ TreeHashes(recs)[<<Middle(t), t[2]>>] # Missing
      BY <1>2, <3>2
    <3>4. TreeHashes(recs)[t] = NodeHash(TreeHashes(recs)[<<t[1], Middle(t)>>], TreeHashes(recs)[<<Middle(t), t[2]>>])
      BY <2>1, <2>3, TreeSteps
    <3> QED
      BY <3>3, <3>4, HashFacts
  <2> QED
    BY <2>2, <2>3
<1>3. 0..n \subseteq T
  <2> HIDE DEF T
  <2> QED
    BY <1>1, <1>2, StepByStep
<1>4. s \in Inside(n, n)
  BY DEF Inside, Spans
<1> QED
  BY <1>3, <1>4

(* Trees have the same hash exactly if they have the same records.         *)
LEMMA TreesEqual ==
  ASSUME NEW recs, NEW that, Len(recs) \in Nat, Len(that) \in Nat,
         NEW s \in Spans(Len(recs)) \cap Spans(Len(that))
  PROVE  TreeHashes(recs)[s] = TreeHashes(that)[s] <=> \A i \in (s[1] + 1)..s[2] : recs[i] = that[i]
<1> DEFINE P(t) == TreeHashes(recs)[t] = TreeHashes(that)[t]
                     <=> \A i \in (t[1] + 1)..t[2] : recs[i] = that[i]
           n == Len(recs)
           m == Len(that)
           T == {w \in 0..n : \A t \in Inside(n, w) \cap Spans(m) : P(t)}
<1>1. 0 \in T
  BY DEF Inside, Spans
<1>2. ASSUME NEW w \in 1..n, w - 1 \in T PROVE w \in T
  <2> SUFFICES ASSUME NEW t \in Inside(n, w) \cap Spans(m) PROVE P(t)
    OBVIOUS
  <2>1. t \in Spans(n) /\ t \in Spans(m) /\ t[2] - t[1] <= w /\ t[1] \in 0..n /\ t[2] \in 0..n
    BY DEF Inside, Spans
  <2>2. CASE t[2] - t[1] = 1
    <3>1. (t[1] + 1)..t[2] = {t[2]}
      BY <2>1, <2>2
    <3>2. TreeHashes(recs)[t] = RecordHash(recs[t[2]]) /\ TreeHashes(that)[t] = RecordHash(that[t[2]])
      BY <2>1, <2>2, TreeSteps
    <3> QED
      BY <3>1, <3>2, HashFacts
  <2>3. CASE t[2] - t[1] # 1
    <3> DEFINE k == Middle(t)
    <3>1. /\ k \in (t[1] + 1)..(t[2] - 1)
          /\ <<t[1], k>> \in Spans(n) /\ <<k, t[2]>> \in Spans(n)
          /\ <<t[1], k>> \in Spans(m) /\ <<k, t[2]>> \in Spans(m)
      BY <2>1, <2>3, MiddleInside
    <3>2. TreeHashes(recs)[t] = NodeHash(TreeHashes(recs)[<<t[1], k>>], TreeHashes(recs)[<<k, t[2]>>])
      BY <2>1, <2>3, TreeSteps
    <3>3. TreeHashes(that)[t] = NodeHash(TreeHashes(that)[<<t[1], k>>], TreeHashes(that)[<<k, t[2]>>])
      BY <2>1, <2>3, TreeSteps
    <3> HIDE DEF k
    <3>4. <<t[1], k>> \in Inside(n, w - 1) /\ <<k, t[2]>> \in Inside(n, w - 1)
      BY ONLY n \in Nat, w \in 1..n, t \in Inside(n, w), <3>1, PartsInside
    <3>5. P(<<t[1], k>>) /\ P(<<k, t[2]>>)
      <4>1. <<t[1], k>> \in Inside(n, w - 1) \cap Spans(m) /\ <<k, t[2]>> \in Inside(n, w - 1) \cap Spans(m)
        BY <3>1, <3>4
      <4> HIDE DEF P
      <4> QED
        BY <1>2, <4>1
    <3>6. TreeHashes(recs)[t] # Missing
      BY <2>1, TreePresent
    <3>7. TreeHashes(recs)[t] = TreeHashes(that)[t] <=>
            /\ TreeHashes(recs)[<<t[1], k>>] = TreeHashes(that)[<<t[1], k>>]
            /\ TreeHashes(recs)[<<k, t[2]>>] = TreeHashes(that)[<<k, t[2]>>]
      BY <3>2, <3>3, <3>6, HashFacts
    <3>8. (t[1] + 1)..t[2] = ((t[1] + 1)..k) \cup ((k + 1)..t[2])
      BY <2>1, <3>1
    <3>9. /\ TreeHashes(recs)[<<t[1], k>>] = TreeHashes(that)[<<t[1], k>>]
               <=> \A i \in (t[1] + 1)..k : recs[i] = that[i]
          /\ TreeHashes(recs)[<<k, t[2]>>] = TreeHashes(that)[<<k, t[2]>>]
               <=> \A i \in (k + 1)..t[2] : recs[i] = that[i]
      BY <3>5
    <3> QED
      BY ONLY <3>7, <3>8, <3>9
  <2> QED
    BY <2>2, <2>3
<1>3. 0..n \subseteq T
  <2> HIDE DEF T
  <2> QED
    BY <1>1, <1>2, StepByStep
<1>4. s \in Inside(n, n) \cap Spans(m)
  BY DEF Inside, Spans
<1>5. P(s)
  <2> HIDE DEF P
  <2> QED
    BY <1>3, <1>4
<1> QED
  BY <1>5

-----------------------------------------------------------------------------
(* Folding the hashes of a tile.                                           *)

Rows(f, a, r) == f[0] = a /\ \A h \in 1..r : f[h] = Pairs(f[h - 1])

(* What Folded computes is the last row.                                   *)
LEMMA RowsExist ==
  ASSUME NEW r \in Nat, NEW a
  PROVE  \E f : Rows(f, a, r) /\ Folded(a, r) = f[r]
<1> DEFINE R(f, m) == f = [h \in 0..m |-> f[h]] /\ Rows(f, a, m)
           T == {m \in 0..r : \E f : R(f, m)}
<1>1. 0 \in T
  <2> DEFINE f == [h \in 0..0 |-> a]
  <2>1. R(f, 0)
    BY DEF Rows
  <2> HIDE DEF f
  <2> QED
    BY <2>1
<1>2. ASSUME NEW m \in 1..r, m - 1 \in T PROVE m \in T
  <2>1. PICK f : R(f, m - 1)
    BY <1>2
  <2> DEFINE g == [h \in 0..m |-> IF h = m THEN Pairs(f[m - 1]) ELSE f[h]]
  <2>2. g = [h \in 0..m |-> g[h]] /\ g[0] = a
    BY <2>1 DEF Rows
  <2>3. ASSUME NEW h \in 1..m PROVE g[h] = Pairs(g[h - 1])
    <3>1. CASE h = m
      BY <3>1
    <3>2. CASE h # m
      <4>1. g[h] = f[h] /\ g[h - 1] = f[h - 1] /\ h \in 1..(m - 1)
        BY <3>2
      <4> HIDE DEF g
      <4> QED
        BY <2>1, <4>1 DEF Rows
    <3> QED
      BY <3>1, <3>2
  <2> HIDE DEF g
  <2>4. R(g, m)
    BY <2>2, <2>3 DEF Rows
  <2> QED
    BY <2>4
<1>3. 0..r \subseteq T
  <2> HIDE DEF T
  <2> QED
    BY <1>1, <1>2, StepByStep
<1>4. PICK f : R(f, r)
  BY <1>3
<1>5. f = [h \in 0..r |-> IF h = 0 THEN a ELSE Pairs(f[h - 1])]
  <2>1. \A h \in 0..r : f[h] = IF h = 0 THEN a ELSE Pairs(f[h - 1])
    <3> SUFFICES ASSUME NEW h \in 0..r PROVE f[h] = IF h = 0 THEN a ELSE Pairs(f[h - 1])
      OBVIOUS
    <3>1. h = 0 \/ h \in 1..r
      OBVIOUS
    <3>2. CASE h = 0
      BY <1>4, <3>2 DEF Rows
    <3>3. CASE h \in 1..r
      BY <1>4, <3>3, Zenon DEF Rows
    <3> QED
      BY <3>1, <3>2, <3>3
  <2> QED
    BY <1>4, <2>1, Zenon
<1> DEFINE d == CHOOSE g : g = [h \in 0..r |-> IF h = 0 THEN a ELSE Pairs(g[h - 1])]
<1>6. d = [h \in 0..r |-> IF h = 0 THEN a ELSE Pairs(d[h - 1])]
  BY <1>5, Zenon
<1>9. Folded(a, r) = d[r]
  BY DEF Folded
<1> HIDE DEF d
<1>7. \A h \in 0..r : d[h] = IF h = 0 THEN a ELSE Pairs(d[h - 1])
  BY <1>6, Zenon
<1>8. Rows(d, a, r)
  BY <1>7 DEF Rows
<1> QED
  BY <1>8, <1>9

(* A row of half the length.                                               *)
Row(a, k) == a = [i \in 1..k |-> a[i]]

LEMMA PairsHalve ==
  ASSUME NEW k \in Nat, NEW a, Row(a, 2 * k)
  PROVE  Row(Pairs(a), k) /\ \A i \in 1..k : Pairs(a)[i] = NodeHash(a[2 * i - 1], a[2 * i])
<1>1. Len(a) = 2 * k
  BY DEF Row
<1>2. Len(a) \div 2 = k
  BY <1>1
<1>3. Pairs(a) = [i \in 1..k |-> NodeHash(a[2 * i - 1], a[2 * i])]
  BY <1>2 DEF Pairs
<1> QED
  BY <1>3 DEF Row

(* Rows r times folded from 2^r hashes have one.                           *)
LEMMA RowLengths ==
  ASSUME NEW r \in Nat, NEW a, NEW f, Rows(f, a, r), Row(a, Pow2[r])
  PROVE  \A h \in 0..r : Row(f[h], Pow2[r - h])
<1> DEFINE T == {h \in 0..r : Row(f[h], Pow2[r - h])}
<1>1. 0 \in T
  <2>1. r - 0 = r /\ f[0] = a /\ 0 \in 0..r
    BY DEF Rows
  <2> QED
    BY <2>1
<1>2. ASSUME NEW h \in 1..r, h - 1 \in T PROVE h \in T
  <2>1. r - h \in Nat /\ r - (h - 1) = (r - h) + 1 /\ f[h] = Pairs(f[h - 1])
    BY DEF Rows
  <2>2. Pow2[r - (h - 1)] = 2 * Pow2[r - h] /\ Pow2[r - h] \in Nat
    BY <2>1, Pow2Steps
  <2>3. Row(f[h - 1], 2 * Pow2[r - h])
    BY <1>2, <2>2
  <2>4. Row(f[h], Pow2[r - h])
    BY ONLY <2>1, <2>2, <2>3, PairsHalve
  <2> QED
    BY <2>4
<1>3. 0..r \subseteq T
  <2> HIDE DEF T
  <2> QED
    BY <1>1, <1>2, StepByStep
<1> QED
  BY <1>3

LEMMA RowSteps ==
  ASSUME NEW r \in Nat, NEW a, NEW f, Rows(f, a, r), Row(a, Pow2[r]),
         NEW h \in 1..r, NEW i \in 1..Pow2[r - h]
  PROVE  /\ 2 * i - 1 \in 1..Pow2[r - (h - 1)] /\ 2 * i \in 1..Pow2[r - (h - 1)]
         /\ f[h][i] = NodeHash(f[h - 1][2 * i - 1], f[h - 1][2 * i])
<1>1. r - h \in Nat /\ r - (h - 1) = (r - h) + 1 /\ h - 1 \in 0..r
  OBVIOUS
<1>2. PICK k, x : k = Pow2[r - h] /\ x = f[h - 1]
  OBVIOUS
<1>3. Pow2[r - (h - 1)] = 2 * k /\ k \in Nat
  BY <1>1, <1>2, Pow2Steps
<1>4. Row(x, 2 * k)
  BY <1>1, <1>2, <1>3, RowLengths
<1>5. f[h] = Pairs(x) /\ i \in 1..k
  BY <1>2 DEF Rows
<1>6. Pairs(x)[i] = NodeHash(x[2 * i - 1], x[2 * i])
  BY ONLY <1>3, <1>4, <1>5, PairsHalve
<1>7. 2 * i - 1 \in 1..(2 * k) /\ 2 * i \in 1..(2 * k)
  BY ONLY <1>3, <1>5
<1> QED
  BY ONLY <1>2, <1>3, <1>5, <1>6, <1>7

(* Missing hashes fold into a missing one.                                 *)
LEMMA FoldMissing ==
  ASSUME NEW r \in Nat, NEW a, NEW f, Rows(f, a, r), a = [i \in 1..Pow2[r] |-> Missing]
  PROVE  f[r][1] = Missing
<1>1. Row(a, Pow2[r]) /\ \A i \in 1..Pow2[r] : a[i] = Missing
  BY DEF Row
<1> DEFINE T == {h \in 0..r : \A i \in 1..Pow2[r - h] : f[h][i] = Missing}
<1>2. 0 \in T
  <2>1. r - 0 = r /\ f[0] = a /\ 0 \in 0..r
    BY DEF Rows
  <2> QED
    BY ONLY <1>1, <2>1
<1>3. ASSUME NEW h \in 1..r, h - 1 \in T PROVE h \in T
  <2> SUFFICES ASSUME NEW i \in 1..Pow2[r - h] PROVE f[h][i] = Missing
    OBVIOUS
  <2>1. /\ 2 * i - 1 \in 1..Pow2[r - (h - 1)] /\ 2 * i \in 1..Pow2[r - (h - 1)]
        /\ f[h][i] = NodeHash(f[h - 1][2 * i - 1], f[h - 1][2 * i])
    BY <1>1, RowSteps
  <2>2. f[h - 1][2 * i - 1] = Missing
    BY <1>3, <2>1
  <2> QED
    BY <2>1, <2>2, HashFacts
<1>4. 0..r \subseteq T
  <2> HIDE DEF T
  <2> QED
    BY <1>2, <1>3, StepByStep
<1>5. 1 \in 1..Pow2[r - r]
  BY Pow2Steps
<1> QED
  BY <1>4, <1>5

(* A complete subtree has the hash of its halves.                          *)
LEMMA TreeHalves ==
  ASSUME NEW recs, Len(recs) \in Nat, NEW m \in Nat, NEW b \in Nat,
         NEW u, u = Pow2[m], b + 2 * u <= Len(recs)
  PROVE  TreeHashes(recs)[<<b, b + 2 * u>>] =
           NodeHash(TreeHashes(recs)[<<b, b + u>>], TreeHashes(recs)[<<b + u, b + 2 * u>>])
<1>1. u \in Nat /\ u > 0 /\ Pow2[m + 1] = 2 * u
  BY Pow2Steps, Pow2Grows
<1> DEFINE s == <<b, b + 2 * u>>
<1>2. s[1] = b /\ s[2] = b + 2 * u /\ s \in Spans(Len(recs)) /\ s[2] - s[1] = 2 * u /\ s[2] - s[1] # 1
  BY <1>1, SMTT(30) DEF Spans
<1>3. Split(2 * u) = u
  BY <1>1, SplitHalves
<1>4. Middle(s) = b + u
  BY <1>2, <1>3 DEF Middle
<1> HIDE DEF s
<1>5. TreeHashes(recs)[s] = NodeHash(TreeHashes(recs)[<<s[1], Middle(s)>>], TreeHashes(recs)[<<Middle(s), s[2]>>])
  BY <1>2, TreeSteps
<1> QED
  BY <1>2, <1>4, <1>5 DEF s

(* The hashes of n neighbours of z leaves, from leaf b on.                 *)
Neighbours(a, recs, b, n, z) ==
  a = [i \in 1..n |-> TreeHashes(recs)[<<b + (i - 1) * z, b + i * z>>]]

(* Hashes of subtrees of height e fold into the one of height e + r.       *)
LEMMA FoldTree ==
  ASSUME NEW recs, Len(recs) \in Nat, NEW r \in Nat, NEW e \in Nat, NEW b \in Nat,
         NEW z, z = Pow2[e], b + Pow2[r] * z <= Len(recs), NEW a, NEW f, Rows(f, a, r),
         Neighbours(a, recs, b, Pow2[r], z)
  PROVE  f[r][1] = TreeHashes(recs)[<<b, b + Pow2[r] * z>>]
<1>1. /\ Row(a, Pow2[r])
      /\ \A i \in 1..Pow2[r] : a[i] = TreeHashes(recs)[<<b + (i - 1) * z, b + i * z>>]
  BY DEF Row, Neighbours
<1> DEFINE th == TreeHashes(recs)
           u(h) == Pow2[h] * z
           P(h) == \A i \in 1..Pow2[r - h] : f[h][i] = th[<<b + (i - 1) * u(h), b + i * u(h)>>]
           T == {h \in 0..r : P(h)}
<1>2. z \in Nat
  BY Pow2Grows
<1>3. 0 \in T
  <2>1. r - 0 = r /\ f[0] = a /\ 0 \in 0..r /\ u(0) = z
    BY <1>2, Pow2Steps DEF Rows
  <2> HIDE DEF u
  <2> QED
    BY <1>1, <2>1
<1>4. ASSUME NEW h \in 1..r, h - 1 \in T PROVE h \in T
  <2> SUFFICES ASSUME NEW i \in 1..Pow2[r - h]
               PROVE  f[h][i] = th[<<b + (i - 1) * u(h), b + i * u(h)>>]
    OBVIOUS
  <2>1. h - 1 \in Nat /\ (h - 1) + 1 = h /\ h \in Nat /\ r - h \in Nat /\ (h - 1) + e \in Nat
        /\ (r - h) + h = r
    OBVIOUS
  <2>2. PICK v, w : v = u(h - 1) /\ w = b + (2 * i - 2) * v
    OBVIOUS
  <2>3. v = Pow2[(h - 1) + e] /\ v \in Nat
    <3>1. Pow2[(h - 1) + e] = Pow2[h - 1] * Pow2[e]
      BY <2>1, Pow2Sum
    <3>2. Pow2[(h - 1) + e] \in Nat
      BY <2>1, Pow2Grows
    <3> QED
      BY <2>2, <3>1, <3>2
  <2>4. u(h) = 2 * v
    <3>1. Pow2[h] = 2 * Pow2[h - 1] /\ Pow2[h - 1] \in Nat
      BY <2>1, Pow2Steps
    <3>2. (2 * Pow2[h - 1]) * z = 2 * (Pow2[h - 1] * z)
      BY <1>2, <3>1
    <3> QED
      BY <2>2, <3>1, <3>2
  <2>5. i \in Nat /\ i >= 1 /\ i <= Pow2[r - h] /\ Pow2[r - h] \in Nat
    BY <2>1, Pow2Grows
  <2>6. /\ 2 * i - 1 \in 1..Pow2[r - (h - 1)] /\ 2 * i \in 1..Pow2[r - (h - 1)]
        /\ f[h][i] = NodeHash(f[h - 1][2 * i - 1], f[h - 1][2 * i])
    BY ONLY <1>1, r \in Nat, Rows(f, a, r), h \in 1..r, i \in 1..Pow2[r - h], RowSteps
  <2>7. /\ f[h - 1][2 * i - 1] = th[<<b + ((2 * i - 1) - 1) * v, b + (2 * i - 1) * v>>]
        /\ f[h - 1][2 * i] = th[<<b + (2 * i - 1) * v, b + (2 * i) * v>>]
    <3>1. P(h - 1)
      BY <1>4
    <3>2. \A j \in 1..Pow2[r - (h - 1)] : f[h - 1][j] = th[<<b + (j - 1) * v, b + j * v>>]
      BY ONLY <2>2, <3>1
    <3> HIDE DEF P, u, th
    <3> QED
      BY ONLY <2>6, <3>2
  <2>8. /\ b + ((2 * i - 1) - 1) * v = w /\ b + (2 * i - 1) * v = w + v /\ b + (2 * i) * v = w + 2 * v
        /\ w = b + (i - 1) * (2 * v) /\ w + 2 * v = b + i * (2 * v) /\ w \in Nat
    BY ONLY b \in Nat, <2>2, <2>3, <2>5, TimesPairs
  <2>9. w + 2 * v <= Len(recs)
    <3>1. Pow2[r] = Pow2[r - h] * Pow2[h] /\ Pow2[h] \in Nat
      BY <2>1, Pow2Sum, Pow2Grows
    <3>2. Pow2[r] * z = Pow2[r - h] * (2 * v)
      <4>1. (Pow2[r - h] * Pow2[h]) * z = Pow2[r - h] * (Pow2[h] * z)
        BY <1>2, <2>5, <3>1
      <4> QED
        BY <2>4, <3>1, <4>1
    <3>3. i * (2 * v) <= Pow2[r - h] * (2 * v) /\ i * (2 * v) \in Nat /\ Pow2[r - h] * (2 * v) \in Nat
      <4>1. 2 * v \in Nat
        BY <2>3
      <4> QED
        BY ONLY <2>5, <4>1, TimesLess
    <3>4. PICK x, y : x = i * (2 * v) /\ y = Pow2[r - h] * (2 * v)
      OBVIOUS
    <3>5. b + y <= Len(recs) /\ x <= y /\ x \in Nat /\ y \in Nat /\ w + 2 * v = b + x
      BY <2>8, <3>2, <3>3, <3>4
    <3> QED
      BY ONLY <3>5, b \in Nat, Len(recs) \in Nat
  <2>10. th[<<w, w + 2 * v>>] = NodeHash(th[<<w, w + v>>], th[<<w + v, w + 2 * v>>])
    BY <2>1, <2>3, <2>8, <2>9, TreeHalves
  <2> HIDE DEF th, u
  <2> QED
    BY ONLY <2>4, <2>6, <2>7, <2>8, <2>10
<1>5. 0..r \subseteq T
  <2> HIDE DEF T
  <2> QED
    BY <1>3, <1>4, StepByStep
<1>6. 1 \in 1..Pow2[r - r] /\ r \in 0..r
  BY Pow2Steps
<1>7. f[r][1] = th[<<b + (1 - 1) * u(r), b + 1 * u(r)>>]
  <2>1. P(r)
    BY <1>5, <1>6
  <2> HIDE DEF u, th
  <2> QED
    BY <1>6, <2>1
<1>8. u(r) \in Nat
  BY <1>2, Pow2Grows
<1>9. b + (1 - 1) * u(r) = b /\ b + 1 * u(r) = b + u(r)
  <2> HIDE DEF u
  <2> QED
    BY <1>8
<1> QED
  BY ONLY <1>7, <1>9

-----------------------------------------------------------------------------
(* A subtree read from a tile.                                             *)

LEMMA Division ==
  ASSUME NEW a \in Nat, NEW d \in Nat, d > 0
  PROVE  /\ a \div d \in Nat /\ a % d \in 0..(d - 1)
         /\ a = (a \div d) * d + (a % d)
         /\ (a \div d) * d \in Nat /\ (a \div d) * d <= a
<1>1. a % d \in 0..(d - 1)
  OBVIOUS
<1>2. a \div d \in Int
  OBVIOUS
<1>3. a = d * (a \div d) + (a % d)
  OBVIOUS
<1>4. a \div d \in Nat
  OBVIOUS
<1>5. d * (a \div d) = (a \div d) * d
  BY <1>2
<1>6. (a \div d) * d \in Nat
  BY <1>4
<1> QED
  BY <1>1, <1>3, <1>4, <1>5, <1>6

(* What fits into a as often as q, fits into the quotient.                 *)
LEMMA QuotientAtLeast ==
  ASSUME NEW a \in Nat, NEW d \in Nat, d > 0, NEW q \in Nat, q * d <= a
  PROVE  q <= a \div d
<1>1. PICK p : p = a \div d
  OBVIOUS
<1>2. p \in Nat /\ a = p * d + (a % d) /\ a % d \in 0..(d - 1) /\ p * d \in Nat
  BY <1>1, Division
<1> SUFFICES ASSUME ~(q <= p) PROVE FALSE
  BY <1>1
<1>3. p + 1 \in Nat /\ p + 1 <= q
  BY <1>2
<1>4. (p + 1) * d <= q * d /\ q * d \in Nat
  BY <1>3, TimesLess
<1>5. (p + 1) * d = p * d + d
  BY <1>2
<1> QED
  BY <1>2, <1>4, <1>5

(* Aligned: a group of z among groups of z * q begins far enough from the  *)
(* end.                                                                    *)
LEMMA AlignedInside ==
  ASSUME NEW i \in Nat, NEW z \in Nat, z > 0, NEW q \in Nat, q > 0, NEW w, w = z * q,
         NEW t, t = (i * z) \div w
  PROVE  /\ t \in Nat /\ w \in Nat /\ t * w \in Nat /\ i * z \in Nat
         /\ i * z - t * w \in Nat /\ (i * z - t * w) + z <= w
<1>1. w \in Nat /\ w > 0 /\ i * z \in Nat
  <2>1. 1 * z <= q * z /\ q * z \in Nat
    BY TimesLess
  <2>2. q * z = z * q
    OBVIOUS
  <2> QED
    BY <2>1, <2>2
<1>2. PICK x : x = i * z
  OBVIOUS
<1>3. t \in Nat /\ t * w \in Nat /\ x = t * w + (x % w) /\ x % w \in 0..(w - 1) /\ x \in Nat
  BY <1>1, <1>2, Division
<1>4. t * w = (t * q) * z
  BY <1>3
<1>5. PICK y : y = t * q
  OBVIOUS
<1>6. y \in Nat
  BY <1>3, <1>5
<1>7. x - t * w = (i - y) * z
  BY <1>2, <1>4, <1>5, <1>6
<1>8. i - y <= q - 1
  <2> SUFFICES ASSUME ~(i - y <= q - 1) PROVE FALSE
    OBVIOUS
  <2>1. i - y \in Nat /\ q <= i - y
    BY <1>6
  <2>2. q * z <= (i - y) * z
    BY <2>1, TimesLess
  <2>3. q * z = w
    OBVIOUS
  <2> QED
    BY <1>1, <1>3, <1>7, <2>2, <2>3
<1>9. (i - y) * z + z <= w
  <2>1. i - y \in Int /\ (q - 1) - (i - y) \in Nat
    BY <1>6, <1>8
  <2>2. PICK d \in Nat : d = (q - 1) - (i - y)
    BY <2>1
  <2>3. d * z \in Nat
    OBVIOUS
  <2>4. w = ((i - y) + d + 1) * z
    BY <1>6, <2>2
  <2>5. ((i - y) + d + 1) * z = (i - y) * z + d * z + z
    BY <2>1
  <2>6. (i - y) * z \in Int
    BY <2>1
  <2> QED
    BY <2>3, <2>4, <2>5, <2>6
<1> QED
  BY <1>1, <1>2, <1>3, <1>7, <1>9

(* A hash read for the leaves lo..hi-1 from the tiles of recs, for a tree  *)
(* of a size: unless it is missing it is the right one, and it is missing  *)
(* only if recs has not grown that far.                                    *)
ReadRight(hash, recs, size, lo, hi) ==
  hash # Missing \/ size <= Len(recs) => hi <= Len(recs) /\ hash = TreeHashes(recs)[<<lo, hi>>]

LEMMA SubtreeRight ==
  ASSUME NEW recs, Len(recs) \in Nat, NEW size \in Nat, NEW height \in Nat, NEW index \in Nat,
         NEW g, g = Pow2[height], index * g + g <= size, NEW tiles, tiles = TilesOf(recs, size)
  PROVE  ReadRight(Subtree(tiles, height, index), recs, size, index * g, index * g + g)
<1>1. PICK H, level, r, z, S, W :
        /\ H = TILE_HEIGHT /\ level = height \div H /\ r = height % H
        /\ z = Pow2[r] /\ S = Pow2[level * H] /\ W = Pow2[H]
  OBVIOUS
<1>2. /\ H \in Nat /\ H > 0 /\ level \in Nat /\ r \in 0..(H - 1) /\ r \in Nat /\ level * H \in Nat
      /\ height = level * H + r /\ H - r \in Nat /\ r + (H - r) = H
  <2>1. H \in Nat /\ H > 0
    BY <1>1, TileAssumption
  <2>2. /\ level \in Nat /\ r \in 0..(H - 1) /\ level * H \in Nat /\ height = level * H + r
    BY <1>1, <2>1, Division
  <2> QED
    BY <2>1, <2>2
<1>3. z \in Nat /\ z > 0 /\ S \in Nat /\ S > 0 /\ g = z * S
  <2>1. z \in Nat /\ z > 0 /\ S \in Nat /\ S > 0
    BY <1>1, <1>2, Pow2Grows
  <2>2. r + level * H = height
    BY <1>2
  <2>3. Pow2[r + level * H] = Pow2[r] * Pow2[level * H]
    BY <1>2, Pow2Sum
  <2> QED
    BY <1>1, <2>1, <2>2, <2>3
<1>4. PICK q : q \in Nat /\ q > 0 /\ W = z * q
  <2>1. Pow2[r + (H - r)] = Pow2[r] * Pow2[H - r]
    BY <1>2, Pow2Sum
  <2>2. Pow2[H - r] \in Nat /\ Pow2[H - r] > 0
    BY <1>2, Pow2Grows
  <2> QED
    BY <1>1, <1>2, <2>1, <2>2
<1>5. PICK first, tile, start, width, data :
        /\ first = index * z /\ tile = first \div W /\ start = first - tile * W
        /\ width = TileWidth(size, level, tile) /\ data = ServeTile(recs, level, tile, width)
  OBVIOUS
<1>6. /\ tile \in Nat /\ W \in Nat /\ tile * W \in Nat /\ first \in Nat /\ start \in Nat /\ start + z <= W
      /\ tile * W + start = first
  <2>1. tile = (index * z) \div W
    BY <1>5
  <2>2. /\ tile \in Nat /\ W \in Nat /\ tile * W \in Nat /\ index * z \in Nat
        /\ index * z - tile * W \in Nat /\ (index * z - tile * W) + z <= W
    BY <1>3, <1>4, <2>1, AlignedInside
  <2> QED
    BY <1>5, <2>2
<1>7. first * S = index * g /\ (first + z) * S = index * g + g /\ index * g \in Nat /\ g \in Nat
  <2>1. (index * z) * S = index * (z * S) /\ (first + z) * S = first * S + z * S /\ z * S \in Nat
    BY <1>3, <1>6
  <2>2. index * g \in Nat
    BY <1>3, <2>1
  <2> QED
    BY <1>3, <1>5, <2>1, <2>2
<1>8. first + z <= size \div S /\ size \div S \in Nat /\ (size \div S) * S <= size /\ (size \div S) * S \in Nat
  <2>1. (first + z) * S <= size /\ first + z \in Nat
    BY <1>3, <1>6, <1>7
  <2> QED
    BY <1>3, <2>1, Division, QuotientAtLeast
<1>9. /\ width \in Nat /\ start + z <= width /\ tile * W + width <= size \div S
  <2>1. width = IF (size \div S) - tile * W < W THEN (size \div S) - tile * W ELSE W
    BY <1>1, <1>5 DEF TileWidth, TILE_WIDTH, Least
  <2> QED
    BY <1>3, <1>6, <1>8, <2>1
<1> DEFINE end == (tile * W + width) * S
           there == end <= Len(recs)
           a == [i \in 1..z |-> data[start + i]]
<1>10. /\ end \in Nat /\ end <= size /\ index * g + g <= end
  <2>1. (tile * W + width) * S <= (size \div S) * S /\ (tile * W + width) * S \in Nat
    BY <1>3, <1>6, <1>8, <1>9, TimesLess
  <2>2. first + z <= tile * W + width
    BY <1>3, <1>6, <1>9
  <2>3. (first + z) * S <= (tile * W + width) * S
    BY <1>3, <1>6, <1>9, <2>2, TimesLess
  <2> QED
    BY <1>7, <1>8, <2>1, <2>3
<1>11. ASSUME NEW i \in 1..z
       PROVE  data[start + i] = IF there THEN TreeHashes(recs)[<<index * g + (i - 1) * S, index * g + i * S>>]
                                ELSE Missing
  <2>1. start + i \in 1..width
    BY <1>3, <1>6, <1>9
  <2>2. data = [j \in 1..width |->
                  IF (tile * W + width) * S <= Len(recs)
                  THEN TreeHash(recs, (tile * W + j - 1) * S, (tile * W + j) * S) ELSE Missing]
    BY <1>1, <1>5 DEF ServeTile, TILE_WIDTH
  <2>3. data[start + i] = IF there THEN TreeHash(recs, (tile * W + (start + i) - 1) * S, (tile * W + (start + i)) * S)
                          ELSE Missing
    BY <2>1, <2>2
  <2>4. tile * W + (start + i) - 1 = first + (i - 1) /\ tile * W + (start + i) = first + i
    BY <1>6
  <2>5. (first + (i - 1)) * S = index * g + (i - 1) * S /\ (first + i) * S = index * g + i * S
    <3>1. (first + (i - 1)) * S = first * S + (i - 1) * S /\ (first + i) * S = first * S + i * S
      BY <1>3, <1>6
    <3> QED
      BY <1>7, <3>1
  <2>6. index * g + (i - 1) * S # index * g + i * S
    <3>1. i * S = (i - 1) * S + S /\ (i - 1) * S \in Nat
      BY <1>3
    <3> QED
      BY <1>3, <1>7, <3>1
  <2>7. TreeHash(recs, index * g + (i - 1) * S, index * g + i * S)
          = TreeHashes(recs)[<<index * g + (i - 1) * S, index * g + i * S>>]
    BY <2>6 DEF TreeHash
  <2> HIDE DEF there
  <2> QED
    BY ONLY <2>3, <2>4, <2>5, <2>7
<1>12. PICK f : Rows(f, a, r) /\ Folded(a, r) = f[r]
  <2> HIDE DEF a
  <2> QED
    BY <1>2, RowsExist
<1>16. tiles[<<level, tile>>] = data
  <2>1. level \in 0..(size \div H)
    <3>1. height < g /\ g <= size /\ g \in Nat
      BY <1>7, Pow2Grows
    <3>2. level * H <= size
      BY <1>2, <3>1
    <3>3. size \div H \in Nat /\ level <= size \div H
      BY <1>2, <3>2, Division, QuotientAtLeast
    <3> QED
      BY <1>2, <3>3
  <2>2. tile \in 0..size
    <3>1. W \in Nat /\ W > 0 /\ 1 <= W /\ 1 <= S
      BY <1>1, <1>2, <1>3, Pow2Grows, SMTT(30)
    <3>2. 1 * tile <= W * tile /\ W * tile = tile * W
      BY <1>6, <3>1, TimesLess
    <3>3. 1 * first <= S * first /\ S * first = first * S /\ first * S \in Nat
      BY <1>3, <1>6, <3>1, TimesLess
    <3>4. PICK w, v : w = tile * W /\ v = first * S
      OBVIOUS
    <3>5. tile \in Nat /\ w \in Nat /\ first \in Nat /\ w <= first
      BY <1>6, <3>4
    <3>6. tile <= w
      BY ONLY <3>2, <3>4, <3>5
    <3>7. v \in Nat /\ first <= v
      BY ONLY <3>3, <3>4, <3>5
    <3>8. v <= size
      BY <1>7, <3>4, <3>7
    <3> QED
      BY ONLY <3>5, <3>6, <3>7, <3>8, size \in Nat
  <2>3. width > 0
    BY <1>3, <1>6, <1>9
  <2>4. <<level, tile>> \in TileIds(size)
    BY <1>1, <1>5, <2>1, <2>2, <2>3 DEF TileIds
  <2> QED
    BY <1>5, <2>4 DEF TilesOf
<1>13. Subtree(tiles, height, index) = f[r][1]
  <2>1. Subtree(tiles, height, index) = Folded(a, r)[1]
    <3>1. Subtree(tiles, height, index) = Folded([i \in 1..z |-> tiles[<<level, tile>>][start + i]], r)[1]
      BY <1>1, <1>5 DEF Subtree, TILE_WIDTH
    <3> QED
      BY <1>16, <3>1
  <2> QED
    BY <1>12, <2>1
<1>14. CASE there
  <2>1. Neighbours(a, recs, index * g, z, S)
    BY <1>11, <1>14 DEF Neighbours
  <2>2. index * g + z * S <= Len(recs)
    BY <1>3, <1>7, <1>10, <1>14
  <2> HIDE DEF a
  <2>3. f[r][1] = TreeHashes(recs)[<<index * g, index * g + z * S>>]
    <3>1. PICK b, e : b = index * g /\ e = level * H
      OBVIOUS
    <3>2. b \in Nat /\ e \in Nat /\ S = Pow2[e] /\ b + Pow2[r] * S <= Len(recs) /\ Neighbours(a, recs, b, Pow2[r], S)
      BY <1>1, <1>2, <1>7, <2>1, <2>2, <3>1
    <3>3. f[r][1] = TreeHashes(recs)[<<b, b + Pow2[r] * S>>]
      BY ONLY <1>2, <1>12, <3>2, Len(recs) \in Nat, FoldTree
    <3> QED
      BY ONLY <1>1, <3>1, <3>3
  <2> QED
    BY <1>3, <1>13, <2>2, <2>3 DEF ReadRight
<1>15. CASE ~there
  <2>1. a = [i \in 1..z |-> Missing]
    BY <1>11, <1>15
  <2> HIDE DEF a
  <2>2. f[r][1] = Missing
    BY <1>1, <1>2, <1>12, <2>1, FoldMissing
  <2>3. ~(size <= Len(recs))
    BY <1>10, <1>15
  <2> QED
    BY <1>13, <2>2, <2>3 DEF ReadRight
<1> QED
  BY <1>14, <1>15

-----------------------------------------------------------------------------
(* Ranges read from tiles.                                                 *)

Replaced(s, at) == s[1] <= at /\ at < s[2]
Stored(s, at) ==
  ~Replaced(s, at) /\ IsPowerOfTwo(s[2] - s[1]) /\ s[1] % (s[2] - s[1]) = 0
StoredAt(tiles, s) ==
  Subtree(tiles, Log2(s[2] - s[1]), s[1] \div (s[2] - s[1]))

(* One leaf is read or replaced.                                           *)
LEMMA OneLeaf ==
  ASSUME NEW n \in Nat, NEW s \in Spans(n), s[2] - s[1] = 1, NEW at
  PROVE  Replaced(s, at) \/ Stored(s, at)
<1>1. IsPowerOfTwo(1)
  <2>1. 0 \in 0..1 /\ 1 = Pow2[0]
    BY Pow2Steps
  <2> QED
    BY <2>1 DEF IsPowerOfTwo
<1>2. s[1] \in Nat /\ s[1] % 1 = 0
  BY DEF Spans
<1> QED
  BY <1>1, <1>2 DEF Stored

RangeStep(h, tiles, at, leaf, s) ==
  h[s] = IF Replaced(s, at) /\ s[2] - s[1] = 1 THEN leaf
         ELSE IF Stored(s, at) THEN StoredAt(tiles, s)
         ELSE NodeHash(h[<<s[1], Middle(s)>>], h[<<Middle(s), s[2]>>])

LEMMA RangeSteps ==
  ASSUME NEW tiles, NEW n \in Nat, NEW at, NEW leaf, NEW s \in Spans(n),
         NEW h, h = Ranges(tiles, n, at, leaf)
  PROVE  RangeStep(h, tiles, at, leaf, s)
<1> DEFINE D == Spans(n)
           b == {t \in D : (Replaced(t, at) /\ t[2] - t[1] = 1) \/ Stored(t, at)}
           v == [t \in b |-> IF Replaced(t, at) /\ t[2] - t[1] = 1 THEN leaf ELSE StoredAt(tiles, t)]
           k == [t \in D |-> Middle(t)]
           E(f, t) == IF Replaced(t, at) /\ t[2] - t[1] = 1 THEN leaf
                      ELSE IF Stored(t, at) THEN StoredAt(tiles, t)
                      ELSE NodeHash(f[<<t[1], Middle(t)>>], f[<<Middle(t), t[2]>>])
<1>1. \A t \in D \ b : k[t] \in (t[1] + 1)..(t[2] - 1)
  BY OneLeaf, MiddleInside
<1>2. PICK f : Hashed(f, D, b, v, k)
  <2> HIDE DEF b, v, k
  <2> QED
    BY <1>1, HashesExist
<1>3. f = [t \in D |-> E(f, t)]
  <2>1. \A t \in D : f[t] = E(f, t)
    BY <1>2 DEF Hashed
  <2>2. f = [t \in D |-> f[t]]
    BY <1>2 DEF Hashed
  <2> HIDE DEF E
  <2> QED
    BY ONLY <2>1, <2>2, Zenon
<1>4. h = CHOOSE g : g = [t \in D |-> E(g, t)]
  BY DEF Ranges, Replaced, Stored, StoredAt, Middle
<1>5. h = [t \in D |-> E(h, t)]
  <2> HIDE DEF E
  <2> QED
    BY ONLY <1>3, <1>4, Zenon
<1>6. h[s] = E(h, s)
  <2> HIDE DEF E
  <2> QED
    BY ONLY <1>5, s \in Spans(n), Zenon
<1> QED
  BY <1>6 DEF RangeStep

(* What is stored for a range is right.                                    *)
LEMMA StoredRight ==
  ASSUME NEW recs, Len(recs) \in Nat, NEW size \in Nat, NEW n \in Nat, n <= size,
         NEW s \in Spans(n), NEW at, Stored(s, at), NEW tiles, tiles = TilesOf(recs, size)
  PROVE  ReadRight(StoredAt(tiles, s), recs, size, s[1], s[2])
<1>1. PICK lo, hi, g : lo = s[1] /\ hi = s[2] /\ g = hi - lo
  OBVIOUS
<1>2. lo \in Nat /\ hi \in Nat /\ g \in Nat /\ g > 0 /\ hi <= n /\ lo + g = hi
  BY <1>1 DEF Spans
<1>3. IsPowerOfTwo(g) /\ lo % g = 0
  BY <1>1 DEF Stored
<1>4. PICK height, index : height = Log2(g) /\ index = lo \div g
  OBVIOUS
<1>5. height \in Nat /\ g = Pow2[height]
  BY <1>2, <1>3, <1>4, Log2Of
<1>6. index \in Nat /\ index * g = lo
  BY <1>2, <1>3, <1>4, Division
<1>7. ReadRight(Subtree(tiles, height, index), recs, size, index * g, index * g + g)
  <2>1. index * g + g <= size
    BY <1>2, <1>6
  <2> QED
    BY ONLY Len(recs) \in Nat, size \in Nat, tiles = TilesOf(recs, size), <1>5, <1>6, <2>1, SubtreeRight
<1>8. StoredAt(tiles, s) = Subtree(tiles, height, index)
  BY <1>1, <1>4 DEF StoredAt
<1> QED
  BY ONLY <1>1, <1>2, <1>6, <1>7, <1>8

(* What is read of a log with its own records, or with one of them given,  *)
(* is right.                                                               *)
LEMMA RangesRight ==
  ASSUME NEW recs, Len(recs) \in Nat, NEW size \in Nat, NEW n \in Nat, n <= size, NEW at \in Int, NEW leaf,
         at < 0 \/ (at < Len(recs) /\ leaf = RecordHash(recs[at + 1])),
         NEW tiles, tiles = TilesOf(recs, size), NEW h, h = Ranges(tiles, n, at, leaf), NEW s \in Spans(n)
  PROVE  ReadRight(h[s], recs, size, s[1], s[2])
<1> DEFINE P(t) == ReadRight(h[t], recs, size, t[1], t[2])
           T == {w \in 0..n : \A t \in Inside(n, w) : P(t)}
<1>1. 0 \in T
  BY DEF Inside, Spans
<1>2. ASSUME NEW w \in 1..n, w - 1 \in T PROVE w \in T
  <2> SUFFICES ASSUME NEW t \in Inside(n, w) PROVE P(t)
    OBVIOUS
  <2>1. /\ t \in Spans(n) /\ t[2] - t[1] <= w /\ t[1] \in 0..n /\ t[2] \in 0..n /\ t[1] < t[2]
        /\ t = <<t[1], t[2]>>
    BY DEF Inside, Spans
  <2>2. h[t] = IF Replaced(t, at) /\ t[2] - t[1] = 1 THEN leaf
               ELSE IF Stored(t, at) THEN StoredAt(tiles, t)
               ELSE NodeHash(h[<<t[1], Middle(t)>>], h[<<Middle(t), t[2]>>])
    <3>1. RangeStep(h, tiles, at, leaf, t)
      BY ONLY <2>1, n \in Nat, h = Ranges(tiles, n, at, leaf), RangeSteps
    <3> QED
      BY <3>1 DEF RangeStep
  <2>3. CASE Replaced(t, at) /\ t[2] - t[1] = 1
    <3>1. at = t[1] /\ at + 1 = t[2] /\ at >= 0 /\ at < Len(recs)
      BY <2>1, <2>3 DEF Replaced
    <3>2. t \in Spans(Len(recs)) /\ t[2] <= Len(recs)
      <4>1. t[2] <= Len(recs)
        BY <2>1, <3>1
      <4> QED
        BY ONLY <2>1, <4>1, Len(recs) \in Nat, n \in Nat, SpanWithin
    <3>3. TreeHashes(recs)[t] = RecordHash(recs[t[2]])
      BY <2>3, <3>2, TreeSteps
    <3>4. h[t] = TreeHashes(recs)[<<t[1], t[2]>>]
      BY <2>1, <2>2, <2>3, <3>1, <3>3, SMTT(30)
    <3> QED
      BY <3>2, <3>4 DEF ReadRight
  <2>4. CASE ~(Replaced(t, at) /\ t[2] - t[1] = 1) /\ Stored(t, at)
    <3>1. h[t] = StoredAt(tiles, t)
      BY <2>2, <2>4
    <3> QED
      BY <2>1, <2>4, <3>1, StoredRight
  <2>5. CASE ~(Replaced(t, at) /\ t[2] - t[1] = 1) /\ ~Stored(t, at)
    <3> DEFINE k == Middle(t)
    <3>1. t[2] - t[1] # 1
      BY <2>1, <2>5, OneLeaf
    <3>2. /\ k \in (t[1] + 1)..(t[2] - 1)
          /\ <<t[1], k>> \in Spans(n) /\ <<k, t[2]>> \in Spans(n)
      BY <2>1, <3>1, MiddleInside
    <3>3. h[t] = NodeHash(h[<<t[1], k>>], h[<<k, t[2]>>])
      BY <2>2, <2>5
    <3>4. ASSUME t \in Spans(Len(recs))
          PROVE  TreeHashes(recs)[t] = NodeHash(TreeHashes(recs)[<<t[1], k>>], TreeHashes(recs)[<<k, t[2]>>])
      BY <3>1, <3>4, TreeSteps
    <3> HIDE DEF k
    <3>5. <<t[1], k>> \in Inside(n, w - 1) /\ <<k, t[2]>> \in Inside(n, w - 1)
      BY ONLY n \in Nat, w \in 1..n, t \in Inside(n, w), <3>2, PartsInside
    <3>6. ReadRight(h[<<t[1], k>>], recs, size, t[1], k) /\ ReadRight(h[<<k, t[2]>>], recs, size, k, t[2])
      <4>1. P(<<t[1], k>>) /\ P(<<k, t[2]>>)
        <5> HIDE DEF P
        <5> QED
          BY <1>2, <3>5
      <4> QED
        BY <4>1
    <3>7. ASSUME h[t] # Missing \/ size <= Len(recs)
          PROVE  t[2] <= Len(recs) /\ h[t] = TreeHashes(recs)[<<t[1], t[2]>>]
      <4>1. /\ h[<<t[1], k>>] # Missing \/ size <= Len(recs)
            /\ h[<<k, t[2]>>] # Missing \/ size <= Len(recs)
        BY <3>3, <3>7, HashFacts
      <4>2. /\ h[<<t[1], k>>] = TreeHashes(recs)[<<t[1], k>>]
            /\ h[<<k, t[2]>>] = TreeHashes(recs)[<<k, t[2]>>]
            /\ t[2] <= Len(recs)
        BY <3>6, <4>1 DEF ReadRight
      <4>3. t \in Spans(Len(recs))
        BY <2>1, <4>2 DEF Spans
      <4>4. h[t] = TreeHashes(recs)[t]
        BY ONLY <3>3, <3>4, <4>2, <4>3
      <4> QED
        BY ONLY <2>1, <4>2, <4>4
    <3> QED
      BY <3>7 DEF ReadRight
  <2> QED
    BY <2>3, <2>4, <2>5
<1>3. 0..n \subseteq T
  <2> HIDE DEF T
  <2> QED
    BY <1>1, <1>2, StepByStep
<1>4. s \in Inside(n, n)
  BY DEF Inside, Spans
<1> QED
  BY <1>3, <1>4

(* A root that is the signed one was made with the leaf that the tree has, *)
(* whatever the tiles hold.                                                *)
LEMMA RangesSound ==
  ASSUME NEW tiles, NEW tree, Len(tree) \in Nat, NEW at \in Nat, NEW leaf,
         NEW n, n = Len(tree), NEW h, h = Ranges(tiles, n, at, leaf),
         NEW s \in Spans(n), Replaced(s, at), h[s] = TreeHashes(tree)[s]
  PROVE  leaf = RecordHash(tree[at + 1])
<1> DEFINE P(t) == Replaced(t, at) /\ h[t] = TreeHashes(tree)[t] => leaf = RecordHash(tree[at + 1])
           T == {w \in 0..n : \A t \in Inside(n, w) : P(t)}
<1>1. 0 \in T
  BY DEF Inside, Spans
<1>2. ASSUME NEW w \in 1..n, w - 1 \in T PROVE w \in T
  <2> SUFFICES ASSUME NEW t \in Inside(n, w), Replaced(t, at), h[t] = TreeHashes(tree)[t]
               PROVE  leaf = RecordHash(tree[at + 1])
    OBVIOUS
  <2>1. t \in Spans(n) /\ t[2] - t[1] <= w /\ t[1] \in 0..n /\ t[2] \in 0..n /\ t[1] < t[2]
    BY DEF Inside, Spans
  <2>2. h[t] = IF t[2] - t[1] = 1 THEN leaf ELSE NodeHash(h[<<t[1], Middle(t)>>], h[<<Middle(t), t[2]>>])
    <3>1. RangeStep(h, tiles, at, leaf, t)
      BY ONLY <2>1, n = Len(tree), Len(tree) \in Nat, h = Ranges(tiles, n, at, leaf), RangeSteps
    <3> QED
      BY <3>1 DEF RangeStep, Stored
  <2>3. CASE t[2] - t[1] = 1
    <3>1. at + 1 = t[2]
      BY <2>1, <2>3 DEF Replaced
    <3>2. TreeHashes(tree)[t] = RecordHash(tree[t[2]])
      BY <2>1, <2>3, TreeSteps
    <3> QED
      BY <2>2, <2>3, <3>1, <3>2
  <2>4. CASE t[2] - t[1] # 1
    <3> DEFINE k == Middle(t)
    <3>1. /\ k \in (t[1] + 1)..(t[2] - 1)
          /\ <<t[1], k>> \in Spans(n) /\ <<k, t[2]>> \in Spans(n)
      BY <2>1, <2>4, MiddleInside
    <3>2. TreeHashes(tree)[t] = NodeHash(TreeHashes(tree)[<<t[1], k>>], TreeHashes(tree)[<<k, t[2]>>])
      BY <2>1, <2>4, TreeSteps
    <3>3. h[t] = NodeHash(h[<<t[1], k>>], h[<<k, t[2]>>])
      BY <2>2, <2>4
    <3> HIDE DEF k
    <3>4. TreeHashes(tree)[t] # Missing
      BY <2>1, TreePresent
    <3>5. /\ h[<<t[1], k>>] = TreeHashes(tree)[<<t[1], k>>]
          /\ h[<<k, t[2]>>] = TreeHashes(tree)[<<k, t[2]>>]
      BY <3>2, <3>3, <3>4, HashFacts
    <3>6. <<t[1], k>> \in Inside(n, w - 1) /\ <<k, t[2]>> \in Inside(n, w - 1)
      BY ONLY n \in Nat, w \in 1..n, t \in Inside(n, w), <3>1, PartsInside
    <3>7. Replaced(<<t[1], k>>, at) \/ Replaced(<<k, t[2]>>, at)
      BY <2>1, <3>1 DEF Replaced
    <3>8. P(<<t[1], k>>) /\ P(<<k, t[2]>>)
      <4> HIDE DEF P
      <4> QED
        BY <1>2, <3>6
    <3> QED
      BY <3>5, <3>7, <3>8
  <2> QED
    BY <2>3, <2>4
<1>3. 0..n \subseteq T
  <2> HIDE DEF T
  <2> QED
    BY <1>1, <1>2, StepByStep
<1>4. s \in Inside(n, n)
  BY DEF Inside, Spans
<1>5. P(s)
  <2> HIDE DEF P
  <2> QED
    BY <1>3, <1>4
<1> QED
  BY <1>5

-----------------------------------------------------------------------------
(* What the client verifies.                                               *)

(* The range of all leaves.                                                *)
LEMMA WholeTree ==
  ASSUME NEW n \in Nat, n > 0
  PROVE  <<0, n>> \in Spans(n) /\ <<0, n>>[1] = 0 /\ <<0, n>>[2] = n
BY DEF Spans

LEMMA RootOf ==
  ASSUME NEW tree, Len(tree) \in Nat, Len(tree) > 0
  PROVE  Root(tree) = TreeHashes(tree)[<<0, Len(tree)>>] /\ Root(tree) # Missing
<1>1. Root(tree) = TreeHashes(tree)[<<0, Len(tree)>>]
  BY DEF Root, TreeHash
<1> QED
  BY <1>1, WholeTree, TreePresent

(* verify_inclusion accepts only the record that the signed tree has at    *)
(* the index, whatever the tiles hold.                                     *)
THEOREM InclusionSound ==
  ASSUME NEW tiles, NEW tree, Len(tree) \in Nat, Len(tree) > 0, NEW index \in Nat, NEW record,
         VerifyInclusion(tiles, Len(tree), Root(tree), index, record)
  PROVE  index < Len(tree) /\ tree[index + 1] = record
<1>1. PICK n, h, leaf : /\ n = Len(tree) /\ leaf = RecordHash(record)
                        /\ h = Ranges(tiles, n, index, leaf)
  OBVIOUS
<1>2. index < n /\ h[<<0, n>>] = TreeHashes(tree)[<<0, n>>]
  BY <1>1, RootOf DEF VerifyInclusion, Range
<1>3. <<0, n>> \in Spans(n) /\ Replaced(<<0, n>>, index)
  BY <1>1, <1>2, WholeTree DEF Replaced
<1>4. leaf = RecordHash(tree[index + 1])
  BY ONLY <1>1, <1>2, <1>3, Len(tree) \in Nat, index \in Nat, RangesSound
<1> QED
  BY <1>1, <1>2, <1>4, HashFacts

(* A tree of the first records of a log.                                   *)
Begins(tree, recs) ==
  Len(tree) <= Len(recs) /\ \A i \in 1..Len(tree) : tree[i] = recs[i]

LEMMA SameRoot ==
  ASSUME NEW tree, NEW recs, Len(tree) \in Nat, Len(recs) \in Nat, Len(tree) > 0, Len(tree) <= Len(recs)
  PROVE  TreeHashes(recs)[<<0, Len(tree)>>] = Root(tree) <=> Begins(tree, recs)
<1>1. PICK n, s : n = Len(tree) /\ s = <<0, n>>
  OBVIOUS
<1>2. s \in Spans(Len(tree)) \cap Spans(Len(recs)) /\ s[1] = 0 /\ s[2] = n
  BY <1>1 DEF Spans
<1>3. TreeHashes(recs)[s] = TreeHashes(tree)[s] <=> \A i \in (s[1] + 1)..s[2] : recs[i] = tree[i]
  BY ONLY <1>2, Len(tree) \in Nat, Len(recs) \in Nat, TreesEqual
<1>4. (s[1] + 1)..s[2] = 1..Len(tree)
  BY <1>1, <1>2
<1>5. Root(tree) = TreeHashes(tree)[s]
  BY <1>1, RootOf
<1> QED
  BY ONLY <1>1, <1>3, <1>4, <1>5, Len(tree) <= Len(recs) DEF Begins

(* And it accepts that record when the tiles are those of a log that has   *)
(* grown at least as far as the tree.                                      *)
THEOREM InclusionComplete ==
  ASSUME NEW recs, Len(recs) \in Nat, NEW tree, Len(tree) \in Nat, Begins(tree, recs),
         NEW index \in Nat, index < Len(tree)
  PROVE  VerifyInclusion(TilesOf(recs, Len(tree)), Len(tree), Root(tree), index, tree[index + 1])
<1>1. PICK n, tiles, h, leaf, s :
        /\ n = Len(tree) /\ tiles = TilesOf(recs, n) /\ leaf = RecordHash(tree[index + 1])
        /\ h = Ranges(tiles, n, index, leaf) /\ s = <<0, n>>
  OBVIOUS
<1>2. n \in Nat /\ n > 0 /\ n <= Len(recs) /\ s \in Spans(n) /\ s[1] = 0 /\ s[2] = n
  BY <1>1, WholeTree DEF Begins
<1>3. index \in Int /\ index < Len(recs) /\ leaf = RecordHash(recs[index + 1])
  <2>1. index + 1 \in 1..Len(tree)
    OBVIOUS
  <2> QED
    BY <1>1, <1>2, <2>1 DEF Begins
<1>4. ReadRight(h[s], recs, n, s[1], s[2])
  <2>1. n <= n
    BY <1>2
  <2> QED
    BY ONLY <1>1, <1>2, <1>3, <2>1, Len(recs) \in Nat, RangesRight
<1>5. h[s] = TreeHashes(recs)[<<0, n>>]
  BY <1>2, <1>4 DEF ReadRight
<1>6. h[s] = Root(tree)
  BY <1>1, <1>2, <1>5, SameRoot
<1> QED
  BY <1>1, <1>6 DEF VerifyInclusion, Range

(* The root of the first n leaves, read from one log's tiles of a size.    *)
LEMMA RootRead ==
  ASSUME NEW recs, Len(recs) \in Nat, NEW size \in Nat, NEW tree, Len(tree) \in Nat, Len(tree) > 0,
         Len(tree) <= size, NEW tiles, tiles = TilesOf(recs, size)
  PROVE  /\ ReadRoot(tiles, Len(tree)) = Root(tree) => Begins(tree, recs)
         /\ Begins(tree, recs) /\ size <= Len(recs) => ReadRoot(tiles, Len(tree)) = Root(tree)
<1>1. PICK n, h, s : /\ n = Len(tree) /\ h = Ranges(tiles, n, -1, EmptyHash) /\ s = <<0, n>>
  OBVIOUS
<1>2. n \in Nat /\ n > 0 /\ n <= size /\ s \in Spans(n) /\ s[1] = 0 /\ s[2] = n
  BY <1>1, WholeTree
<1>3. ReadRight(h[s], recs, size, s[1], s[2])
  <2>1. -1 \in Int /\ -1 < 0
    OBVIOUS
  <2> QED
    BY ONLY <1>1, <1>2, <2>1, size \in Nat, Len(recs) \in Nat, tiles = TilesOf(recs, size), RangesRight
<1>4. ReadRoot(tiles, n) = h[s]
  BY <1>1, <1>2 DEF ReadRoot, Range
<1>5. Root(tree) # Missing
  BY RootOf
<1>6. ASSUME h[s] = Root(tree) PROVE Begins(tree, recs)
  <2>1. n <= Len(recs) /\ h[s] = TreeHashes(recs)[<<0, n>>]
    BY <1>2, <1>3, <1>5, <1>6 DEF ReadRight
  <2> QED
    BY <1>1, <1>2, <1>6, <2>1, SameRoot
<1>7. ASSUME Begins(tree, recs), size <= Len(recs) PROVE h[s] = Root(tree)
  <2>1. n <= Len(recs) /\ h[s] = TreeHashes(recs)[<<0, n>>]
    BY <1>2, <1>3, <1>7 DEF ReadRight
  <2> QED
    BY <1>1, <1>2, <1>7, <2>1, SameRoot
<1> QED
  BY <1>1, <1>4, <1>6, <1>7

-----------------------------------------------------------------------------
(* Tiles that belong together.                                             *)

(* A hash of two tells them.                                               *)
LEMMA NodesAgree ==
  ASSUME NEW l, NEW r, NEW m, NEW q, NEW h, h = NodeHash(l, r), h = NodeHash(m, q), h # Missing
  PROVE  l = m /\ r = q /\ l # Missing /\ r # Missing
<1>1. NodeHash(l, r) = NodeHash(m, q) /\ NodeHash(l, r) # Missing
  OBVIOUS
<1>4. \A a, b, c, d : NodeHash(a, b) = NodeHash(c, d) /\ NodeHash(a, b) # Missing => a = c /\ b = d
  BY ONLY HashFacts
<1>2. l = m /\ r = q
  BY ONLY <1>1, <1>4
<1>3. l # Missing /\ r # Missing
  BY ONLY <1>1, HashFacts, Zenon
<1> QED
  BY <1>2, <1>3

(* Rows with the same last hash begin with the same ones.                  *)
LEMMA FoldInjective ==
  ASSUME NEW r \in Nat, NEW a, NEW c, NEW f, NEW g, Rows(f, a, r), Rows(g, c, r),
         Row(a, Pow2[r]), Row(c, Pow2[r]), f[r][1] = g[r][1], f[r][1] # Missing
  PROVE  a = c
<1> DEFINE P(d) == \A i \in 1..Pow2[d] : f[r - d][i] = g[r - d][i] /\ f[r - d][i] # Missing
           T == {d \in 0..r : P(d)}
<1>1. 0 \in T
  <2>1. 1..Pow2[0] = {1} /\ r - 0 = r
    BY Pow2Steps
  <2> QED
    BY <2>1
<1>2. ASSUME NEW d \in 1..r, d - 1 \in T PROVE d \in T
  <2> SUFFICES ASSUME NEW j \in 1..Pow2[d]
               PROVE  f[r - d][j] = g[r - d][j] /\ f[r - d][j] # Missing
    OBVIOUS
  <2>1. PICK h, k : h = r - (d - 1) /\ k = Pow2[d - 1]
    OBVIOUS
  <2>2. h \in 1..r /\ r - h = d - 1 /\ h - 1 = r - d /\ r - (h - 1) = d /\ d - 1 \in Nat /\ (d - 1) + 1 = d
    BY <2>1
  <2>3. Pow2[d] = 2 * k /\ k \in Nat
    BY <2>1, <2>2, Pow2Steps
  <2>4. PICK i \in 1..k : j = 2 * i - 1 \/ j = 2 * i
    <3>1. j \in 1..(2 * k)
      BY <2>3
    <3>2. CASE j % 2 = 0
      <4>1. j = 2 * (j \div 2) /\ j \div 2 \in 1..k
        BY <2>3, <3>1, <3>2
      <4> QED
        BY <4>1
    <3>3. CASE j % 2 # 0
      <4>1. j = 2 * ((j \div 2) + 1) - 1 /\ (j \div 2) + 1 \in 1..k
        BY <2>3, <3>1, <3>3
      <4> QED
        BY <4>1
    <3> QED
      BY <3>2, <3>3
  <2>5. i \in 1..Pow2[r - h]
    BY <2>1, <2>2, <2>4
  <2>6. f[h][i] = NodeHash(f[h - 1][2 * i - 1], f[h - 1][2 * i])
    BY ONLY r \in Nat, Rows(f, a, r), Row(a, Pow2[r]), <2>2, <2>5, RowSteps
  <2>7. g[h][i] = NodeHash(g[h - 1][2 * i - 1], g[h - 1][2 * i])
    BY ONLY r \in Nat, Rows(g, c, r), Row(c, Pow2[r]), <2>2, <2>5, RowSteps
  <2>8. f[h][i] = g[h][i] /\ f[h][i] # Missing
    <3>1. P(d - 1)
      BY <1>2
    <3> QED
      BY <2>1, <2>2, <2>5, <3>1
  <2>9. /\ f[h - 1][2 * i - 1] = g[h - 1][2 * i - 1] /\ f[h - 1][2 * i] = g[h - 1][2 * i]
        /\ f[h - 1][2 * i - 1] # Missing /\ f[h - 1][2 * i] # Missing
    <3>1. PICK x, y, u, v, w : /\ x = f[h - 1][2 * i - 1] /\ y = f[h - 1][2 * i]
                               /\ u = g[h - 1][2 * i - 1] /\ v = g[h - 1][2 * i] /\ w = f[h][i]
      OBVIOUS
    <3>3. w = NodeHash(x, y) /\ w = NodeHash(u, v) /\ w # Missing
      BY ONLY <2>6, <2>7, <2>8, <3>1
    <3>2. x = u /\ y = v /\ x # Missing /\ y # Missing
      BY ONLY <3>3, NodesAgree, Zenon
    <3> QED
      BY ONLY <3>1, <3>2
  <2> QED
    BY ONLY <2>2, <2>4, <2>9
<1>3. 0..r \subseteq T
  <2> HIDE DEF T
  <2> QED
    BY <1>1, <1>2, StepByStep
<1>4. f[0] = a /\ g[0] = c /\ r - r = 0
  BY DEF Rows
<1>5. \A i \in 1..Pow2[r] : a[i] = c[i]
  BY <1>3, <1>4
<1> QED
  BY <1>5 DEF Row

LEMMA Scaled ==
  ASSUME NEW i \in Nat, NEW f \in Nat, NEW z \in Nat, NEW v \in Nat
  PROVE  (i * z) * v = i * (z * v) /\ (f + z) * v = f * v + z * v /\ z * v \in Nat /\ i * (z * v) \in Nat
<1>1. z * v \in Nat /\ (f + z) * v = f * v + z * v
  OBVIOUS
<1>2. i * (z * v) \in Nat
  BY <1>1
<1>3. (i * z) * v = i * (z * v)
  OBVIOUS
<1> QED
  BY <1>1, <1>2, <1>3

(* The quotient of a number between two multiples.                         *)
LEMMA QuotientIs ==
  ASSUME NEW t \in Nat, NEW w \in Nat, w > 0, NEW x \in 0..(w - 1), NEW y, y = t * w + x
  PROVE  y \div w = t /\ y \in Nat
<1>1. t * w \in Nat /\ y \in Nat
  OBVIOUS
<1>2. PICK p : p = y \div w
  OBVIOUS
<1>3. p \in Nat /\ y = p * w + (y % w) /\ y % w \in 0..(w - 1) /\ p * w \in Nat
  BY <1>1, <1>2, Division
<1>4. t <= p
  BY <1>1, <1>2, QuotientAtLeast
<1>5. p <= t
  <2> SUFFICES ASSUME ~(p <= t) PROVE FALSE
    OBVIOUS
  <2>1. t + 1 \in Nat /\ t + 1 <= p
    BY <1>3
  <2>2. (t + 1) * w <= p * w
    BY <1>3, <2>1, TimesLess
  <2>3. (t + 1) * w = t * w + w
    OBVIOUS
  <2> QED
    BY <1>1, <1>3, <2>2, <2>3
<1> QED
  BY <1>1, <1>2, <1>3, <1>4, <1>5

(* The leaves below a hash of a level.                                     *)
Size(l) == Pow2[l * TILE_HEIGHT]

LEMMA SizeFacts ==
  /\ TILE_WIDTH \in Nat /\ TILE_WIDTH > 1 /\ Size(0) = 1
  /\ \A l \in Nat : Size(l) \in Nat /\ Size(l) > 0 /\ Size(l) > l * TILE_HEIGHT /\ Size(l + 1) = TILE_WIDTH * Size(l)
<1>1. TILE_HEIGHT \in Nat /\ TILE_HEIGHT > 0 /\ 0 * TILE_HEIGHT = 0
  BY TileAssumption
<1>2. TILE_WIDTH \in Nat /\ TILE_WIDTH > 1
  BY <1>1, Pow2Grows DEF TILE_WIDTH
<1>3. Size(0) = 1
  BY <1>1, Pow2Steps DEF Size
<1>4. ASSUME NEW l \in Nat
      PROVE  Size(l) \in Nat /\ Size(l) > 0 /\ Size(l) > l * TILE_HEIGHT /\ Size(l + 1) = TILE_WIDTH * Size(l)
  <2>1. l * TILE_HEIGHT \in Nat /\ (l + 1) * TILE_HEIGHT = TILE_HEIGHT + l * TILE_HEIGHT
    BY <1>1
  <2>2. Size(l) \in Nat /\ Size(l) > 0 /\ Size(l) > l * TILE_HEIGHT
    BY <2>1, Pow2Grows DEF Size
  <2>3. Pow2[TILE_HEIGHT + l * TILE_HEIGHT] = Pow2[TILE_HEIGHT] * Pow2[l * TILE_HEIGHT]
    BY <1>1, <2>1, Pow2Sum
  <2> QED
    BY <2>1, <2>2, <2>3 DEF Size, TILE_WIDTH
<1> QED
  BY <1>2, <1>3, <1>4

(* Hash j of a level is in the tile j \div TILE_WIDTH.                     *)
TileAt(j) == j \div TILE_WIDTH
PlaceAt(j) == (j - TileAt(j) * TILE_WIDTH) + 1
Entry(tiles, l, j) == tiles[<<l, TileAt(j)>>][PlaceAt(j)]
Reaches(l, j, size) == (j + 1) * Size(l) <= size

Shaped(tiles, size) ==
  /\ tiles = [t \in TileIds(size) |-> tiles[t]]
  /\ \A t \in TileIds(size) : Row(tiles[t], TileWidth(size, t[1], t[2]))

LEMMA Places ==
  ASSUME NEW t \in Nat, NEW i \in 1..TILE_WIDTH, NEW j, j = t * TILE_WIDTH + (i - 1)
  PROVE  j \in Nat /\ TileAt(j) = t /\ PlaceAt(j) = i
<1>1. TILE_WIDTH \in Nat /\ TILE_WIDTH > 0 /\ i - 1 \in 0..(TILE_WIDTH - 1)
  BY SizeFacts
<1>2. j \div TILE_WIDTH = t /\ j \in Nat
  BY <1>1, QuotientIs
<1>3. t * TILE_WIDTH \in Nat
  BY <1>1
<1> QED
  BY <1>1, <1>2, <1>3 DEF TileAt, PlaceAt

(* It is in the tree's tiles when the tree reaches that far, and all that  *)
(* the tiles hold is of this kind.                                         *)
LEMMA TileIn ==
  ASSUME NEW size \in Nat, NEW l \in Nat, NEW j \in Nat, Reaches(l, j, size)
  PROVE  /\ <<l, TileAt(j)>> \in TileIds(size) /\ TileAt(j) \in Nat
         /\ PlaceAt(j) \in 1..TileWidth(size, l, TileAt(j))
<1>1. PICK W, S, t, q : W = TILE_WIDTH /\ S = Size(l) /\ t = TileAt(j) /\ q = size \div S
  OBVIOUS
<1>2. W \in Nat /\ W > 0 /\ S \in Nat /\ S > 0 /\ S > l * TILE_HEIGHT
  BY <1>1, SizeFacts
<1>3. /\ t \in Nat /\ j % W \in 0..(W - 1) /\ j = t * W + (j % W) /\ t * W \in Nat /\ t * W <= j
  BY <1>1, <1>2, Division DEF TileAt
<1>4. j + 1 <= q /\ q \in Nat
  <2>1. (j + 1) * S <= size /\ j + 1 \in Nat
    BY <1>1 DEF Reaches
  <2> QED
    BY <1>1, <1>2, <2>1, QuotientAtLeast, Division
<1>5. PlaceAt(j) = (j - t * W) + 1
  BY <1>1 DEF PlaceAt
<1>6. TileWidth(size, l, t) = IF q - t * W < W THEN q - t * W ELSE W
  BY <1>1 DEF TileWidth, Least, Size
<1>7. PlaceAt(j) \in 1..TileWidth(size, l, t) /\ TileWidth(size, l, t) > 0
  BY <1>2, <1>3, <1>4, <1>5, <1>6
<1>8. (j + 1) * S \in Nat /\ 1 * S <= (j + 1) * S /\ 1 * (j + 1) <= S * (j + 1) /\ S * (j + 1) = (j + 1) * S
  <2>1. j + 1 \in Nat /\ 1 <= j + 1 /\ 1 <= S
    BY <1>2
  <2> QED
    BY <1>2, <2>1, TimesLess
<1>9. S <= size /\ j + 1 <= size
  BY <1>1, <1>2, <1>8 DEF Reaches
<1>10. t \in 0..size
  <2>1. 1 * t <= W * t /\ W * t = t * W
    BY <1>2, <1>3, TimesLess
  <2> QED
    BY <1>3, <1>9, <2>1
<1>11. l \in 0..(size \div TILE_HEIGHT)
  <2>1. TILE_HEIGHT \in Nat /\ TILE_HEIGHT > 0 /\ l * TILE_HEIGHT <= size
    BY <1>2, <1>9, TileAssumption
  <2>2. l <= size \div TILE_HEIGHT /\ size \div TILE_HEIGHT \in Nat
    BY <2>1, QuotientAtLeast, Division
  <2> QED
    BY <2>2
<1>12. <<l, t>> \in TileIds(size)
  BY <1>7, <1>10, <1>11 DEF TileIds
<1> QED
  BY <1>1, <1>3, <1>7, <1>12

LEMMA TileHolds ==
  ASSUME NEW size \in Nat, NEW t \in TileIds(size), NEW i \in 1..TileWidth(size, t[1], t[2]),
         NEW j, j = t[2] * TILE_WIDTH + (i - 1)
  PROVE  /\ t[1] \in Nat /\ t[2] \in Nat /\ t = <<t[1], t[2]>> /\ j \in Nat /\ i \in 1..TILE_WIDTH
         /\ TileAt(j) = t[2] /\ PlaceAt(j) = i /\ Reaches(t[1], j, size)
<1>1. PICK W, S, q, k : W = TILE_WIDTH /\ S = Size(t[1]) /\ q = size \div S /\ k = t[2]
  OBVIOUS
<1>2. t[1] \in Nat /\ k \in Nat /\ t = <<t[1], t[2]>>
  <2>1. size \div TILE_HEIGHT \in Nat
    BY TileAssumption, Division
  <2> QED
    BY <1>1, <2>1 DEF TileIds
<1>3. W \in Nat /\ W > 0 /\ S \in Nat /\ S > 0 /\ k * W \in Nat
  BY <1>1, <1>2, SizeFacts
<1>4. q \in Nat /\ q * S <= size /\ q * S \in Nat
  BY <1>1, <1>3, Division
<1>5. TileWidth(size, t[1], t[2]) = IF q - k * W < W THEN q - k * W ELSE W
  BY <1>1 DEF TileWidth, Least, Size
<1>6. i \in 1..W /\ k * W + i <= q
  BY <1>3, <1>4, <1>5
<1>7. j \in Nat /\ TileAt(j) = k /\ PlaceAt(j) = i
  BY <1>1, <1>2, <1>6, Places
<1>8. (j + 1) * S <= q * S /\ (j + 1) * S \in Nat
  <2>1. j + 1 = k * W + i /\ j + 1 \in Nat /\ j + 1 <= q
    BY <1>1, <1>3, <1>6, <1>7
  <2> QED
    BY <1>3, <1>4, <2>1, TimesLess
<1> QED
  BY <1>1, <1>2, <1>4, <1>6, <1>7, <1>8 DEF Reaches

(* A hash read from tiles is the tree's own.                               *)
Right(tiles, tree, l, j) == Entry(tiles, l, j) = TreeHashes(tree)[<<j * Size(l), (j + 1) * Size(l)>>]

(* Hashes of a row fold into the tree's one exactly if they are its own.   *)
LEMMA FoldExact ==
  ASSUME NEW recs, Len(recs) \in Nat, NEW r \in Nat, NEW e \in Nat, NEW b \in Nat,
         NEW z, z = Pow2[e], b + Pow2[r] * z <= Len(recs), NEW a, Row(a, Pow2[r])
  PROVE  Folded(a, r)[1] = TreeHashes(recs)[<<b, b + Pow2[r] * z>>]
           <=> \A i \in 1..Pow2[r] : a[i] = TreeHashes(recs)[<<b + (i - 1) * z, b + i * z>>]
<1>1. PICK c : Neighbours(c, recs, b, Pow2[r], z)
  BY DEF Neighbours
<1>2. PICK f : Rows(f, a, r) /\ Folded(a, r) = f[r]
  BY RowsExist
<1>3. PICK g : Rows(g, c, r) /\ Folded(c, r) = g[r]
  BY RowsExist
<1>4. g[r][1] = TreeHashes(recs)[<<b, b + Pow2[r] * z>>]
  BY ONLY Len(recs) \in Nat, r \in Nat, e \in Nat, b \in Nat, z = Pow2[e],
          b + Pow2[r] * z <= Len(recs), <1>1, <1>3, FoldTree
<1>5. Row(c, Pow2[r]) /\ \A i \in 1..Pow2[r] : c[i] = TreeHashes(recs)[<<b + (i - 1) * z, b + i * z>>]
  BY <1>1 DEF Row, Neighbours
<1>6. g[r][1] # Missing
  <2>1. PICK u : u = Pow2[r] * z
    OBVIOUS
  <2>2. Pow2[r] \in Nat /\ Pow2[r] > 0 /\ z \in Nat /\ z > 0
    BY Pow2Grows
  <2>3. 1 * z <= Pow2[r] * z /\ Pow2[r] * z \in Nat
    BY <2>2, TimesLess, SMTT(30)
  <2>4. u \in Nat /\ u > 0 /\ b + u <= Len(recs)
    BY <2>1, <2>2, <2>3
  <2>5. <<b, b + u>> \in Spans(Len(recs))
    BY <2>4 DEF Spans
  <2> QED
    BY <1>4, <2>1, <2>5, TreePresent
<1>7. ASSUME f[r][1] = g[r][1] PROVE a = c
  BY ONLY r \in Nat, Row(a, Pow2[r]), <1>2, <1>3, <1>5, <1>6, <1>7, FoldInjective
<1>8. ASSUME \A i \in 1..Pow2[r] : a[i] = TreeHashes(recs)[<<b + (i - 1) * z, b + i * z>>] PROVE a = c
  BY <1>5, <1>8 DEF Row
<1>9. a = c => Folded(a, r)[1] = TreeHashes(recs)[<<b, b + Pow2[r] * z>>]
  BY <1>3, <1>4
<1> QED
  BY <1>2, <1>4, <1>5, <1>7, <1>8, <1>9

(* Where levels agree, a hash above is right exactly if all those of the   *)
(* tile below are.                                                         *)
LEMMA RightLevels ==
  ASSUME NEW tree, Len(tree) \in Nat, NEW size, size = Len(tree), NEW tiles, Shaped(tiles, size),
         LevelsAgree(tiles), NEW l \in Nat, NEW j \in Nat, Reaches(l + 1, j, size)
  PROVE  /\ \A i \in 1..TILE_WIDTH : j * TILE_WIDTH + (i - 1) \in Nat
                                       /\ Reaches(l, j * TILE_WIDTH + (i - 1), size)
         /\ Right(tiles, tree, l + 1, j)
              <=> \A i \in 1..TILE_WIDTH : Right(tiles, tree, l, j * TILE_WIDTH + (i - 1))
<1>1. PICK W, S, U, a : W = TILE_WIDTH /\ S = Size(l) /\ U = Size(l + 1) /\ a = tiles[<<l, j>>]
  OBVIOUS
<1>2. W \in Nat /\ W > 0 /\ S \in Nat /\ S > 0 /\ U \in Nat /\ U = W * S /\ l + 1 \in Nat /\ size \in Nat
  BY <1>1, SizeFacts
<1>3. (j + 1) * U <= size /\ j * U \in Nat /\ (j + 1) * U = j * U + W * S
  <2>1. (j + 1) * U <= size
    BY <1>1 DEF Reaches
  <2> QED
    BY <1>2, <2>1
<1>4. j * U = (j * W) * S /\ j * W \in Nat
  BY <1>2
<1>5. ASSUME NEW i \in 1..W
      PROVE  /\ j * W + (i - 1) \in Nat /\ Reaches(l, j * W + (i - 1), size)
             /\ (j * W + (i - 1)) * S = j * U + (i - 1) * S /\ ((j * W + (i - 1)) + 1) * S = j * U + i * S
             /\ TileAt(j * W + (i - 1)) = j /\ PlaceAt(j * W + (i - 1)) = i
  <2>1. j * W + (i - 1) \in Nat /\ i \in Nat /\ i - 1 \in Nat
    BY <1>2, <1>4
  <2>2. (j * W + (i - 1)) * S = (j * W) * S + (i - 1) * S /\ (j * W + i) * S = (j * W) * S + i * S
        /\ (j * W + (i - 1)) + 1 = j * W + i
    BY <1>2, <1>4, <2>1
  <2>3. i * S <= W * S /\ i * S \in Nat /\ W * S \in Nat
    BY <1>2, <2>1, TimesLess
  <2>4. ((j * W + (i - 1)) + 1) * S <= size
    BY <1>2, <1>3, <1>4, <2>2, <2>3
  <2>5. Reaches(l, j * W + (i - 1), size)
    BY <1>1, <2>4 DEF Reaches
  <2> QED
    BY <1>1, <1>4, <2>1, <2>2, <2>5, Places
<1>6. <<l, j>> \in TileIds(size) /\ TileWidth(size, l, j) = W
  <2>1. 1 \in 1..W /\ W \in 1..W
    BY <1>2
  <2>2. <<l, j>> \in TileIds(size)
    BY <1>2, <1>5, <2>1, TileIn
  <2>3. PICK m : m = j * W + (W - 1)
    OBVIOUS
  <2>4. m \in Nat /\ Reaches(l, m, size) /\ TileAt(m) = j /\ PlaceAt(m) = W
    BY <1>5, <2>1, <2>3
  <2>5. W \in 1..TileWidth(size, l, j)
    BY <1>2, <2>4, TileIn
  <2>6. TileWidth(size, l, j) = IF (size \div S) - j * W < W THEN (size \div S) - j * W ELSE W
    BY <1>1 DEF TileWidth, Least, Size
  <2>7. size \div S \in Nat
    BY <1>2, Division
  <2> QED
    BY <1>2, <1>4, <2>2, <2>5, <2>6, <2>7
<1>7. Row(a, W)
  BY <1>1, <1>6 DEF Shaped
<1>8. ASSUME NEW i \in 1..W
      PROVE  Right(tiles, tree, l, j * W + (i - 1)) <=> a[i] = TreeHashes(tree)[<<j * U + (i - 1) * S, j * U + i * S>>]
  <2>1. Entry(tiles, l, j * W + (i - 1)) = a[i]
    BY <1>1, <1>5 DEF Entry
  <2> QED
    BY <1>1, <1>5, <2>1 DEF Right
<1>9. Entry(tiles, l + 1, j) = Folded(a, TILE_HEIGHT)[1]
  <2>1. PICK t, i : t = TileAt(j) /\ i = PlaceAt(j)
    OBVIOUS
  <2>2. <<l + 1, t>> \in TileIds(size) /\ t \in Nat /\ i \in 1..TileWidth(size, l + 1, t)
    BY <1>2, <2>1, TileIn
  <2>3. Row(tiles[<<l + 1, t>>], TileWidth(size, l + 1, t)) /\ DOMAIN tiles = TileIds(size)
    BY <2>2 DEF Shaped
  <2>4. Len(tiles[<<l + 1, t>>]) = TileWidth(size, l + 1, t)
    <3>1. TileWidth(size, l + 1, t) \in Nat
      <4>3. U > 0
        BY <1>1, <1>2, SizeFacts
      <4>4. size \div U \in Nat
        BY <1>2, <4>3, Division
      <4>1. size \div U \in Nat /\ t * W \in Nat
        BY <1>2, <2>2, <4>4
      <4>2. TileWidth(size, l + 1, t) \in Int
        BY <1>1, <1>2, <4>1 DEF TileWidth, Least, Size
      <4> QED
        BY <2>2, <4>2
    <3> QED
      BY <2>3, <3>1 DEF Row
  <2>5. tiles[<<l + 1, t>>][i] = Folded(tiles[<<(l + 1) - 1, t * TILE_WIDTH + (i - 1)>>], TILE_HEIGHT)[1]
    <3>1. <<l + 1, t>>[1] = l + 1 /\ <<l + 1, t>>[2] = t /\ l + 1 > 0
      OBVIOUS
    <3> QED
      BY <2>2, <2>3, <2>4, <3>1 DEF LevelsAgree
  <2>6. (l + 1) - 1 = l /\ t * TILE_WIDTH + (i - 1) = j
    <3>1. t * W \in Nat
      BY <1>2, <2>2
    <3> QED
      BY <1>1, <1>2, <2>1, <3>1, SMTT(30) DEF PlaceAt
  <2> QED
    BY <1>1, <2>1, <2>5, <2>6 DEF Entry
<1>10. Right(tiles, tree, l + 1, j) <=> Folded(a, TILE_HEIGHT)[1] = TreeHashes(tree)[<<j * U, j * U + W * S>>]
  BY <1>1, <1>3, <1>9 DEF Right
<1>11. Folded(a, TILE_HEIGHT)[1] = TreeHashes(tree)[<<j * U, j * U + W * S>>]
         <=> \A i \in 1..W : a[i] = TreeHashes(tree)[<<j * U + (i - 1) * S, j * U + i * S>>]
  <2>1. PICK b, e, r : b = j * U /\ e = l * TILE_HEIGHT /\ r = TILE_HEIGHT
    OBVIOUS
  <2>2. b \in Nat /\ e \in Nat /\ r \in Nat /\ S = Pow2[e] /\ W = Pow2[r] /\ b + Pow2[r] * S <= Len(tree) /\ Row(a, Pow2[r])
    BY <1>1, <1>3, <1>7, <2>1, TileAssumption DEF Size, TILE_WIDTH
  <2>3. Folded(a, r)[1] = TreeHashes(tree)[<<b, b + Pow2[r] * S>>]
           <=> \A i \in 1..Pow2[r] : a[i] = TreeHashes(tree)[<<b + (i - 1) * S, b + i * S>>]
    BY ONLY Len(tree) \in Nat, <2>2, FoldExact
  <2> QED
    BY ONLY <2>1, <2>2, <2>3, ZenonT(60)
<1> QED
  BY <1>1, <1>5, <1>8, <1>10, <1>11

(* So a right hash has right leaves below it.                              *)
LEMMA RightLeaves ==
  ASSUME NEW tree, Len(tree) \in Nat, NEW size, size = Len(tree), NEW tiles, Shaped(tiles, size),
         LevelsAgree(tiles), NEW l \in Nat, NEW j \in Nat, Reaches(l, j, size), Right(tiles, tree, l, j),
         NEW x \in (j * Size(l))..((j + 1) * Size(l) - 1)
  PROVE  x \in Nat /\ Right(tiles, tree, 0, x)
<1> DEFINE P(m) == \A k \in Nat : Reaches(m, k, size) /\ Right(tiles, tree, m, k) =>
                     \A y \in (k * Size(m))..((k + 1) * Size(m) - 1) : y \in Nat /\ Right(tiles, tree, 0, y)
           T == {m \in Nat : P(m)}
<1>1. 0 \in T
  <2> SUFFICES ASSUME NEW k \in Nat, Right(tiles, tree, 0, k), NEW y \in (k * Size(0))..((k + 1) * Size(0) - 1)
               PROVE  y \in Nat /\ Right(tiles, tree, 0, y)
    OBVIOUS
  <2>1. y = k
    <3>1. Size(0) = 1
      BY SizeFacts
    <3> QED
      BY <3>1
  <2> QED
    BY <2>1
<1>2. ASSUME NEW m \in Nat, m \in T PROVE m + 1 \in T
  <2> SUFFICES ASSUME NEW k \in Nat, Reaches(m + 1, k, size), Right(tiles, tree, m + 1, k),
                      NEW y \in (k * Size(m + 1))..((k + 1) * Size(m + 1) - 1)
               PROVE  y \in Nat /\ Right(tiles, tree, 0, y)
    OBVIOUS
  <2>1. PICK W, S : W = TILE_WIDTH /\ S = Size(m)
    OBVIOUS
  <2>2. W \in Nat /\ W > 0 /\ S \in Nat /\ S > 0 /\ Size(m + 1) = W * S
    BY <2>1, SizeFacts
  <2>3. k * Size(m + 1) = (k * W) * S /\ (k + 1) * Size(m + 1) = (k * W + W) * S /\ k * W \in Nat /\ (k * W) * S \in Nat
    BY <2>2
  <2>4. y \in Nat /\ (k * W) * S <= y /\ y < (k * W + W) * S
    BY <2>2, <2>3
  <2>5. PICK q : q = y \div S
    OBVIOUS
  <2>6. q \in Nat /\ y = q * S + (y % S) /\ y % S \in 0..(S - 1) /\ q * S \in Nat
    BY <2>2, <2>4, <2>5, Division
  <2>7. k * W <= q
    BY <2>2, <2>3, <2>4, <2>5, QuotientAtLeast
  <2>8. q < k * W + W
    <3> SUFFICES ASSUME ~(q < k * W + W) PROVE FALSE
      OBVIOUS
    <3>1. k * W + W \in Nat /\ k * W + W <= q
      BY <2>2, <2>3, <2>6
    <3>2. (k * W + W) * S <= q * S /\ (k * W + W) * S \in Nat
      BY <2>2, <2>6, <3>1, TimesLess
    <3> QED
      BY <2>4, <2>6, <3>2
  <2>9. PICK i : i = q - k * W + 1
    OBVIOUS
  <2>10. i \in 1..TILE_WIDTH /\ k * TILE_WIDTH + (i - 1) = q
    BY <2>1, <2>2, <2>3, <2>6, <2>7, <2>8, <2>9
  <2>11. Reaches(m, q, size) /\ Right(tiles, tree, m, q)
    BY <2>10, RightLevels
  <2>12. y \in (q * S)..((q + 1) * S - 1)
    <3>1. (q + 1) * S = q * S + S
      BY <2>2, <2>6
    <3> QED
      BY <2>2, <2>4, <2>6, <3>1
  <2> QED
    BY <1>2, <2>1, <2>6, <2>11, <2>12
<1>3. Nat \subseteq T
  <2> HIDE DEF T
  <2> QED
    BY <1>1, <1>2, AllNumbers
<1>4. P(l)
  BY <1>3
<1> QED
  BY <1>4

(* And right leaves make all hashes right.                                 *)
LEMMA RightUp ==
  ASSUME NEW tree, Len(tree) \in Nat, NEW size, size = Len(tree), NEW tiles, Shaped(tiles, size),
         LevelsAgree(tiles), \A x \in Nat : x < size => Right(tiles, tree, 0, x),
         NEW l \in Nat, NEW j \in Nat, Reaches(l, j, size)
  PROVE  Right(tiles, tree, l, j)
<1> DEFINE P(m) == \A k \in Nat : Reaches(m, k, size) => Right(tiles, tree, m, k)
           T == {m \in Nat : P(m)}
<1>1. 0 \in T
  <2> SUFFICES ASSUME NEW k \in Nat, Reaches(0, k, size) PROVE Right(tiles, tree, 0, k)
    OBVIOUS
  <2>1. Size(0) = 1 /\ (k + 1) * 1 = k + 1
    BY SizeFacts
  <2>2. k < size
    BY <2>1 DEF Reaches
  <2> QED
    BY <2>2
<1>2. ASSUME NEW m \in Nat, m \in T PROVE m + 1 \in T
  <2> SUFFICES ASSUME NEW k \in Nat, Reaches(m + 1, k, size) PROVE Right(tiles, tree, m + 1, k)
    OBVIOUS
  <2>1. /\ \A i \in 1..TILE_WIDTH : k * TILE_WIDTH + (i - 1) \in Nat /\ Reaches(m, k * TILE_WIDTH + (i - 1), size)
        /\ Right(tiles, tree, m + 1, k) <=> \A i \in 1..TILE_WIDTH : Right(tiles, tree, m, k * TILE_WIDTH + (i - 1))
    BY ONLY Len(tree) \in Nat, size = Len(tree), Shaped(tiles, size), LevelsAgree(tiles),
            m \in Nat, k \in Nat, Reaches(m + 1, k, size), RightLevels
  <2>2. P(m)
    BY <1>2
  <2> QED
    BY ONLY <2>1, <2>2
<1>3. Nat \subseteq T
  <2> HIDE DEF T
  <2> QED
    BY <1>1, <1>2, AllNumbers
<1>4. P(l)
  BY <1>3
<1> QED
  BY <1>4

(* A subtree read right from a tile has right leaves.                      *)
LEMMA SubtreeLeaves ==
  ASSUME NEW tree, Len(tree) \in Nat, NEW size, size = Len(tree), NEW tiles, Shaped(tiles, size),
         LevelsAgree(tiles), NEW height \in Nat, NEW index \in Nat, NEW g, g = Pow2[height],
         index * g + g <= size, Subtree(tiles, height, index) = TreeHashes(tree)[<<index * g, index * g + g>>]
  PROVE  \A x \in (index * g)..(index * g + g - 1) : x \in Nat /\ Right(tiles, tree, 0, x)
<1>1. PICK H, level, r, z, S, W :
        /\ H = TILE_HEIGHT /\ level = height \div H /\ r = height % H
        /\ z = Pow2[r] /\ S = Size(level) /\ W = TILE_WIDTH
  OBVIOUS
<1>2. /\ H \in Nat /\ H > 0 /\ level \in Nat /\ r \in 0..(H - 1) /\ r \in Nat /\ level * H \in Nat
      /\ height = level * H + r /\ H - r \in Nat /\ r + (H - r) = H
  <2>1. H \in Nat /\ H > 0
    BY <1>1, TileAssumption
  <2>2. /\ level \in Nat /\ r \in 0..(H - 1) /\ level * H \in Nat /\ height = level * H + r
    BY <1>1, <2>1, Division
  <2> QED
    BY <2>1, <2>2
<1>3. z \in Nat /\ z > 0 /\ S \in Nat /\ S > 0 /\ g = z * S /\ W \in Nat /\ S = Pow2[level * H]
  <2>1. z \in Nat /\ z > 0 /\ S \in Nat /\ S > 0 /\ W \in Nat /\ S = Pow2[level * H]
    BY <1>1, <1>2, Pow2Grows, SizeFacts DEF Size
  <2>2. r + level * H = height
    BY <1>2
  <2>3. Pow2[r + level * H] = Pow2[r] * Pow2[level * H]
    BY <1>2, Pow2Sum
  <2> QED
    BY <1>1, <2>1, <2>2, <2>3
<1>4. PICK q : q \in Nat /\ q > 0 /\ W = z * q
  <2>1. Pow2[r + (H - r)] = Pow2[r] * Pow2[H - r]
    BY <1>2, Pow2Sum
  <2>2. Pow2[H - r] \in Nat /\ Pow2[H - r] > 0
    BY <1>2, Pow2Grows
  <2> QED
    BY <1>1, <1>2, <2>1, <2>2 DEF TILE_WIDTH
<1>5. PICK first, tile, start : first = index * z /\ tile = first \div W /\ start = first - tile * W
  OBVIOUS
<1>6. /\ tile \in Nat /\ tile * W \in Nat /\ first \in Nat /\ start \in Nat /\ start + z <= W
      /\ tile * W + start = first
  <2>1. tile = (index * z) \div W
    BY <1>5
  <2>2. /\ tile \in Nat /\ W \in Nat /\ tile * W \in Nat /\ index * z \in Nat
        /\ index * z - tile * W \in Nat /\ (index * z - tile * W) + z <= W
    BY <1>3, <1>4, <2>1, AlignedInside
  <2> QED
    BY <1>5, <2>2
<1>7. first * S = index * g /\ (first + z) * S = index * g + g /\ index * g \in Nat /\ g \in Nat
  <2>1. (index * z) * S = index * (z * S) /\ (first + z) * S = first * S + z * S /\ z * S \in Nat
    BY ONLY <1>3, <1>6, index \in Nat, Scaled
  <2>2. index * g \in Nat
    BY ONLY <1>3, index \in Nat, Scaled
  <2> QED
    BY <1>3, <1>5, <2>1, <2>2
<1> DEFINE a == [i \in 1..z |-> tiles[<<level, tile>>][start + i]]
<1>8. Folded(a, r)[1] = TreeHashes(tree)[<<index * g, index * g + g>>]
  <2>1. Subtree(tiles, height, index) = Folded(a, r)[1]
    BY <1>1, <1>5 DEF Subtree
  <2> QED
    BY <2>1
<1>9. ASSUME NEW i \in 1..z
      PROVE  a[i] = TreeHashes(tree)[<<index * g + (i - 1) * S, index * g + i * S>>]
  <2>1. Row(a, z)
    BY DEF Row
  <2> HIDE DEF a
  <2>2. PICK b, e, d : b = index * g /\ e = level * H /\ d = a
    OBVIOUS
  <2>3. /\ b \in Nat /\ e \in Nat /\ S = Pow2[e] /\ b + Pow2[r] * S <= Len(tree) /\ Row(d, Pow2[r])
        /\ Folded(d, r)[1] = TreeHashes(tree)[<<b, b + Pow2[r] * S>>]
    BY <1>1, <1>2, <1>3, <1>7, <1>8, <2>1, <2>2
  <2>4. r \in Nat /\ e \in Nat /\ b \in Nat
    BY <1>2, <2>3
  <2>5. S = Pow2[e] /\ b + Pow2[r] * S <= Len(tree) /\ Row(d, Pow2[r])
    BY <2>3
  <2>6. Folded(d, r)[1] = TreeHashes(tree)[<<b, b + Pow2[r] * S>>]
           <=> \A k \in 1..Pow2[r] : d[k] = TreeHashes(tree)[<<b + (k - 1) * S, b + k * S>>]
    BY ONLY Len(tree) \in Nat, <2>4, <2>5, FoldExact, SMTT(30)
  <2>7. \A k \in 1..Pow2[r] : d[k] = TreeHashes(tree)[<<b + (k - 1) * S, b + k * S>>]
    BY ONLY <2>3, <2>6
  <2> QED
    BY ONLY <1>1, <2>2, <2>7, i \in 1..z, ZenonT(60)
<1> SUFFICES ASSUME NEW x \in (index * g)..(index * g + g - 1)
             PROVE  x \in Nat /\ Right(tiles, tree, 0, x)
  OBVIOUS
<1>10. PICK j, lo : j = x \div S /\ lo = index * g
  OBVIOUS
<1>11. /\ x \in Nat /\ lo <= x /\ x < lo + g /\ lo \in Nat
       /\ j \in Nat /\ x = j * S + (x % S) /\ x % S \in 0..(S - 1) /\ j * S \in Nat
  <2>1. lo \in Nat /\ g \in Nat /\ x \in lo..(lo + g - 1)
    BY ONLY <1>7, <1>10, x \in (index * g)..(index * g + g - 1)
  <2>2. x \in Nat /\ lo <= x /\ x < lo + g
    BY ONLY <2>1
  <2> QED
    BY ONLY <1>3, <1>10, <2>1, <2>2, Division
<1>22. (j + 1) * S = j * S + S
  <2>1. S \in Nat /\ j \in Nat
    BY ONLY <1>3, <1>11
  <2> QED
    BY ONLY <2>1
<1>23. first * S = lo /\ (first + z) * S = lo + g
  BY ONLY <1>7, <1>10
<1>12. first <= j
  <2>1. first * S <= x
    BY ONLY <1>11, <1>23
  <2> QED
    BY ONLY <1>3, <1>6, <1>10, <1>11, <2>1, QuotientAtLeast
<1>13. j < first + z
  <2> SUFFICES ASSUME ~(j < first + z) PROVE FALSE
    OBVIOUS
  <2>1. first + z \in Nat /\ first + z <= j
    BY ONLY <1>3, <1>6, <1>11, ~(j < first + z)
  <2>2. (first + z) * S <= j * S
    BY ONLY <1>3, <1>11, <2>1, TimesLess
  <2>3. lo + g <= j * S
    BY ONLY <1>23, <2>2
  <2> QED
    BY ONLY <1>7, <1>11, <2>3, <1>3
<1>14. PICK i : i = j - first + 1
  OBVIOUS
<1>15. i \in 1..z /\ j = tile * W + (start + i - 1) /\ start + i \in 1..W
  <2>1. PICK y : y = tile * W
    OBVIOUS
  <2>2. i \in 1..z /\ j = y + (start + i - 1) /\ start + i \in 1..W
    BY ONLY <1>3, <1>6, <1>11, <1>12, <1>13, <1>14, <2>1
  <2> QED
    BY ONLY <2>1, <2>2
<1>16. TileAt(j) = tile /\ PlaceAt(j) = start + i
  <2>1. j = tile * TILE_WIDTH + ((start + i) - 1) /\ start + i \in 1..TILE_WIDTH
    BY ONLY <1>1, <1>6, <1>15
  <2> QED
    BY ONLY <1>6, <2>1, Places
<1>17. Entry(tiles, level, j) = a[i]
  BY ONLY <1>15, <1>16 DEF Entry
<1>18. index * g + (i - 1) * S = j * S /\ index * g + i * S = (j + 1) * S
  <2>1. j = first + (i - 1) /\ j + 1 = first + i
    BY ONLY <1>6, <1>11, <1>14
  <2>2. (first + (i - 1)) * S = first * S + (i - 1) * S /\ (first + i) * S = first * S + i * S
    BY ONLY <1>3, <1>6, <1>15
  <2> QED
    BY ONLY <1>10, <1>23, <2>1, <2>2
<1>19. Right(tiles, tree, level, j)
  <2>1. a[i] = TreeHashes(tree)[<<index * g + (i - 1) * S, index * g + i * S>>]
    BY <1>9, <1>15
  <2> HIDE DEF a
  <2> QED
    BY ONLY <1>1, <1>17, <1>18, <2>1 DEF Right
<1>20. Reaches(level, j, size)
  <2>1. j + 1 \in Nat /\ j + 1 <= first + z /\ first + z \in Nat
    BY ONLY <1>3, <1>6, <1>11, <1>13
  <2>2. (j + 1) * S <= (first + z) * S /\ (j + 1) * S \in Nat
    BY ONLY <1>3, <2>1, TimesLess
  <2>3. lo + g <= size
    BY ONLY <1>10, index * g + g <= size
  <2>4. (j + 1) * S <= size
    BY ONLY <1>7, <1>11, <1>23, <2>2, <2>3, size = Len(tree), Len(tree) \in Nat
  <2> QED
    BY ONLY <1>1, <2>4 DEF Reaches
<1>21. x \in (j * Size(level))..((j + 1) * Size(level) - 1)
  <2>1. x \in (j * S)..((j * S + S) - 1)
    BY ONLY <1>3, <1>11
  <2> QED
    BY ONLY <1>1, <1>22, <2>1
<1>24. Right(tiles, tree, 0, x)
  BY ONLY Len(tree) \in Nat, size = Len(tree), Shaped(tiles, size), LevelsAgree(tiles),
          <1>2, <1>11, <1>19, <1>20, <1>21, RightLeaves
<1> QED
  BY <1>11, <1>24

(* A range read right has right leaves.                                    *)
LEMMA RangeLeaves ==
  ASSUME NEW tree, Len(tree) \in Nat, NEW n, n = Len(tree), NEW tiles, Shaped(tiles, n),
         LevelsAgree(tiles), NEW h, h = Ranges(tiles, n, -1, EmptyHash),
         NEW s \in Spans(n), h[s] = TreeHashes(tree)[s], NEW x \in s[1]..(s[2] - 1)
  PROVE  Right(tiles, tree, 0, x)
<1> DEFINE P(t) == h[t] = TreeHashes(tree)[t] => \A y \in t[1]..(t[2] - 1) : Right(tiles, tree, 0, y)
           T == {w \in 0..n : \A t \in Inside(n, w) : P(t)}
<1>1. 0 \in T
  BY DEF Inside, Spans
<1>2. ASSUME NEW w \in 1..n, w - 1 \in T PROVE w \in T
  <2> SUFFICES ASSUME NEW t \in Inside(n, w), h[t] = TreeHashes(tree)[t], NEW y \in t[1]..(t[2] - 1)
               PROVE  Right(tiles, tree, 0, y)
    OBVIOUS
  <2>1. /\ t \in Spans(n) /\ t[2] - t[1] <= w /\ t[1] \in 0..n /\ t[2] \in 0..n /\ t[1] < t[2]
        /\ t = <<t[1], t[2]>>
    BY DEF Inside, Spans
  <2>2. h[t] = IF Stored(t, -1) THEN StoredAt(tiles, t)
               ELSE NodeHash(h[<<t[1], Middle(t)>>], h[<<Middle(t), t[2]>>])
    <3>1. RangeStep(h, tiles, -1, EmptyHash, t)
      BY ONLY <2>1, n = Len(tree), Len(tree) \in Nat, h = Ranges(tiles, n, -1, EmptyHash), RangeSteps
    <3>2. ~Replaced(t, -1)
      BY <2>1 DEF Replaced
    <3> QED
      BY <3>1, <3>2 DEF RangeStep
  <2>3. CASE Stored(t, -1)
    <3>1. PICK lo, g, height, index : /\ lo = t[1] /\ g = t[2] - t[1]
                                      /\ height = Log2(g) /\ index = lo \div g
      OBVIOUS
    <3>2. g \in Nat /\ g > 0 /\ lo \in Nat /\ lo + g = t[2] /\ lo + g <= n
      BY <2>1, <3>1
    <3>3. IsPowerOfTwo(g) /\ lo % g = 0
      BY <2>3, <3>1 DEF Stored
    <3>4. height \in Nat /\ g = Pow2[height]
      BY <3>1, <3>2, <3>3, Log2Of
    <3>5. index \in Nat /\ index * g = lo
      <4>1. lo \div g \in Nat /\ lo = (lo \div g) * g + (lo % g) /\ (lo \div g) * g \in Nat
        BY ONLY <3>2, Division
      <4> QED
        BY ONLY <3>1, <3>3, <4>1
    <3>6. Subtree(tiles, height, index) = TreeHashes(tree)[<<index * g, index * g + g>>]
      <4>1. StoredAt(tiles, t) = Subtree(tiles, height, index)
        BY <3>1 DEF StoredAt
      <4>2. <<index * g, index * g + g>> = t
        BY <2>1, <3>1, <3>2, <3>5
      <4> QED
        BY <2>2, <2>3, <4>1, <4>2
    <3>7. index * g + g <= n /\ y \in (index * g)..(index * g + g - 1)
      <4>1. lo + g <= n /\ y \in lo..(lo + g - 1)
        BY ONLY <3>1, <3>2, y \in t[1]..(t[2] - 1)
      <4> QED
        BY ONLY <3>5, <4>1
    <3> QED
      BY ONLY Len(tree) \in Nat, n = Len(tree), Shaped(tiles, n), LevelsAgree(tiles),
              <3>4, <3>5, <3>6, <3>7, SubtreeLeaves
  <2>4. CASE ~Stored(t, -1)
    <3> DEFINE k == Middle(t)
    <3>1. t[2] - t[1] # 1
      <4>1. ~Replaced(t, -1)
        BY <2>1 DEF Replaced
      <4> QED
        BY <2>1, <2>4, <4>1, OneLeaf
    <3>2. /\ k \in (t[1] + 1)..(t[2] - 1)
          /\ <<t[1], k>> \in Spans(n) /\ <<k, t[2]>> \in Spans(n)
      BY <2>1, <3>1, MiddleInside
    <3>3. TreeHashes(tree)[t] = NodeHash(TreeHashes(tree)[<<t[1], k>>], TreeHashes(tree)[<<k, t[2]>>])
      BY <2>1, <3>1, TreeSteps
    <3>4. h[t] = NodeHash(h[<<t[1], k>>], h[<<k, t[2]>>])
      BY <2>2, <2>4
    <3> HIDE DEF k
    <3>5. TreeHashes(tree)[t] # Missing
      BY <2>1, TreePresent
    <3>6. /\ h[<<t[1], k>>] = TreeHashes(tree)[<<t[1], k>>]
          /\ h[<<k, t[2]>>] = TreeHashes(tree)[<<k, t[2]>>]
      BY <3>3, <3>4, <3>5, HashFacts
    <3>7. <<t[1], k>> \in Inside(n, w - 1) /\ <<k, t[2]>> \in Inside(n, w - 1)
      BY ONLY n = Len(tree), Len(tree) \in Nat, w \in 1..n, t \in Inside(n, w), <3>2, PartsInside
    <3>8. P(<<t[1], k>>) /\ P(<<k, t[2]>>)
      <4> HIDE DEF P
      <4> QED
        BY <1>2, <3>7
    <3>9. y \in t[1]..(k - 1) \/ y \in k..(t[2] - 1)
      BY <2>1, <3>2
    <3> QED
      BY <3>6, <3>8, <3>9
  <2> QED
    BY <2>3, <2>4
<1>3. 0..n \subseteq T
  <2> HIDE DEF T
  <2> QED
    BY <1>1, <1>2, StepByStep
<1>4. s \in Inside(n, n)
  BY DEF Inside, Spans
<1>5. P(s)
  <2> HIDE DEF P
  <2> QED
    BY <1>3, <1>4
<1> QED
  BY <1>5

(* So tiles that agree with each other and rebuild a tree's root are the   *)
(* tree's own tiles.                                                       *)
LEMMA RootGivesTiles ==
  ASSUME NEW tree, Len(tree) \in Nat, Len(tree) > 0, NEW tiles, Shaped(tiles, Len(tree)),
         LevelsAgree(tiles), ReadRoot(tiles, Len(tree)) = Root(tree)
  PROVE  tiles = TilesOf(tree, Len(tree))
<1>1. PICK n, h, s : n = Len(tree) /\ h = Ranges(tiles, n, -1, EmptyHash) /\ s = <<0, n>>
  OBVIOUS
<1>2. n \in Nat /\ n > 0 /\ s \in Spans(n) /\ s[1] = 0 /\ s[2] = n
  BY <1>1, WholeTree
<1>3. h[s] = TreeHashes(tree)[s]
  BY <1>1, <1>2, RootOf DEF ReadRoot, Range
<1>4. \A x \in Nat : x < n => Right(tiles, tree, 0, x)
  <2> SUFFICES ASSUME NEW x \in Nat, x < n PROVE Right(tiles, tree, 0, x)
    OBVIOUS
  <2>1. x \in s[1]..(s[2] - 1)
    BY <1>2
  <2> QED
    BY ONLY <1>1, <1>2, <1>3, <2>1, Len(tree) \in Nat, Shaped(tiles, Len(tree)), LevelsAgree(tiles), RangeLeaves
<1>5. ASSUME NEW t \in TileIds(n)
      PROVE  tiles[t] = ServeTile(tree, t[1], t[2], TileWidth(n, t[1], t[2]))
  <2>1. PICK width, S, W : width = TileWidth(n, t[1], t[2]) /\ S = Size(t[1]) /\ W = TILE_WIDTH
    OBVIOUS
  <2>2. ServeTile(tree, t[1], t[2], width) =
          [i \in 1..width |-> IF (t[2] * W + width) * S <= n
                              THEN TreeHash(tree, (t[2] * W + i - 1) * S, (t[2] * W + i) * S) ELSE Missing]
    BY <1>1, <2>1 DEF ServeTile, Size
  <2>3. t[1] \in Nat /\ t[2] \in Nat /\ width \in Nat /\ width > 0 /\ W \in Nat /\ S \in Nat /\ S > 0 /\ t[2] * W \in Nat
    <3>1. t[1] \in Nat /\ t[2] \in Nat /\ width > 0
      <4>1. n \div TILE_HEIGHT \in Nat
        BY <1>2, TileAssumption, Division
      <4> QED
        BY <1>2, <2>1, <4>1 DEF TileIds
    <3>2. W \in Nat /\ S \in Nat /\ S > 0
      BY <2>1, <3>1, SizeFacts
    <3>3. n \div S \in Nat /\ t[2] * W \in Nat
      BY <1>2, <3>1, <3>2, Division
    <3>4. width = IF (n \div S) - t[2] * W < W THEN (n \div S) - t[2] * W ELSE W
      BY <2>1 DEF TileWidth, Least, Size
    <3> QED
      BY <3>1, <3>2, <3>3, <3>4
  <2>4. ASSUME NEW i \in 1..width
        PROVE  /\ tiles[t][i] = TreeHashes(tree)[<<(t[2] * W + i - 1) * S, (t[2] * W + i) * S>>]
               /\ (t[2] * W + i) * S <= n
               /\ TreeHash(tree, (t[2] * W + i - 1) * S, (t[2] * W + i) * S)
                    = TreeHashes(tree)[<<(t[2] * W + i - 1) * S, (t[2] * W + i) * S>>]
    <3>1. PICK j : j = t[2] * W + (i - 1)
      OBVIOUS
    <3>2. /\ t = <<t[1], t[2]>> /\ j \in Nat
          /\ TileAt(j) = t[2] /\ PlaceAt(j) = i /\ Reaches(t[1], j, n)
      BY <1>2, <2>1, <3>1, TileHolds
    <3>3. Right(tiles, tree, t[1], j)
      BY ONLY <1>1, <1>2, <1>4, <2>3, <3>2, Len(tree) \in Nat, Shaped(tiles, Len(tree)), LevelsAgree(tiles), RightUp
    <3>4. tiles[t][i] = TreeHashes(tree)[<<j * S, (j + 1) * S>>]
      BY <2>1, <3>2, <3>3 DEF Right, Entry
    <3>5. t[2] * W + i - 1 = j /\ t[2] * W + i = j + 1
      BY <2>3, <3>1
    <3>6. (j + 1) * S <= n
      BY <2>1, <3>2 DEF Reaches
    <3>7. j * S # (j + 1) * S
      <4>1. (j + 1) * S = j * S + S /\ j * S \in Nat
        BY <2>3, <3>2
      <4> QED
        BY <2>3, <4>1
    <3>8. TreeHash(tree, j * S, (j + 1) * S) = TreeHashes(tree)[<<j * S, (j + 1) * S>>]
      BY <3>7 DEF TreeHash
    <3> QED
      BY <3>4, <3>5, <3>6, <3>8
  <2>5. (t[2] * W + width) * S <= n
    <3>1. width \in 1..width
      BY ONLY <2>3
    <3> QED
      BY <2>4, <3>1
  <2>6. Row(tiles[t], width)
    BY <1>1, <2>1 DEF Shaped
  <2>7. \A i \in 1..width : tiles[t][i] = TreeHash(tree, (t[2] * W + i - 1) * S, (t[2] * W + i) * S)
    BY <2>4
  <2>8. ServeTile(tree, t[1], t[2], width) =
          [i \in 1..width |-> TreeHash(tree, (t[2] * W + i - 1) * S, (t[2] * W + i) * S)]
    BY <2>2, <2>5
  <2> QED
    BY ONLY <2>1, <2>6, <2>7, <2>8 DEF Row
<1>6. tiles = [t \in TileIds(n) |-> tiles[t]]
  BY <1>1 DEF Shaped
<1> QED
  BY ONLY <1>1, <1>5, <1>6 DEF TilesOf

(* verify_consistency accepts two trees only if the old one is a prefix of *)
(* the new one, whoever served the tiles, provided that each tile agrees   *)
(* with the ones below it.  (In a tree of fewer leaves than a tile has     *)
(* there is no tile above another.)                                        *)
THEOREM ConsistencySound ==
  ASSUME NEW old, Len(old) \in Nat, Len(old) > 0, NEW new, Len(new) \in Nat, Len(new) > 0,
         NEW tiles, Shaped(tiles, Len(new)), LevelsAgree(tiles),
         VerifyConsistency(tiles, Len(old), Root(old), Len(new), Root(new))
  PROVE  Begins(old, new)
<1>1. /\ Len(old) <= Len(new)
      /\ ReadRoot(tiles, Len(new)) = Root(new) /\ ReadRoot(tiles, Len(old)) = Root(old)
  BY DEF VerifyConsistency
<1>2. tiles = TilesOf(new, Len(new))
  BY <1>1, RootGivesTiles
<1> QED
  BY <1>1, <1>2, RootRead

(* And it accepts any two trees that begin the log whose tiles it reads.   *)
THEOREM ConsistencyComplete ==
  ASSUME NEW recs, Len(recs) \in Nat, NEW old, Len(old) \in Nat, Len(old) > 0,
         NEW new, Len(new) \in Nat, Len(new) > 0, Len(old) <= Len(new),
         Begins(old, recs), Begins(new, recs)
  PROVE  VerifyConsistency(TilesOf(recs, Len(new)), Len(old), Root(old), Len(new), Root(new))
<1>1. Len(new) <= Len(recs) /\ Len(new) <= Len(new)
  BY DEF Begins
<1>2. PICK tiles : tiles = TilesOf(recs, Len(new))
  OBVIOUS
<1>3. ReadRoot(tiles, Len(new)) = Root(new) /\ ReadRoot(tiles, Len(old)) = Root(old)
  BY <1>1, <1>2, RootRead
<1> QED
  BY <1>2, <1>3 DEF VerifyConsistency

(* TreeReader::root: from the tiles of a log, read for a tree that the log *)
(* has outgrown or not, the root of each smaller tree is the signed one.   *)
THEOREM RootsFromTiles ==
  ASSUME NEW recs, Len(recs) \in Nat, NEW tree, Len(tree) \in Nat, Begins(tree, recs),
         NEW size \in Nat, Len(tree) <= size, size <= Len(recs)
  PROVE  ReadRoot(TilesOf(recs, size), Len(tree)) = Root(tree)
<1>1. CASE Len(tree) = 0
  BY <1>1 DEF ReadRoot, Root, TreeHash
<1>2. CASE Len(tree) > 0
  BY <1>2, RootRead
<1> QED
  BY <1>1, <1>2

LEMMA PrefixFacts ==
  ASSUME NEW n \in 0..MaxTree
  PROVE  /\ Len(Whole) = MaxTree /\ Len(Whole) \in Nat
         /\ Len(Prefix(n)) = n /\ Begins(Prefix(n), Whole)
         /\ \A i \in 1..n : Prefix(n)[i] = <<i, 1>>
<1>1. MaxTree \in Nat
  BY TreeAssumption
<1>2. Whole \in Seq(Nat \X Nat) /\ Len(Whole) = MaxTree /\ \A i \in 1..MaxTree : Whole[i] = <<i, 1>>
  <2>1. Whole \in [1..MaxTree -> Nat \X Nat]
    BY <1>1 DEF Whole
  <2>2. Whole \in Seq(Nat \X Nat)
    BY <1>1, <2>1
  <2>3. DOMAIN Whole = 1..MaxTree
    BY DEF Whole
  <2>4. Len(Whole) = MaxTree
    BY <1>1, <2>2, <2>3
  <2> QED
    BY <2>2, <2>4 DEF Whole
<1> HIDE DEF Whole
<1>3. PICK t : t = Prefix(n)
  OBVIOUS
<1>4. Len(t) = n /\ \A i \in 1..n : t[i] = Whole[i]
  BY <1>1, <1>2, <1>3 DEF Prefix
<1>5. Begins(t, Whole) /\ \A i \in 1..n : t[i] = <<i, 1>>
  BY <1>1, <1>2, <1>4 DEF Begins
<1> QED
  BY <1>1, <1>2, <1>3, <1>4, <1>5

(* What the run evaluates of the reader, for trees of any size.            *)
LEMMA ReaderIsExact == ReaderExact
<1>1. MaxTree \in Nat
  BY TreeAssumption
<1>2. ASSUME NEW size \in 1..MaxTree, NEW n \in 0..size
      PROVE  ReadRoot(TilesOf(Whole, size), n) = Root(Prefix(n))
  <2>1. n \in 0..MaxTree /\ n \in Nat /\ n <= size /\ size \in Nat /\ size <= MaxTree
    BY <1>1, <1>2
  <2>2. PICK t : t = Prefix(n)
    OBVIOUS
  <2>3. Len(Whole) = MaxTree /\ Len(Whole) \in Nat /\ Len(t) = n /\ Begins(t, Whole)
    BY <2>1, <2>2, PrefixFacts
  <2>4. ReadRoot(TilesOf(Whole, size), Len(t)) = Root(t)
    BY <2>1, <2>3, RootsFromTiles
  <2> QED
    BY <2>2, <2>3, <2>4
<1>3. ASSUME NEW size \in 1..MaxTree, NEW index \in 0..size, NEW r \in {index, index + 1}
      PROVE  VerifyInclusion(TilesOf(Whole, size), size, Root(Prefix(size)), index, <<r, 1>>)
               <=> (index < size /\ r = index + 1)
  <2>1. index \in Nat /\ size \in Nat /\ size > 0 /\ size \in 0..MaxTree /\ r \in Nat
    BY <1>1, <1>3
  <2>2. PICK t : t = Prefix(size)
    OBVIOUS
  <2>3. /\ Len(Whole) \in Nat /\ Len(t) = size /\ Begins(t, Whole)
        /\ \A i \in 1..size : t[i] = <<i, 1>>
    BY <2>1, <2>2, PrefixFacts
  <2>4. ASSUME VerifyInclusion(TilesOf(Whole, size), size, Root(t), index, <<r, 1>>)
        PROVE  index < size /\ r = index + 1
    <3>1. index < size /\ t[index + 1] = <<r, 1>>
      BY <2>1, <2>3, <2>4, InclusionSound
    <3>2. t[index + 1] = <<index + 1, 1>>
      BY <2>1, <2>3, <3>1
    <3> QED
      BY <3>1, <3>2
  <2>5. ASSUME index < size, r = index + 1
        PROVE  VerifyInclusion(TilesOf(Whole, size), size, Root(t), index, <<r, 1>>)
    <3>1. t[index + 1] = <<r, 1>>
      BY <2>1, <2>3, <2>5
    <3>2. VerifyInclusion(TilesOf(Whole, Len(t)), Len(t), Root(t), index, t[index + 1])
      BY <2>1, <2>3, <2>5, InclusionComplete
    <3> QED
      BY <2>3, <3>1, <3>2
  <2> QED
    BY <2>2, <2>4, <2>5
<1> QED
  BY <1>2, <1>3 DEF ReaderExact

-----------------------------------------------------------------------------
(* The commands.                                                           *)

Logs == {s \in Seq(Records) : Len(s) <= MaxSize /\ \A i \in 1..Len(s) : s[i][1] = i}
Trees == {s \in Logs : Len(s) > 0}
Lookups == [at : {"idle", "verified", "read", "refused"}, record : (0..MaxSize) \X (0..2),
            index : Nat, tree : Logs, seen : Logs]

Typed ==
  /\ log \in Trees /\ other \in Logs /\ kept \in Logs
  /\ forked \in BOOLEAN /\ stale \in BOOLEAN /\ torn \in BOOLEAN /\ (forked => other \in Trees)
  /\ client \in [Clients -> Lookups] /\ lookups \in 0..MaxLookups

(* What was verified, and what is trusted, is in its tree.                 *)
InTree(a) == a.tree \in Trees /\ a.index \in Nat /\ a.index < Len(a.tree) /\ a.tree[a.index + 1] = a.record
Busy(r) == r.at \in {"verified", "read"}
Verified == (\A c \in Clients : Busy(client[c]) => InTree(client[c])) /\ \A a \in accepted : InTree(a)

(* An honest database shows beginnings of its log.                         *)
Shown(r, recs) ==
  /\ r.at # "refused"
  /\ Busy(r) => Begins(r.tree, recs)
  /\ r.at = "read" => Begins(r.seen, recs)
Honest ==
  /\ \A i \in 1..Len(log) : log[i] = <<i, 1>>
  /\ ~forked => Begins(kept, log) /\ \A c \in Clients : Shown(client[c], log)

(* What was trusted begins the history that is kept, or at least is not    *)
(* longer.                                                                 *)
Kept == ~stale /\ ~torn => \A a \in accepted : Begins(a.tree, kept)
Largest == ~stale => \A a \in accepted : Len(a.tree) <= Len(kept)

Inv == Typed /\ Verified /\ Honest /\ Kept /\ Largest

LEMMA LogFacts ==
  ASSUME NEW s \in Logs
  PROVE  /\ s \in Seq(Records) /\ Len(s) \in Nat /\ Len(s) <= MaxSize /\ DOMAIN s = 1..Len(s)
         /\ \A i \in 1..Len(s) : s[i] \in Records /\ s[i][1] = i
         /\ s # NoFile <=> Len(s) > 0
BY DEF Logs, NoFile

LEMMA BeginsTwice ==
  ASSUME NEW s \in Logs, NEW t \in Logs, NEW u \in Logs, Begins(s, t), Begins(t, u)
  PROVE  Begins(s, u)
<1>1. Len(s) \in Nat /\ Len(t) \in Nat /\ Len(u) \in Nat
  BY LogFacts
<1> QED
  BY <1>1 DEF Begins

LEMMA NoFileBegins ==
  ASSUME NEW s \in Logs
  PROVE  NoFile \in Logs /\ Len(NoFile) = 0 /\ Begins(NoFile, s)
<1>1. NoFile \in Logs /\ Len(NoFile) = 0
  BY DatabaseAssumption DEF NoFile, Logs
<1> QED
  BY <1>1, LogFacts DEF Begins

(* Appending and cutting.                                                  *)
LEMMA Grown ==
  ASSUME NEW s \in Logs, Len(s) < MaxSize, NEW x \in {1, 2}
  PROVE  /\ Append(s, <<Len(s) + 1, x>>) \in Trees
         /\ Len(Append(s, <<Len(s) + 1, x>>)) = Len(s) + 1
         /\ \A i \in 1..Len(s) : Append(s, <<Len(s) + 1, x>>)[i] = s[i]
         /\ Append(s, <<Len(s) + 1, x>>)[Len(s) + 1] = <<Len(s) + 1, x>>
         /\ Begins(s, Append(s, <<Len(s) + 1, x>>))
<1>1. PICK e, t : e = <<Len(s) + 1, x>> /\ t = Append(s, e)
  OBVIOUS
<1>2. Len(s) \in Nat /\ s \in Seq(Records) /\ MaxSize \in Nat
  BY LogFacts, DatabaseAssumption
<1>3. e \in Records /\ e[1] = Len(s) + 1
  BY <1>1, <1>2 DEF Records
<1>4. /\ t \in Seq(Records) /\ Len(t) = Len(s) + 1 /\ t[Len(s) + 1] = e
      /\ \A i \in 1..Len(s) : t[i] = s[i]
  BY <1>1, <1>2, <1>3
<1>5. ASSUME NEW i \in 1..Len(t) PROVE t[i][1] = i
  <2>1. CASE i = Len(s) + 1
    BY <1>3, <1>4, <2>1
  <2>2. CASE i # Len(s) + 1
    <3>1. i \in 1..Len(s)
      BY <1>2, <1>4, <2>2
    <3> QED
      BY <1>4, <3>1, LogFacts
  <2> QED
    BY <2>1, <2>2
<1>6. t \in Trees
  BY <1>2, <1>4, <1>5 DEF Trees, Logs
<1>7. Begins(s, t)
  BY <1>2, <1>4 DEF Begins
<1> QED
  BY <1>1, <1>4, <1>6, <1>7

LEMMA Cut ==
  ASSUME NEW s \in Logs, NEW n \in 0..Len(s)
  PROVE  SubSeq(s, 1, n) \in Logs /\ Len(SubSeq(s, 1, n)) = n /\ Begins(SubSeq(s, 1, n), s)
<1>1. PICK t : t = SubSeq(s, 1, n)
  OBVIOUS
<1>2. Len(s) \in Nat /\ s \in Seq(Records) /\ MaxSize \in Nat /\ Len(s) <= MaxSize
  BY LogFacts, DatabaseAssumption
<1>3. t \in Seq(Records) /\ Len(t) = n /\ \A i \in 1..n : t[i] = s[i]
  BY <1>1, <1>2
<1>4. \A i \in 1..n : t[i][1] = i
  BY <1>2, <1>3, LogFacts
<1>5. t \in Logs
  BY <1>2, <1>3, <1>4 DEF Logs
<1>6. Begins(t, s)
  BY <1>2, <1>3 DEF Begins
<1> QED
  BY <1>1, <1>3, <1>5, <1>6

(* The signed trees of the answers.                                        *)
LEMMA AnswerTrees ==
  ASSUME Typed, NEW version \in 1..MaxSize, NEW a \in Answers(version)
  PROVE  /\ a.tree \in Trees /\ a.index \in Nat /\ a.record \in (0..MaxSize) \X (0..2)
         /\ ~forked => /\ Begins(a.tree, log) /\ a.record = <<version, 1>>
                       /\ a.index = version - 1 /\ version <= Len(a.tree)
<1> DEFINE Of(history) == {SubSeq(history, 1, n) : n \in 1..Len(history)}
           trees == UNION {Of(h) : h \in Histories}
<1>1. MaxSize \in Nat
  BY DatabaseAssumption
<1>2. ASSUME NEW t \in trees PROVE t \in Trees /\ (~forked => Begins(t, log))
  <2>1. PICK h \in Histories : t \in Of(h)
    BY <1>2
  <2>2. PICK n \in 1..Len(h) : t = SubSeq(h, 1, n)
    BY <2>1
  <2>3. h \in Trees /\ h \in Logs /\ (~forked => h = log)
    BY DEF Typed, Histories, Trees
  <2>4. Len(h) \in Nat /\ n \in 0..Len(h)
    BY <2>3, LogFacts
  <2>5. t \in Logs /\ Len(t) = n /\ Begins(t, h)
    BY <2>2, <2>3, <2>4, Cut
  <2> QED
    BY <2>3, <2>5 DEF Trees
<1> HIDE DEF trees
<1>3. Answers(version) =
        IF forked THEN [record : {version} \X {1, 2}, index : 0..MaxSize, tree : trees]
        ELSE {x \in [record : {<<version, 1>>}, index : {version - 1}, tree : trees] : version <= Len(x.tree)}
  BY DEF Answers, trees
<1>4. CASE forked
  <2>1. a \in [record : {version} \X {1, 2}, index : 0..MaxSize, tree : trees]
    BY <1>3, <1>4
  <2> QED
    BY <1>1, <1>2, <1>4, <2>1
<1>5. CASE ~forked
  <2>1. a \in [record : {<<version, 1>>}, index : {version - 1}, tree : trees] /\ version <= Len(a.tree)
    BY <1>3, <1>5
  <2> QED
    BY <1>1, <1>2, <1>5, <2>1
<1> QED
  BY <1>4, <1>5

(* What one command does leaves the others alone.                          *)
Clientele == \A c \in Clients : Busy(client[c]) => InTree(client[c])
Display == ~forked => \A c \in Clients : Shown(client[c], log)

LEMMA ClientStep ==
  ASSUME Inv, NEW c \in Clients, NEW r \in Lookups, client' = [client EXCEPT ![c] = r],
         UNCHANGED <<log, other, forked>>, Busy(r) => InTree(r), ~forked => Shown(r, log)
  PROVE  client' \in [Clients -> Lookups] /\ Clientele' /\ Display'
<1>1. client \in [Clients -> Lookups]
  BY DEF Inv, Typed
<1>2. client' \in [Clients -> Lookups] /\ client'[c] = r /\ \A d \in Clients \ {c} : client'[d] = client[d]
  BY <1>1
<1>3. Clientele'
  <2> SUFFICES ASSUME NEW d \in Clients, Busy(client'[d]) PROVE InTree(client'[d])
    BY DEF Clientele
  <2>1. CASE d = c
    BY <1>2, <2>1
  <2>2. CASE d # c
    BY <1>2, <2>2 DEF Inv, Verified
  <2> QED
    BY <2>1, <2>2
<1>4. Display'
  <2> SUFFICES ASSUME NEW d \in Clients, ~forked PROVE Shown(client'[d], log)
    BY DEF Display
  <2>1. CASE d = c
    BY <1>2, <2>1
  <2>2. CASE d # c
    BY <1>2, <2>2 DEF Inv, Honest
  <2> QED
    BY <2>1, <2>2
<1> QED
  BY <1>2, <1>3, <1>4

LEMMA IdleFacts ==
  /\ Idle \in Lookups /\ Refused \in Lookups /\ ~Busy(Idle) /\ ~Busy(Refused) /\ Shown(Idle, log)
<1>1. NoFile \in Logs /\ <<>> \in Logs
  BY DatabaseAssumption DEF NoFile, Logs
<1>2. Idle \in Lookups /\ Refused \in Lookups
  BY <1>1, DatabaseAssumption DEF Idle, Refused, Lookups
<1> QED
  BY <1>2 DEF Idle, Refused, Busy, Shown

LEMMA InitInv == Init => Inv
<1> SUFFICES ASSUME Init PROVE Inv
  OBVIOUS
<1>1. <<>> \in Logs /\ NoFile \in Logs /\ Len(NoFile) = 0 /\ MaxSize \in Nat
  BY DatabaseAssumption DEF NoFile, Logs
<1>2. log = << <<1, 1>> >> /\ Len(log) = 1 /\ log[1] = <<1, 1>>
  BY DEF Init
<1>3. log \in Trees
  <2>1. <<1, 1>> \in Records
    BY DatabaseAssumption DEF Records
  <2>2. log \in Seq(Records)
    BY <1>2, <2>1
  <2> QED
    BY <1>2, <2>2, DatabaseAssumption DEF Trees, Logs
<1>4. Typed
  <2>1. other \in Logs /\ kept \in Logs
    BY <1>1 DEF Init
  <2>2. forked = FALSE /\ stale = FALSE /\ torn = FALSE
    BY DEF Init
  <2>3. client \in [Clients -> Lookups]
    <3>1. client = [c \in Clients |-> Idle]
      BY DEF Init
    <3> HIDE DEF Idle, Lookups
    <3> QED
      BY <3>1, IdleFacts
  <2>4. lookups \in 0..MaxLookups
    BY DatabaseAssumption DEF Init
  <2> QED
    BY <1>3, <2>1, <2>2, <2>3, <2>4, Zenon DEF Typed
<1>5. Verified
  BY IdleFacts DEF Init, Verified
<1>6. Honest
  <2>1. \A i \in 1..Len(log) : log[i] = <<i, 1>>
    BY <1>2
  <2>2. Begins(kept, log)
    BY <1>1, <1>2 DEF Init, Begins
  <2> QED
    BY <2>1, <2>2, IdleFacts DEF Init, Honest
<1>7. Kept /\ Largest
  BY DEF Init, Kept, Largest
<1> QED
  BY <1>4, <1>5, <1>6, <1>7 DEF Inv

LEMMA IngestStep ==
  ASSUME Inv, Ingest
  PROVE  Inv'
<1>1. UNCHANGED <<forked, kept, client, accepted, lookups, stale, torn>>
  BY DEF Ingest
<1>2. Verified' /\ Kept' /\ Largest'
  BY <1>1 DEF Inv, Verified, Kept, Largest
<1>3. CASE Len(log) < MaxSize /\ log' = Append(log, <<Len(log) + 1, 1>>) /\ UNCHANGED other
  <2>1. log \in Logs /\ log \in Trees /\ Len(log) \in Nat
    BY LogFacts DEF Inv, Typed, Trees
  <2>2. /\ log' \in Trees /\ Len(log') = Len(log) + 1 /\ Begins(log, log')
        /\ \A i \in 1..Len(log) : log'[i] = log[i]
        /\ log'[Len(log) + 1] = <<Len(log) + 1, 1>>
    BY <1>3, <2>1, Grown
  <2>3. Typed'
    BY <1>1, <1>3, <2>2 DEF Inv, Typed
  <2>4. ASSUME NEW i \in 1..Len(log') PROVE log'[i] = <<i, 1>>
    <3>1. CASE i = Len(log) + 1
      BY <2>2, <3>1
    <3>2. CASE i # Len(log) + 1
      <4>1. i \in 1..Len(log)
        BY <2>1, <2>2, <3>2
      <4> QED
        BY <2>2, <4>1 DEF Inv, Honest
    <3> QED
      BY <3>1, <3>2
  <2>5. ASSUME NEW s \in Logs, Begins(s, log) PROVE Begins(s, log')
    <3>1. log' \in Logs
      BY <2>2 DEF Trees
    <3> QED
      BY <2>1, <2>2, <2>5, <3>1, BeginsTwice
  <2>6. ASSUME ~forked PROVE Begins(kept, log') /\ \A c \in Clients : Shown(client[c], log')
    <3>1. Begins(kept, log')
      BY <2>5, <2>6 DEF Inv, Typed, Honest
    <3>2. ASSUME NEW c \in Clients PROVE Shown(client[c], log')
      <4>1. client[c].tree \in Logs /\ client[c].seen \in Logs
        BY DEF Inv, Typed, Lookups
      <4>2. Shown(client[c], log)
        BY <2>6 DEF Inv, Honest
      <4> QED
        BY <2>5, <4>1, <4>2 DEF Shown
    <3> QED
      BY <3>1, <3>2
  <2>7. Honest'
    BY <1>1, <2>4, <2>6 DEF Honest
  <2> QED
    BY <1>2, <2>3, <2>7 DEF Inv
<1>4. CASE forked /\ Len(other) < MaxSize /\ other' = Append(other, <<Len(other) + 1, 2>>) /\ UNCHANGED log
  <2>1. other' \in Trees
    BY <1>4, Grown DEF Inv, Typed
  <2>2. Typed'
    BY <1>1, <1>4, <2>1 DEF Inv, Typed, Trees
  <2>3. Honest'
    BY <1>1, <1>4 DEF Inv, Honest
  <2> QED
    BY <1>2, <2>2, <2>3 DEF Inv
<1> QED
  BY <1>3, <1>4 DEF Ingest

LEMMA ForkStep ==
  ASSUME Inv, Fork
  PROVE  Inv'
<1>1. UNCHANGED <<log, kept, client, accepted, lookups, stale, torn>> /\ forked' = TRUE
  BY DEF Fork
<1>2. PICK k \in 1..Len(log) : other' = Append(SubSeq(log, 1, k - 1), <<k, 2>>)
  BY DEF Fork
<1>3. log \in Logs /\ Len(log) \in Nat /\ Len(log) <= MaxSize /\ MaxSize \in Nat
  BY LogFacts, DatabaseAssumption DEF Inv, Typed, Trees
<1>4. PICK s : s = SubSeq(log, 1, k - 1)
  OBVIOUS
<1>5. s \in Logs /\ Len(s) = k - 1 /\ Len(s) < MaxSize /\ Len(s) + 1 = k
  <2>1. k - 1 \in 0..Len(log)
    BY <1>3
  <2>2. s \in Logs /\ Len(s) = k - 1
    BY <1>3, <1>4, <2>1, Cut
  <2> QED
    BY <1>3, <2>2
<1>6. other' = Append(s, <<Len(s) + 1, 2>>)
  BY <1>2, <1>4, <1>5
<1>7. other' \in Trees
  BY <1>5, <1>6, Grown
<1>8. Typed'
  BY <1>1, <1>7 DEF Inv, Typed, Trees
<1>9. Verified' /\ Honest' /\ Kept' /\ Largest'
  BY <1>1 DEF Inv, Verified, Honest, Kept, Largest
<1> QED
  BY <1>8, <1>9 DEF Inv

(* A lookup changes one command, and what is kept and trusted stays.       *)
LEMMA ClientOnly ==
  ASSUME Inv, NEW c \in Clients, NEW r \in Lookups, client' = [client EXCEPT ![c] = r],
         UNCHANGED <<log, other, forked, kept, accepted, stale, torn>>, lookups' \in 0..MaxLookups,
         Busy(r) => InTree(r), ~forked => Shown(r, log)
  PROVE  Inv'
<1>1. client' \in [Clients -> Lookups] /\ Clientele' /\ Display'
  BY ClientStep
<1>2. Typed'
  <2>1. log' = log /\ other' = other /\ forked' = forked /\ kept' = kept /\ stale' = stale /\ torn' = torn
    OBVIOUS
  <2> QED
    BY <1>1, <2>1 DEF Inv, Typed
<1>3. Verified'
  <2>1. \A a \in accepted' : InTree(a)
    BY DEF Inv, Verified
  <2> QED
    BY <1>1, <2>1 DEF Clientele, Verified
<1>4. Honest'
  <2>1. log' = log /\ forked' = forked /\ kept' = kept
    OBVIOUS
  <2> QED
    BY <1>1, <2>1 DEF Inv, Honest, Display
<1>5. Kept' /\ Largest'
  BY DEF Inv, Kept, Largest
<1> QED
  BY <1>2, <1>3, <1>4, <1>5 DEF Inv

(* The tiles served are of the shape asked for, and an honest database has *)
(* one log to serve them from.                                             *)
LEMMA ServedTiles ==
  ASSUME NEW size, NEW tiles \in Served(size)
  PROVE  Shaped(tiles, size) /\ (~forked => tiles = TilesOf(log, size))
<1> DEFINE D == TileIds(size)
           Of(recs, t) == ServeTile(recs, t[1], t[2], TileWidth(size, t[1], t[2]))
<1>1. PICK from \in [D -> Histories] : tiles = [t \in D |-> Of(from[t], t)]
  BY DEF Served
<1>2. ASSUME NEW t \in D PROVE Row(tiles[t], TileWidth(size, t[1], t[2]))
  <2>1. tiles[t] = Of(from[t], t)
    BY <1>1
  <2> QED
    BY <2>1 DEF ServeTile, Row
<1>3. ASSUME ~forked PROVE tiles = TilesOf(log, size)
  <2>1. \A t \in D : from[t] = log
    BY <1>1, <1>3 DEF Histories
  <2> HIDE DEF D
  <2>2. tiles = [t \in D |-> Of(log, t)]
    <3> HIDE DEF Of
    <3> QED
      BY <1>1, <2>1, Zenon
  <2> QED
    BY <2>2 DEF TilesOf, D
<1>4. tiles = [t \in D |-> tiles[t]]
  <2> HIDE DEF D, Of
  <2> QED
    BY <1>1
<1> QED
  BY <1>2, <1>3, <1>4 DEF Shaped

(* The first half of a lookup.                                             *)
LEMMA LookupStep ==
  ASSUME Inv, NEW c \in Clients, Lookup(c)
  PROVE  Inv'
<1>1. UNCHANGED <<log, other, forked, kept, accepted, stale, torn>> /\ lookups' = lookups + 1 /\ lookups < MaxLookups
  BY DEF Lookup
<1>2. PICK version \in 1..MaxSize : \E a \in Answers(version) : \E tiles \in Served(Len(a.tree)) :
        client' = [client EXCEPT ![c] =
          IF VerifyInclusion(tiles, Len(a.tree), Root(a.tree), a.index, a.record)
          THEN [at |-> "verified", record |-> a.record, index |-> a.index, tree |-> a.tree, seen |-> NoFile]
          ELSE Refused]
  BY DEF Lookup
<1>3. PICK a, tiles, r :
        /\ a \in Answers(version) /\ tiles \in Served(Len(a.tree))
        /\ r = IF VerifyInclusion(tiles, Len(a.tree), Root(a.tree), a.index, a.record)
               THEN [at |-> "verified", record |-> a.record, index |-> a.index, tree |-> a.tree, seen |-> NoFile]
               ELSE Refused
        /\ client' = [client EXCEPT ![c] = r]
  BY <1>2
<1>4. /\ a.tree \in Trees /\ a.index \in Nat /\ a.record \in (0..MaxSize) \X (0..2)
      /\ ~forked => /\ Begins(a.tree, log) /\ a.record = <<version, 1>>
                    /\ a.index = version - 1 /\ version <= Len(a.tree)
  BY <1>3, AnswerTrees DEF Inv
<1>5. a.tree \in Logs /\ Len(a.tree) \in Nat /\ Len(a.tree) > 0
  BY <1>4, LogFacts DEF Trees
<1>6. lookups' \in 0..MaxLookups
  BY <1>1, DatabaseAssumption DEF Inv, Typed
<1>7. CASE VerifyInclusion(tiles, Len(a.tree), Root(a.tree), a.index, a.record)
  <2>1. a.index < Len(a.tree) /\ a.tree[a.index + 1] = a.record
    BY <1>4, <1>5, <1>7, InclusionSound
  <2>2. r = [at |-> "verified", record |-> a.record, index |-> a.index, tree |-> a.tree, seen |-> NoFile]
    BY <1>3, <1>7
  <2>3. NoFile \in Logs
    BY <1>5, NoFileBegins
  <2>4. r \in Lookups
    BY <1>4, <1>5, <2>2, <2>3 DEF Lookups
  <2>5. InTree(r)
    BY <1>4, <2>1, <2>2 DEF InTree
  <2>6. ~forked => Shown(r, log)
    BY <1>4, <2>2 DEF Shown
  <2> QED
    BY <1>1, <1>3, <1>6, <2>4, <2>5, <2>6, ClientOnly
<1>8. CASE ~VerifyInclusion(tiles, Len(a.tree), Root(a.tree), a.index, a.record)
  <2>1. r = Refused
    BY <1>3, <1>8
  <2>2. forked
    <3> SUFFICES ASSUME ~forked PROVE FALSE
      OBVIOUS
    <3>1. tiles = TilesOf(log, Len(a.tree))
      BY <1>3, ServedTiles
    <3>2. Len(log) \in Nat /\ \A i \in 1..Len(log) : log[i] = <<i, 1>>
      BY LogFacts DEF Inv, Typed, Trees, Honest
    <3>3. /\ Begins(a.tree, log) /\ a.record = <<version, 1>> /\ a.index = version - 1
          /\ version <= Len(a.tree) /\ version \in 1..Len(a.tree)
      BY <1>4, <1>5, DatabaseAssumption
    <3>4. a.tree[version] = a.record
      BY <1>5, <3>2, <3>3 DEF Begins
    <3>5. a.index < Len(a.tree) /\ a.index + 1 = version
      BY <1>4, <1>5, <3>3
    <3> QED
      BY <1>4, <1>5, <1>8, <3>1, <3>2, <3>3, <3>4, <3>5, InclusionComplete
  <2> QED
    BY <1>1, <1>3, <1>6, <2>1, <2>2, IdleFacts, ClientOnly
<1> QED
  BY <1>7, <1>8

LEMMA ReadSeenStep ==
  ASSUME Inv, NEW c \in Clients, ReadSeen(c)
  PROVE  Inv'
<1>1. /\ client[c].at = "verified" /\ client' = [client EXCEPT ![c].at = "read", ![c].seen = kept]
      /\ UNCHANGED <<log, other, forked, kept, accepted, lookups, stale, torn>>
  BY DEF ReadSeen
<1>2. PICK r : r = [client[c] EXCEPT !.at = "read", !.seen = kept]
  OBVIOUS
<1>3. client[c] \in Lookups /\ kept \in Logs /\ client \in [Clients -> Lookups] /\ lookups \in 0..MaxLookups
  BY DEF Inv, Typed
<1>4. client' = [client EXCEPT ![c] = r]
  BY <1>1, <1>2, <1>3
<1>5. r \in Lookups /\ r.at = "read" /\ r.tree = client[c].tree /\ r.index = client[c].index
      /\ r.record = client[c].record /\ r.seen = kept
  BY <1>2, <1>3 DEF Lookups
<1>6. InTree(r)
  <2>1. InTree(client[c])
    BY <1>1 DEF Inv, Verified, Busy
  <2> QED
    BY <1>5, <2>1 DEF InTree
<1>7. ~forked => Shown(r, log)
  <2>1. ~forked => Shown(client[c], log) /\ Begins(kept, log)
    BY DEF Inv, Honest
  <2> QED
    BY <1>1, <1>5, <2>1 DEF Shown, Busy
<1> QED
  BY <1>1, <1>3, <1>4, <1>5, <1>6, <1>7, ClientOnly

LEMMA AbandonStep ==
  ASSUME Inv, NEW c \in Clients, Abandon(c)
  PROVE  Inv'
<1>1. /\ client' = [client EXCEPT ![c] = Idle]
      /\ UNCHANGED <<log, other, forked, kept, accepted, lookups, stale, torn>>
  BY DEF Abandon
<1>2. lookups' \in 0..MaxLookups
  BY <1>1 DEF Inv, Typed
<1> QED
  BY <1>1, <1>2, IdleFacts, ClientOnly

(* What advance compares: the smaller tree begins the larger one.          *)
LEMMA ConsistentSound ==
  ASSUME NEW seen \in Trees, NEW new \in Trees, NEW tiles, Shaped(tiles, Larger(seen, new)),
         LevelsAgree(tiles), Consistent(tiles, seen, new)
  PROVE  IF Len(new) > Len(seen) THEN Begins(seen, new) ELSE Begins(new, seen)
<1>1. /\ Len(seen) \in Nat /\ Len(new) \in Nat
      /\ Len(seen) > 0 /\ Len(new) > 0
  BY LogFacts DEF Trees
<1>2. CASE Len(seen) <= Len(new)
  <2>1. VerifyConsistency(tiles, Len(seen), Root(seen), Len(new), Root(new))
    BY <1>2 DEF Consistent
  <2>3. Shaped(tiles, Len(new))
    BY <1>2 DEF Larger
  <2>2. Begins(seen, new)
    BY <1>1, <2>1, <2>3, ConsistencySound
  <2> QED
    BY <1>1, <1>2, <2>2 DEF Begins
<1>3. CASE ~(Len(seen) <= Len(new))
  <2>1. VerifyConsistency(tiles, Len(new), Root(new), Len(seen), Root(seen))
    BY <1>3 DEF Consistent
  <2>3. Shaped(tiles, Len(seen))
    BY <1>3 DEF Larger
  <2>2. Begins(new, seen)
    BY <1>1, <2>1, <2>3, ConsistencySound
  <2> QED
    BY <1>1, <1>3, <2>2
<1> QED
  BY <1>2, <1>3

LEMMA ConsistentComplete ==
  ASSUME NEW recs \in Logs, NEW seen \in Trees, NEW new \in Trees,
         Begins(seen, recs), Begins(new, recs), NEW tiles, tiles = TilesOf(recs, Larger(seen, new))
  PROVE  Consistent(tiles, seen, new)
<1>1. /\ Len(recs) \in Nat /\ Len(seen) \in Nat /\ Len(new) \in Nat
      /\ Len(seen) > 0 /\ Len(new) > 0
  BY LogFacts DEF Trees
<1>2. CASE Len(seen) <= Len(new)
  <2>1. VerifyConsistency(tiles, Len(seen), Root(seen), Len(new), Root(new))
    <3>1. tiles = TilesOf(recs, Len(new))
      BY <1>2 DEF Larger
    <3> QED
      BY <1>1, <1>2, <3>1, ConsistencyComplete
  <2> QED
    BY <1>2, <2>1 DEF Consistent
<1>3. CASE ~(Len(seen) <= Len(new))
  <2>1. Len(new) <= Len(seen)
    BY <1>1, <1>3
  <2>2. VerifyConsistency(tiles, Len(new), Root(new), Len(seen), Root(seen))
    <3>1. tiles = TilesOf(recs, Len(seen))
      BY <1>3 DEF Larger
    <3> QED
      BY <1>1, <2>1, <3>1, ConsistencyComplete
  <2> QED
    BY <1>3, <2>2 DEF Consistent
<1> QED
  BY <1>2, <1>3

(* The second half, when the checkpoints agree.                            *)
LEMMA KeepRight ==
  ASSUME Inv, NEW c \in Clients, client[c].at = "read",
         NEW new, new = client[c].tree, NEW seen, seen = client[c].seen,
         NEW tiles \in Served(Larger(seen, new)), seen = NoFile \/ Consistent(tiles, seen, new)
  PROVE  /\ new \in Trees /\ Keep(seen, new) \in Logs
         /\ ~forked => Begins(Keep(seen, new), log)
         /\ ~stale /\ ~torn /\ seen = kept /\ (seen = NoFile \/ LevelsAgree(tiles)) =>
              /\ Begins(new, Keep(seen, new))
              /\ \A a \in accepted : Begins(a.tree, Keep(seen, new))
         /\ ~stale /\ seen = kept => /\ Len(new) <= Len(Keep(seen, new))
                                     /\ \A a \in accepted : Len(a.tree) <= Len(Keep(seen, new))
<1>1. new \in Trees /\ new \in Logs /\ seen \in Logs /\ kept \in Logs
  <2>1. InTree(client[c])
    BY DEF Inv, Verified, Busy
  <2>2. client[c] \in Lookups /\ kept \in Logs
    BY DEF Inv, Typed
  <2> QED
    BY <2>1, <2>2 DEF InTree, Trees, Lookups
<1>2. Keep(seen, new) \in {new, kept}
  BY DEF Keep
<1>3. ~forked => Begins(Keep(seen, new), log)
  <2>1. ~forked => Begins(new, log) /\ Begins(kept, log)
    BY DEF Inv, Honest, Shown, Busy
  <2> QED
    BY <1>2, <2>1
<1>4. ASSUME ~stale, ~torn, seen = kept, seen = NoFile \/ LevelsAgree(tiles)
      PROVE  Begins(new, Keep(seen, new)) /\ \A a \in accepted : Begins(a.tree, Keep(seen, new))
  <2>1. \A a \in accepted : Begins(a.tree, kept) /\ a.tree \in Trees /\ a.tree \in Logs
    BY <1>4 DEF Inv, Kept, Verified, InTree, Trees
  <2>2. Begins(new, new)
    BY <1>1, LogFacts DEF Begins
  <2>3. CASE seen = NoFile
    <3>1. Keep(seen, new) = new
      BY <2>3 DEF Keep
    <3>2. ASSUME NEW a \in accepted PROVE FALSE
      <4>1. Len(a.tree) <= Len(NoFile) /\ Len(a.tree) \in Nat /\ Len(a.tree) > 0
        BY <1>4, <2>1, <2>3, LogFacts DEF Begins, Trees
      <4> QED
        BY <1>1, <4>1, NoFileBegins
    <3> QED
      BY <2>2, <3>1, <3>2
  <2>4. CASE seen # NoFile
    <3>1. seen \in Trees /\ Shaped(tiles, Larger(seen, new)) /\ LevelsAgree(tiles)
      BY <1>1, <1>4, <2>4, LogFacts, ServedTiles DEF Trees
    <3>2. IF Len(new) > Len(seen) THEN Begins(seen, new) ELSE Begins(new, seen)
      BY <1>1, <2>4, <3>1, ConsistentSound
    <3>3. CASE Len(new) > Len(seen)
      <4>1. Keep(seen, new) = new /\ Begins(kept, new)
        BY <1>4, <3>2, <3>3 DEF Keep
      <4> QED
        BY <1>1, <2>1, <2>2, <4>1, BeginsTwice
    <3>4. CASE ~(Len(new) > Len(seen))
      <4>1. Keep(seen, new) = kept /\ Begins(new, kept)
        BY <1>4, <2>4, <3>2, <3>4 DEF Keep
      <4> QED
        BY <2>1, <4>1
    <3> QED
      BY <3>3, <3>4
  <2> QED
    BY <2>3, <2>4
<1>5. ASSUME ~stale, seen = kept
      PROVE  Len(new) <= Len(Keep(seen, new)) /\ \A a \in accepted : Len(a.tree) <= Len(Keep(seen, new))
  <2>1. \A a \in accepted : Len(a.tree) <= Len(kept) /\ Len(a.tree) \in Nat
    BY <1>5, LogFacts DEF Inv, Largest, Verified, InTree, Trees
  <2>2. Len(new) \in Nat /\ Len(kept) \in Nat /\ (seen = NoFile => Len(kept) = 0)
    BY <1>1, <1>5, LogFacts
  <2> QED
    BY <1>5, <2>1, <2>2 DEF Keep
<1> QED
  BY <1>1, <1>2, <1>3, <1>4, <1>5

(* The second half, when they do not: the database has forked.             *)
LEMMA RefusedForked ==
  ASSUME Inv, NEW c \in Clients, client[c].at = "read",
         NEW tiles \in Served(Larger(client[c].seen, client[c].tree)),
         ~(client[c].seen = NoFile \/ Consistent(tiles, client[c].seen, client[c].tree))
  PROVE  forked
<1> SUFFICES ASSUME ~forked PROVE FALSE
  OBVIOUS
<1>1. PICK new, seen : new = client[c].tree /\ seen = client[c].seen
  OBVIOUS
<1>2. tiles = TilesOf(log, Larger(seen, new)) /\ log \in Logs
  BY <1>1, ServedTiles DEF Inv, Typed, Trees
<1>3. Begins(new, log) /\ Begins(seen, log)
  BY <1>1 DEF Inv, Honest, Shown, Busy
<1>4. new \in Trees
  BY <1>1 DEF Inv, Verified, Busy, InTree
<1>5. seen \in Logs
  BY <1>1 DEF Inv, Typed, Lookups
<1>6. seen \in Trees
  BY <1>1, <1>5, LogFacts DEF Trees
<1> QED
  BY <1>1, <1>2, <1>3, <1>4, <1>6, ConsistentComplete

LEMMA AdvanceStep ==
  ASSUME Inv, NEW c \in Clients, Advance(c)
  PROVE  Inv'
<1> DEFINE new == client[c].tree
           seen == client[c].seen
           entry == [record |-> client[c].record, index |-> client[c].index, tree |-> new]
<1>1. client[c].at = "read" /\ UNCHANGED <<log, other, forked, lookups>> /\ stale' = (stale \/ seen # kept)
  BY DEF Advance
<1>2. PICK tiles \in Served(Larger(seen, new)) :
        IF seen = NoFile \/ Consistent(tiles, seen, new)
        THEN /\ kept' = Keep(seen, new) /\ accepted' = accepted \cup {entry}
             /\ client' = [client EXCEPT ![c] = Idle]
             /\ torn' = (torn \/ (seen # NoFile /\ ~LevelsAgree(tiles)))
        ELSE client' = [client EXCEPT ![c] = Refused] /\ UNCHANGED <<kept, accepted, torn>>
  BY DEF Advance
<1>3. InTree(entry) /\ entry.tree = new
  <2>1. InTree(client[c])
    BY <1>1 DEF Inv, Verified, Busy
  <2> QED
    BY <2>1 DEF InTree
<1>4. stale \in BOOLEAN /\ torn \in BOOLEAN
  BY DEF Inv, Typed
<1>5. stale' \in BOOLEAN /\ (~stale' => ~stale /\ seen = kept)
  <2> HIDE DEF seen
  <2> QED
    BY <1>1, <1>4, Zenon
<1>6. CASE seen = NoFile \/ Consistent(tiles, seen, new)
  <2>1. /\ kept' = Keep(seen, new) /\ accepted' = accepted \cup {entry}
        /\ client' = [client EXCEPT ![c] = Idle]
        /\ torn' = (torn \/ (seen # NoFile /\ ~LevelsAgree(tiles)))
    BY <1>2, <1>6
  <2>8. torn' \in BOOLEAN /\ (~torn' => ~torn /\ (seen = NoFile \/ LevelsAgree(tiles)))
    <3> HIDE DEF seen
    <3> QED
      BY <1>4, <2>1, Zenon
  <2>2. client' \in [Clients -> Lookups] /\ Clientele' /\ Display'
    BY <1>1, <2>1, IdleFacts, ClientStep
  <2>3. /\ kept' \in Logs
        /\ ~forked => Begins(kept', log)
        /\ ~stale /\ ~torn /\ seen = kept /\ (seen = NoFile \/ LevelsAgree(tiles)) =>
             Begins(new, kept') /\ \A a \in accepted : Begins(a.tree, kept')
        /\ ~stale /\ seen = kept => Len(new) <= Len(kept') /\ \A a \in accepted : Len(a.tree) <= Len(kept')
    <3> HIDE DEF seen, new
    <3>1. new = client[c].tree /\ seen = client[c].seen
      BY DEF new, seen
    <3> QED
      BY <1>1, <1>6, <2>1, <3>1, KeepRight
  <2> HIDE DEF seen, new, entry
  <2>4. Typed'
    BY <1>1, <1>5, <2>2, <2>3, <2>8 DEF Inv, Typed
  <2>5. Verified'
    <3>1. \A a \in accepted' : InTree(a)
      BY <1>3, <2>1 DEF Inv, Verified
    <3> QED
      BY <2>2, <3>1 DEF Clientele, Verified
  <2>6. Honest'
    BY <1>1, <2>2, <2>3 DEF Inv, Honest, Display
  <2>7. Kept'
    BY <1>3, <1>5, <2>1, <2>3, <2>8 DEF Kept
  <2>9. Largest'
    BY <1>3, <1>5, <2>1, <2>3 DEF Largest
  <2> QED
    BY <2>4, <2>5, <2>6, <2>7, <2>9 DEF Inv
<1>7. CASE ~(seen = NoFile \/ Consistent(tiles, seen, new))
  <2>1. client' = [client EXCEPT ![c] = Refused] /\ UNCHANGED <<kept, accepted, torn>>
    BY <1>2, <1>7
  <2>2. forked
    BY <1>1, <1>7, RefusedForked
  <2>3. client' \in [Clients -> Lookups] /\ Clientele' /\ Display'
    BY <1>1, <2>1, <2>2, IdleFacts, ClientStep
  <2> HIDE DEF seen, new, entry
  <2>4. Typed'
    BY <1>1, <1>5, <2>1, <2>3 DEF Inv, Typed
  <2>5. Verified'
    BY <2>1, <2>3 DEF Inv, Clientele, Verified
  <2>6. Honest'
    BY <1>1, <2>1, <2>3 DEF Inv, Honest, Display
  <2>7. Kept' /\ Largest'
    BY <1>5, <2>1 DEF Inv, Kept, Largest
  <2> QED
    BY <2>4, <2>5, <2>6, <2>7 DEF Inv
<1> QED
  BY <1>6, <1>7

(* Everything together.                                                    *)
LEMMA NextStep == Inv /\ [Next]_vars => Inv'
<1> SUFFICES ASSUME Inv, [Next]_vars PROVE Inv'
  OBVIOUS
<1>1. CASE UNCHANGED vars
  BY <1>1 DEF vars, Inv, Typed, Verified, Honest, Kept, Largest
<1>2. CASE Ingest
  BY <1>2, IngestStep
<1>3. CASE Fork
  BY <1>3, ForkStep
<1>4. ASSUME NEW c \in Clients, Lookup(c) PROVE Inv'
  BY <1>4, LookupStep
<1>5. ASSUME NEW c \in Clients, ReadSeen(c) PROVE Inv'
  BY <1>5, ReadSeenStep
<1>6. ASSUME NEW c \in Clients, Advance(c) PROVE Inv'
  BY <1>6, AdvanceStep
<1>7. ASSUME NEW c \in Clients, Abandon(c) PROVE Inv'
  BY <1>7, AbandonStep
<1>8. CASE Finished
  BY <1>1, <1>8 DEF Finished
<1> QED
  BY <1>1, <1>2, <1>3, <1>4, <1>5, <1>6, <1>7, <1>8 DEF Next

LEMMA LogIsLog ==
  ASSUME NEW s \in Logs
  PROVE  IsLog(s)
BY LogFacts DEF IsLog

LEMMA InvAccepted == Inv => AcceptedInTree
<1> SUFFICES ASSUME Inv PROVE AcceptedInTree
  OBVIOUS
<1>1. IsLog(log) /\ IsLog(other) /\ IsLog(kept)
  BY LogIsLog DEF Inv, Typed, Trees
<1>2. ASSUME NEW c \in Clients
      PROVE  /\ client[c].at \in {"idle", "verified", "read", "refused"}
             /\ IsLog(client[c].tree) /\ IsLog(client[c].seen)
  <2>1. client[c] \in Lookups
    BY DEF Inv, Typed
  <2>2. /\ client[c].at \in {"idle", "verified", "read", "refused"}
        /\ client[c].tree \in Logs /\ client[c].seen \in Logs
    BY <2>1 DEF Lookups
  <2> QED
    BY <2>2, LogIsLog
<1>3. TypeOK
  BY <1>1, <1>2 DEF Inv, Typed, TypeOK
<1>4. \A a \in accepted : a.index < Len(a.tree) /\ a.tree[a.index + 1] = a.record
  BY DEF Inv, Verified, InTree
<1> QED
  BY <1>3, <1>4 DEF AcceptedInTree

LEMMA InvHonest == Inv => HonestNeverRefused
BY DEF Inv, Honest, Shown, HonestNeverRefused

LEMMA InvOneHistory == Inv => OneHistoryKept
<1> SUFFICES ASSUME Inv PROVE OneHistoryKept
  OBVIOUS
<1>1. kept \in Logs /\ Len(kept) \in Nat
  BY LogFacts DEF Inv, Typed
<1>2. ASSUME NEW a \in accepted
      PROVE  /\ Len(a.tree) \in Nat /\ DOMAIN a.tree = 1..Len(a.tree)
             /\ a.index + 1 \in 1..Len(a.tree) /\ a.tree[a.index + 1] = a.record
             /\ a.record[1] = a.index + 1
  <2>1. a.tree \in Logs /\ a.index \in Nat /\ a.index < Len(a.tree) /\ a.tree[a.index + 1] = a.record
    BY DEF Inv, Verified, InTree, Trees
  <2>2. Len(a.tree) \in Nat /\ DOMAIN a.tree = 1..Len(a.tree) /\ \A i \in 1..Len(a.tree) : a.tree[i][1] = i
    BY <2>1, LogFacts
  <2> QED
    BY <2>1, <2>2
<1>3. ASSUME ~stale, ~torn, NEW a \in accepted
      PROVE  Len(a.tree) <= Len(kept) /\ \A i \in 1..Len(a.tree) : a.tree[i] = kept[i]
  BY <1>3 DEF Inv, Kept, Begins
<1>4. OneHistory
  <2> SUFFICES ASSUME ~stale, ~torn, NEW a \in accepted, NEW b \in accepted
               PROVE  IsPrefixOf(a.tree, b.tree) \/ IsPrefixOf(b.tree, a.tree)
    BY DEF OneHistory
  <2>1. CASE Len(a.tree) <= Len(b.tree)
    <3>1. \A i \in DOMAIN a.tree : a.tree[i] = b.tree[i]
      BY <1>2, <1>3, <2>1, SMTT(30)
    <3> QED
      BY <2>1, <3>1 DEF IsPrefixOf
  <2>2. CASE ~(Len(a.tree) <= Len(b.tree))
    <3>1. Len(b.tree) <= Len(a.tree) /\ \A i \in DOMAIN b.tree : b.tree[i] = a.tree[i]
      BY <1>2, <1>3, <2>2, SMTT(30)
    <3> QED
      BY <3>1 DEF IsPrefixOf
  <2> QED
    BY <2>1, <2>2
<1>5. OneContentPerVersion
  <2> SUFFICES ASSUME ~stale, ~torn, NEW a \in accepted, NEW b \in accepted, a.record[1] = b.record[1]
               PROVE  a.record = b.record
    BY DEF OneContentPerVersion
  <2>1. a.index + 1 = b.index + 1
    BY <1>2
  <2>2. a.record = kept[a.index + 1] /\ b.record = kept[b.index + 1]
    BY <1>2, <1>3
  <2> QED
    BY <2>1, <2>2
<1>6. KeptIsLargest
  BY DEF Inv, Largest, KeptIsLargest
<1> QED
  BY <1>4, <1>5, <1>6 DEF OneHistoryKept

-----------------------------------------------------------------------------
(* The inductive invariant: what was verified is in its signed tree, an    *)
(* honest database shows only beginnings of its log, and what was trusted  *)
(* begins the checkpoint kept as long as no command overtook another.      *)
THEOREM LookupsInvariant == Spec => []Inv
<1>1. Init => Inv
  BY InitInv
<1>2. Inv /\ [Next]_vars => Inv'
  BY NextStep
<1> QED
  BY <1>1, <1>2, PTL DEF Spec

(* A record that lookup returns is in the tree that the database signed,   *)
(* at its index, whatever the database answered: for any tile height, any  *)
(* number of commands and of records.                                      *)
THEOREM TrustedIsInTree == Spec => []AcceptedInTree
BY LookupsInvariant, InvAccepted, PTL

(* No lookup or advance fails on a database that only appends to its log.  *)
THEOREM HonestIsTrusted == Spec => []HonestNeverRefused
BY LookupsInvariant, InvHonest, PTL

(* As long as no command overtakes another between advance's read and its  *)
(* write, the cache keeps the largest checkpoint; and as long as the tiles *)
(* of each check agree with each other, which nobody verifies, the trusted *)
(* trees are prefixes of one history and each version has one content.     *)
THEOREM HistoryIsOne == Spec => []OneHistoryKept
BY LookupsInvariant, InvOneHistory, PTL

(* What the run checks of the reader holds however large its trees are.    *)
THEOREM ReaderIsRight == Spec => []TilesGiveRoots
<1>1. TilesGiveRoots
  BY ReaderIsExact DEF TilesGiveRoots
<1> QED
  BY <1>1, PTL

(* A command that runs alone uses the checkpoint that it read.             *)
Alone == stale = FALSE /\ \A c \in Clients : client[c].at = "read" => client[c].seen = kept

LEMMA AloneStep ==
  ASSUME \A c \in Clients, d \in Clients : c = d, Inv, Alone, [Next]_vars
  PROVE  Alone'
<1>1. client \in [Clients -> Lookups]
  BY DEF Inv, Typed
<1>2. CASE UNCHANGED <<client, kept, stale>>
  BY <1>2 DEF Alone
<1>3. ASSUME NEW c \in Clients, NEW r, client' = [client EXCEPT ![c] = r],
             r.at # "read" \/ r.seen = kept', stale' = FALSE
      PROVE  Alone'
  <2>1. client'[c] = r /\ \A d \in Clients : d = c
    BY <1>1, <1>3
  <2> QED
    BY <1>3, <2>1 DEF Alone
<1>4. ASSUME NEW c \in Clients, Lookup(c) PROVE Alone'
  <2>1. stale' = stale /\ client'[c].at \in {"verified", "refused"}
    BY <1>1, <1>4 DEF Lookup, Refused, Idle
  <2> QED
    BY <2>1 DEF Alone
<1>5. ASSUME NEW c \in Clients, ReadSeen(c) PROVE Alone'
  <2>1. stale' = stale /\ kept' = kept /\ client' = [client EXCEPT ![c].at = "read", ![c].seen = kept]
    BY <1>5 DEF ReadSeen
  <2>2. client'[c].seen = kept'
    BY <1>1, <2>1 DEF Lookups
  <2> QED
    BY <2>1, <2>2 DEF Alone
<1>6. ASSUME NEW c \in Clients, Advance(c) PROVE Alone'
  <2>1. client[c].seen = kept /\ stale = FALSE
    BY <1>6 DEF Alone, Advance
  <2>2. stale' = (stale \/ client[c].seen # kept)
    BY <1>6 DEF Advance
  <2>3. stale' = FALSE
    BY <2>1, <2>2, Zenon
  <2>4. client' = [client EXCEPT ![c] = Idle] \/ client' = [client EXCEPT ![c] = Refused]
    BY <1>6 DEF Advance
  <2>5. Idle.at # "read" /\ Refused.at # "read"
    BY DEF Idle, Refused
  <2> QED
    BY <1>3, <2>3, <2>4, <2>5
<1>7. ASSUME NEW c \in Clients, Abandon(c) PROVE Alone'
  <2>1. client' = [client EXCEPT ![c] = Idle] /\ stale' = stale
    BY <1>7 DEF Abandon
  <2>2. Idle.at # "read"
    BY DEF Idle
  <2> QED
    BY <1>3, <2>1, <2>2 DEF Alone
<1> QED
  BY <1>2, <1>4, <1>5, <1>6, <1>7 DEF Next, vars, Ingest, Fork, Finished

(* With one command at a time nothing is overtaken: the file latest is the *)
(* largest checkpoint seen, whatever tiles the database serves (advance).  *)
THEOREM OneCommandKeepsTheLargest ==
  ASSUME \A c \in Clients, d \in Clients : c = d
  PROVE  Spec => []LargestSeen
<1>1. Init => Alone
  BY DEF Init, Alone, Idle
<1>2. Inv /\ Alone /\ [Next]_vars => Alone'
  BY AloneStep
<1>3. Alone /\ OneHistoryKept => LargestSeen
  BY DEF Alone, OneHistoryKept, KeptIsLargest, LargestSeen
<1> QED
  BY <1>1, <1>2, <1>3, LookupsInvariant, HistoryIsOne, PTL DEF Spec

-----------------------------------------------------------------------------
(* A tree with fewer leaves than a tile has no tile above another.         *)
LEMMA OneTile ==
  ASSUME NEW size \in Nat, size < TILE_WIDTH, NEW tiles, Shaped(tiles, size)
  PROVE  LevelsAgree(tiles)
<1> SUFFICES ASSUME NEW t \in TileIds(size), t[1] > 0 PROVE FALSE
  BY DEF LevelsAgree, Shaped
<1>1. t[1] \in Nat /\ t[2] \in Nat /\ TileWidth(size, t[1], t[2]) > 0
  <2>1. size \div TILE_HEIGHT \in Nat
    BY TileAssumption, Division
  <2> QED
    BY <2>1 DEF TileIds
<1>2. PICK l, S, j, width : /\ l = t[1] - 1 /\ S = Size(t[1]) /\ j = t[2] * TILE_WIDTH + (1 - 1)
                            /\ width = TileWidth(size, t[1], t[2])
  OBVIOUS
<1>3. l \in Nat /\ l + 1 = t[1]
  BY <1>1, <1>2
<1>4. S \in Nat /\ S > 0 /\ S = TILE_WIDTH * Size(l) /\ Size(l) \in Nat /\ Size(l) > 0 /\ TILE_WIDTH \in Nat
  BY <1>1, <1>2, <1>3, SizeFacts
<1>5. width \in Int
  <2>1. size \div S \in Nat /\ t[2] * TILE_WIDTH \in Nat
    BY <1>1, <1>4, Division
  <2> QED
    BY <1>2, <1>4, <2>1 DEF TileWidth, Least, Size
<1>6. 1 \in 1..width
  BY <1>1, <1>2, <1>5
<1>7. j \in Nat /\ Reaches(t[1], j, size)
  BY <1>2, <1>6, TileHolds
<1>8. (j + 1) * S <= size
  BY <1>2, <1>7 DEF Reaches
<1>9. 1 * S <= (j + 1) * S /\ (j + 1) * S \in Nat
  <2>1. j + 1 \in Nat /\ 1 <= j + 1
    BY <1>7
  <2> QED
    BY ONLY <1>4, <2>1, TimesLess
<1>10. 1 * TILE_WIDTH <= Size(l) * TILE_WIDTH /\ Size(l) * TILE_WIDTH = S
  <2>1. 1 <= Size(l)
    BY <1>4
  <2> QED
    BY ONLY <1>4, <2>1, TimesLess
<1> QED
  BY <1>4, <1>8, <1>9, <1>10

LEMMA UntornStep ==
  ASSUME MaxSize < TILE_WIDTH, Inv, torn = FALSE, [Next]_vars
  PROVE  torn' = FALSE
<1>1. ASSUME NEW c \in Clients, Advance(c) PROVE torn' = FALSE
  <2>1. PICK seen, new : seen = client[c].seen /\ new = client[c].tree
    OBVIOUS
  <2>2. PICK tiles \in Served(Larger(seen, new)) :
          torn' = (torn \/ (seen # NoFile /\ ~LevelsAgree(tiles))) \/ torn' = torn
    BY <1>1, <2>1 DEF Advance
  <2>3. seen \in Logs /\ new \in Logs
    BY <2>1 DEF Inv, Typed, Lookups
  <2>4. Larger(seen, new) \in Nat /\ Larger(seen, new) < TILE_WIDTH
    <3>1. Len(seen) \in Nat /\ Len(new) \in Nat /\ Len(seen) <= MaxSize /\ Len(new) <= MaxSize
      BY <2>3, LogFacts
    <3>2. TILE_WIDTH \in Nat /\ MaxSize \in Nat
      BY SizeFacts, DatabaseAssumption
    <3> QED
      BY ONLY <3>1, <3>2, MaxSize < TILE_WIDTH DEF Larger
  <2>5. LevelsAgree(tiles)
    BY <2>2, <2>4, ServedTiles, OneTile
  <2> QED
    BY <2>2, <2>5, Zenon
<1> QED
  BY <1>1 DEF Next, vars, Ingest, Fork, Lookup, ReadSeen, Abandon, Finished

(* A database that has not outgrown one tile, 256 records in the source,   *)
(* cannot show two histories to a command that is not overtaken, however   *)
(* it serves its tiles (verify_consistency, advance).                      *)
THEOREM OneTileCatchesForks ==
  ASSUME MaxSize < TILE_WIDTH
  PROVE  Spec => []ForkIsCaught
<1>1. Init => torn = FALSE
  BY DEF Init
<1>2. Inv /\ torn = FALSE /\ [Next]_vars => (torn = FALSE)'
  BY UntornStep
<1>3. torn = FALSE /\ OneHistoryKept => ForkIsCaught
  BY DEF OneHistoryKept, OneHistory, ForkIsCaught
<1> QED
  BY <1>1, <1>2, <1>3, LookupsInvariant, HistoryIsOne, PTL DEF Spec
=============================================================================
