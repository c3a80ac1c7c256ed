---------------------------- MODULE BuddyProofs ----------------------------
(***************************************************************************)
(* Proofs about the buddy allocator, for any number of pages and any order *)
(* of calls: it shares out its pages, free buddies have always been        *)
(* merged, and the words of stale pages never mislead it.                  *)
(***************************************************************************)
EXTENDS Buddy, TLAPS, FiniteSets, FiniteSetTheorems, WellFoundedInduction

(* A set of numbers has a least one.                                       *)
LEMMA LeastNumber ==
  ASSUME NEW T, T \subseteq Nat, T # {}
  PROVE  \E n \in T : \A m \in T : n <= m
<1> DEFINE R == OpToRel(<, Nat)
<1>1. IsWellFoundedOn(R, Nat)
  BY NatLessThanWellFounded
<1>2. \A a, b \in Nat : <<a, b>> \in R <=> a < b
  BY DEF OpToRel
<1> HIDE DEF R
<1>3. PICK n \in T : \A m \in T : ~ (<<m, n>> \in R)
  BY <1>1, WFMin
<1>4. ASSUME NEW m \in T PROVE n <= m
  <2>1. n \in Nat /\ m \in Nat /\ <<m, n>> \notin R
    BY <1>3
  <2>2. ~ (m < n)
    BY <1>2, <2>1
  <2> QED BY <2>1, <2>2
<1> QED BY <1>3, <1>4

-----------------------------------------------------------------------------
(* Powers of two.                                                          *)

(* The recursive definition up to n, and there is one such function.       *)
Doubled(f, k) == IF k = 0 THEN 1 ELSE 2 * f[k - 1]
Powers(f, n) == DOMAIN f = 0..n /\ \A k \in 0..n : f[k] = Doubled(f, k)

LEMMA PowersExist == \A n \in Nat : \E f : Powers(f, n)
<1> DEFINE T == {n \in Nat : ~ \E f : Powers(f, n)}
<1>1. SUFFICES ASSUME T # {} PROVE FALSE
  OBVIOUS
<1>2. PICK n \in T : \A m \in T : n <= m
  BY <1>1, LeastNumber
<1>3. CASE n = 0
  <2> DEFINE f == [k \in 0..0 |-> 1]
  <2>1. \A k \in 0..0 : k = 0
    OBVIOUS
  <2>2. Powers(f, 0)
    BY <2>1 DEF Powers, Doubled
  <2> QED BY <1>2, <1>3, <2>2
<1>4. CASE n # 0
  <2>1. n - 1 \in Nat /\ ~(n <= n - 1)
    BY <1>2, <1>4
  <2>2. PICK g : Powers(g, n - 1)
    BY <1>2, <2>1
  <2> DEFINE f == [k \in 0..n |-> IF k = n THEN Doubled(g, n) ELSE g[k]]
  <2>3. \A k \in 0..n : (k # 0 => k - 1 \in 0..n /\ k - 1 # n) /\ (k # n => k \in 0..(n - 1))
    BY <1>2
  <2>4. ASSUME NEW k \in 0..n PROVE f[k] = Doubled(f, k)
    <3>1. k # 0 => f[k - 1] = g[k - 1]
      BY <2>3
    <3>2. Doubled(f, k) = Doubled(g, k)
      <4> HIDE DEF f
      <4> QED BY <3>1 DEF Doubled
    <3>3. k # n => g[k] = Doubled(g, k)
      BY <2>2, <2>3 DEF Powers
    <3>4. f[k] = IF k = n THEN Doubled(g, n) ELSE g[k]
      OBVIOUS
    <3> HIDE DEF f
    <3> QED BY <3>2, <3>3, <3>4
  <2>5. DOMAIN f = 0..n
    OBVIOUS
  <2> HIDE DEF f
  <2>6. Powers(f, n)
    BY <2>4, <2>5 DEF Powers
  <2> QED BY <1>2, <2>6
<1> QED BY <1>3, <1>4

LEMMA PowersAgree ==
  ASSUME NEW n \in Nat, NEW m \in Nat, n <= m, NEW f, NEW g, Powers(f, n), Powers(g, m)
  PROVE  \A k \in 0..n : f[k] = g[k]
<1> DEFINE T == {k \in 0..n : f[k] # g[k]}
<1>1. SUFFICES ASSUME T # {} PROVE FALSE
  OBVIOUS
<1>2. T \subseteq Nat
  OBVIOUS
<1>3. PICK k \in T : \A i \in T : k <= i
  BY <1>1, <1>2, LeastNumber
<1>4. k \in 0..n /\ k \in 0..m /\ f[k] # g[k]
  BY <1>3
<1>5. f[k] = Doubled(f, k) /\ g[k] = Doubled(g, k)
  BY <1>4 DEF Powers
<1>6. CASE k = 0
  BY <1>4, <1>5, <1>6 DEF Doubled
<1>7. CASE k # 0
  <2>1. k - 1 \in 0..n /\ ~(k <= k - 1)
    BY <1>4, <1>7
  <2>2. f[k - 1] = g[k - 1]
    BY <1>3, <2>1
  <2> QED BY <1>4, <1>5, <1>7, <2>2 DEF Doubled
<1> QED BY <1>6, <1>7

LEMMA PowerSteps == Power[0] = 1 /\ \A n \in Nat : Power[n + 1] = 2 * Power[n]
<1> DEFINE F(n) == CHOOSE f : Powers(f, n)
           P == [n \in Nat |-> F(n)[n]]
           Made(p) == p = [order \in Nat |-> IF order = 0 THEN 1 ELSE 2 * p[order - 1]]
<1>1. \A n \in Nat : Powers(F(n), n)
  BY PowersExist
<1> HIDE DEF F
<1>2. ASSUME NEW n \in Nat PROVE P[n] = IF n = 0 THEN 1 ELSE 2 * P[n - 1]
  <2>1. P[n] = F(n)[n] /\ n \in 0..n
    OBVIOUS
  <2>2. F(n)[n] = Doubled(F(n), n)
    BY <1>1, <2>1 DEF Powers
  <2>3. CASE n = 0
    BY <2>1, <2>2, <2>3 DEF Doubled
  <2>4. CASE n # 0
    <3>1. n - 1 \in Nat /\ n - 1 <= n /\ n - 1 \in 0..(n - 1)
      BY <2>4
    <3>2. F(n - 1)[n - 1] = F(n)[n - 1]
      <4>1. Powers(F(n - 1), n - 1) /\ Powers(F(n), n)
        BY <1>1, <3>1
      <4> QED BY <3>1, <4>1, PowersAgree
    <3>3. P[n - 1] = F(n - 1)[n - 1]
      BY <3>1
    <3> HIDE DEF P
    <3> QED BY <2>1, <2>2, <2>4, <3>2, <3>3 DEF Doubled
  <2> QED BY <2>3, <2>4
<1>3. Made(P)
  <2> DEFINE Q == [order \in Nat |-> IF order = 0 THEN 1 ELSE 2 * P[order - 1]]
  <2>1. P = [n \in Nat |-> P[n]] /\ Q = [n \in Nat |-> Q[n]]
    OBVIOUS
  <2>2. \A n \in Nat : P[n] = Q[n]
    BY <1>2
  <2> HIDE DEF P
  <2>3. P = Q
    BY <2>1, <2>2
  <2> QED BY <2>3
<1>4. Made(Power)
  <2>1. Power = CHOOSE p : Made(p)
    BY DEF Power
  <2>2. \E p : Made(p)
    BY <1>3
  <2> HIDE DEF Made
  <2> QED BY <2>1, <2>2
<1>5. \A n \in Nat : Power[n] = IF n = 0 THEN 1 ELSE 2 * Power[n - 1]
  BY <1>4
<1>6. ASSUME NEW n \in Nat PROVE Power[n + 1] = 2 * Power[n]
  <2>1. n + 1 \in Nat /\ n + 1 # 0 /\ (n + 1) - 1 = n
    OBVIOUS
  <2> QED BY <1>5, <2>1
<1> QED BY <1>5, <1>6

LEMMA PowerType == \A n \in Nat : Power[n] \in Nat /\ n < Power[n]
<1> DEFINE T == {n \in Nat : ~(Power[n] \in Nat /\ n < Power[n])}
<1>1. SUFFICES ASSUME T # {} PROVE FALSE
  OBVIOUS
<1>2. PICK n \in T : \A i \in T : n <= i
  BY <1>1, LeastNumber
<1>3. n # 0
  BY <1>2, PowerSteps
<1>4. n - 1 \in Nat /\ ~(n <= n - 1) /\ (n - 1) + 1 = n
  BY <1>2, <1>3
<1>5. Power[n - 1] \in Nat /\ n - 1 < Power[n - 1]
  BY <1>2, <1>4
<1>6. Power[n] = 2 * Power[n - 1]
  BY <1>4, PowerSteps
<1> DEFINE p == Power[n - 1]
<1>7. p \in Nat /\ n - 1 < p /\ Power[n] = 2 * p
  BY <1>5, <1>6
<1> HIDE DEF p
<1>8. Power[n] \in Nat /\ n < Power[n]
  BY <1>2, <1>3, <1>7
<1> QED BY <1>2, <1>8

(* A larger power is a multiple of a smaller one.                          *)
LEMMA PowerDivides ==
  ASSUME NEW n \in Nat, NEW m \in Nat, n <= m
  PROVE  \E k \in Nat : k >= 1 /\ Power[m] = k * Power[n]
<1> DEFINE Divides(i) == \E k \in Nat : k >= 1 /\ Power[i] = k * Power[n]
           T == {i \in n..m : ~Divides(i)}
<1>1. SUFFICES ASSUME T # {} PROVE FALSE
  <2>1. m \in n..m
    OBVIOUS
  <2> QED BY <1>1, <2>1
<1>2. T \subseteq Nat
  OBVIOUS
<1>3. PICK i \in T : \A h \in T : i <= h
  BY <1>1, <1>2, LeastNumber
<1>4. i \in n..m /\ i \in Nat /\ ~Divides(i)
  BY <1>2, <1>3
<1>5. i # n
  <2>1. Power[n] \in Nat
    BY PowerType
  <2>2. 1 \in Nat /\ 1 >= 1 /\ Power[n] = 1 * Power[n]
    BY <2>1
  <2> QED BY <1>4, <2>2
<1>6. i - 1 \in n..m /\ ~(i <= i - 1) /\ i - 1 \in Nat /\ (i - 1) + 1 = i
  BY <1>4, <1>5
<1>7. PICK k \in Nat : k >= 1 /\ Power[i - 1] = k * Power[n]
  BY <1>3, <1>6
<1>8. Power[i] = 2 * Power[i - 1] /\ Power[n] \in Nat
  BY <1>6, PowerSteps, PowerType
<1>9. 2 * k \in Nat /\ 2 * k >= 1 /\ 2 * (k * Power[n]) = (2 * k) * Power[n]
  BY <1>7, <1>8
<1>10. Power[i] = (2 * k) * Power[n]
  BY <1>7, <1>8, <1>9
<1> QED BY <1>4, <1>9, <1>10

-----------------------------------------------------------------------------
(* Multiples.                                                              *)

LEMMA ProductGrows ==
  ASSUME NEW a \in Int, NEW b \in Int, NEW s \in Nat, s >= 1
  PROVE  /\ a * s \in Int /\ b * s \in Int
         /\ (a + 1) * s = a * s + s
         /\ a <= b => a * s <= b * s
         /\ a * s < b * s => a < b
<1>1. a * s \in Int /\ b * s \in Int /\ (a + 1) * s = a * s + s
  OBVIOUS
<1>2. a <= b => a * s <= b * s
  OBVIOUS
<1>3. b <= a => b * s <= a * s
  OBVIOUS
<1> QED BY <1>1, <1>2, <1>3

LEMMA MultipleOf ==
  ASSUME NEW s \in Nat, s >= 1, NEW k \in Nat
  PROVE  (k * s) % s = 0 /\ (k * s) \div s = k
<1> DEFINE p == k * s
           q == p \div s
           r == p % s
<1>1. p \in Nat
  OBVIOUS
<1> HIDE DEF p
<1>2. q \in Int /\ r \in Nat /\ 0 <= r /\ r < s /\ r = p - s * q
  BY <1>1
<1> HIDE DEF q, r
<1>3. s * q = q * s
  BY <1>2
<1>4. p = q * s + r
  BY <1>1, <1>2, <1>3
<1>5. q * s <= k * s /\ k * s < (q + 1) * s
  BY <1>2, <1>4, ProductGrows DEF p
<1>6. q <= k /\ k < q + 1
  <2>1. k < q => k + 1 <= q
    BY <1>2
  <2>2. k + 1 <= q => (k + 1) * s <= q * s
    BY <1>2, ProductGrows
  <2>3. (k + 1) * s = k * s + s
    BY ProductGrows
  <2>4. ~(k + 1 <= q)
    BY <1>2, <1>5, <2>2, <2>3, ProductGrows
  <2>5. k < q + 1
    BY <1>2, <1>5, ProductGrows
  <2> QED BY <1>2, <2>4, <2>5
<1>7. q = k
  BY <1>2, <1>6
<1>8. r = 0
  BY <1>1, <1>2, <1>4, <1>7 DEF p
<1> QED BY <1>7, <1>8 DEF p, q, r

LEMMA IsMultiple ==
  ASSUME NEW s \in Nat, s >= 1, NEW p \in Nat, p % s = 0
  PROVE  \E k \in Nat : p = k * s /\ p \div s = k
<1> DEFINE q == p \div s
<1>1. q \in Nat /\ p % s = p - s * q
  OBVIOUS
<1> HIDE DEF q
<1>2. s * q = q * s
  BY <1>1
<1>3. p = q * s
  BY <1>1, <1>2
<1> QED BY <1>1, <1>3 DEF q

-----------------------------------------------------------------------------
(* Blocks.  All of them begin at a multiple of their size, so that of two  *)
(* that share a page one lies in the other.                                *)

Aligned(page, order) == page % Power[order] = 0

(* An aligned page is a multiple of the size of every smaller block too.   *)
LEMMA AlignedMultiple ==
  ASSUME NEW o \in Nat, NEW c \in Nat, o <= c, NEW p \in Nat, Aligned(p, c)
  PROVE  \E j \in Nat : \E k \in Nat :
           p = j * Power[o] /\ p + Power[c] = (j + k) * Power[o]
<1>1. Power[o] \in Nat /\ Power[o] >= 1 /\ Power[c] \in Nat /\ Power[c] >= 1
  BY PowerType
<1>2. PICK k \in Nat : k >= 1 /\ Power[c] = k * Power[o]
  BY PowerDivides
<1>3. PICK i \in Nat : p = i * Power[c]
  BY <1>1, IsMultiple DEF Aligned
<1> DEFINE s == Power[o]
           t == Power[c]
           j == i * k
<1>4. s \in Nat /\ t = k * s /\ p = i * t
  BY <1>1, <1>2, <1>3
<1> HIDE DEF s, t
<1>5. j \in Nat /\ i * (k * s) = j * s
  BY <1>4
<1> HIDE DEF j
<1>6. p = j * s
  BY <1>4, <1>5
<1>7. (j + k) * s = j * s + k * s
  BY <1>4, <1>5
<1>8. p + t = (j + k) * s
  BY <1>4, <1>6, <1>7
<1> QED BY <1>2, <1>5, <1>6, <1>8 DEF s, t

LEMMA AlignedSmaller ==
  ASSUME NEW o \in Nat, NEW c \in Nat, o <= c, NEW p \in Nat, Aligned(p, c)
  PROVE  Aligned(p, o)
<1>1. PICK j \in Nat : p = j * Power[o]
  BY AlignedMultiple
<1>2. Power[o] \in Nat /\ Power[o] >= 1
  BY PowerType
<1> QED BY <1>1, <1>2, MultipleOf DEF Aligned

LEMMA Nested ==
  ASSUME NEW o \in Nat, NEW c \in Nat, o <= c, NEW p \in Nat, NEW q \in Nat,
         Aligned(p, o), Aligned(q, c),
         NEW x, x \in Run(p, o), x \in Run(q, c)
  PROVE  /\ q <= p /\ p + Power[o] <= q + Power[c]
         /\ Run(p, o) \subseteq Run(q, c)
<1>1. Power[o] \in Nat /\ Power[o] >= 1 /\ Power[c] \in Nat /\ Power[c] >= 1
  BY PowerType
<1>2. PICK i \in Nat : p = i * Power[o]
  BY <1>1, IsMultiple DEF Aligned
<1>3. PICK j \in Nat : \E k \in Nat :
             q = j * Power[o] /\ q + Power[c] = (j + k) * Power[o]
  BY AlignedMultiple, Zenon
<1>3a. PICK k \in Nat : q + Power[c] = (j + k) * Power[o]
  BY <1>3
<1> DEFINE s == Power[o]
           t == Power[c]
<1>4. /\ s \in Nat /\ s >= 1 /\ t \in Nat
      /\ p = i * s /\ q = j * s /\ q + t = (j + k) * s
  BY <1>1, <1>2, <1>3, <1>3a
<1>5. x \in Int /\ p <= x /\ x < p + s /\ q <= x /\ x < q + t
  BY <1>1 DEF Run
<1> HIDE DEF s, t
<1>6. (i + 1) * s = i * s + s
  BY <1>4
<1>7. j * s < (i + 1) * s /\ i * s < (j + k) * s
  BY <1>4, <1>5, <1>6
<1>8. j < i + 1 /\ i < j + k
  <2>1. j \in Int /\ i + 1 \in Int /\ i \in Int /\ j + k \in Int
    OBVIOUS
  <2> QED BY <1>4, <1>7, <2>1, ProductGrows
<1>9. j * s <= i * s /\ (i + 1) * s <= (j + k) * s
  <2>1. j <= i /\ i + 1 <= j + k /\ j + k \in Int /\ i + 1 \in Int
    BY <1>8
  <2> QED BY <1>4, <2>1, ProductGrows
<1>10. q <= p /\ p + s <= q + t
  BY <1>4, <1>6, <1>9
<1>11. Run(p, o) \subseteq Run(q, c)
  BY <1>4, <1>10 DEF Run, s, t
<1> QED BY <1>10, <1>11 DEF s, t

(* The two halves of a block are buddies.                                  *)
LEMMA Halves ==
  ASSUME NEW o \in Nat, NEW p \in Nat, Aligned(p, o + 1)
  PROVE  /\ Aligned(p, o) /\ Aligned(p + Power[o], o) /\ p + Power[o] \in Nat
         /\ BuddyOf(p, o) = p + Power[o] /\ BuddyOf(p + Power[o], o) = p
         /\ Run(p, o + 1) = Run(p, o) \union Run(p + Power[o], o)
         /\ Run(p, o) \cap Run(p + Power[o], o) = {}
<1> DEFINE s == Power[o]
<1>1. s \in Nat /\ s >= 1 /\ Power[o + 1] = 2 * s
  BY PowerType, PowerSteps
<1>2. Power[o + 1] \in Nat /\ Power[o + 1] >= 1
  BY PowerType
<1>3. PICK k \in Nat : p = k * Power[o + 1]
  BY <1>2, IsMultiple DEF Aligned
<1> HIDE DEF s
<1>4. p = (2 * k) * s /\ p + s = (2 * k + 1) * s
  BY <1>1, <1>3
<1>5. p % s = 0 /\ p \div s = 2 * k
  BY <1>1, <1>4, MultipleOf
<1>6. (p + s) % s = 0 /\ (p + s) \div s = 2 * k + 1
  <2>1. 2 * k + 1 \in Nat
    OBVIOUS
  <2> QED BY <1>1, <1>4, <2>1, MultipleOf
<1>7. (2 * k) % 2 = 0 /\ (2 * k + 1) % 2 = 1
  OBVIOUS
<1>8. BuddyOf(p, o) = p + s /\ BuddyOf(p + s, o) = p
  <2>1. (p + s) - s = p
    BY <1>1
  <2> QED BY <1>5, <1>6, <1>7, <2>1 DEF BuddyOf, s
<1>9. /\ Run(p, o + 1) = Run(p, o) \union Run(p + s, o)
      /\ Run(p, o) \cap Run(p + s, o) = {}
  <2>1. Run(p, o + 1) = p..(p + 2 * s - 1) /\ Run(p, o) = p..(p + s - 1)
    BY <1>1 DEF Run, s
  <2>2. Run(p + s, o) = (p + s)..((p + s) + s - 1)
    BY DEF Run, s
  <2> QED BY <1>1, <2>1, <2>2
<1> QED BY <1>1, <1>5, <1>6, <1>8, <1>9 DEF Aligned, s

(* A block is one of the halves of the block that it makes with its buddy. *)
LEMMA Whole ==
  ASSUME NEW o \in Nat, NEW p \in Nat, Aligned(p, o)
  PROVE  \E w \in Nat :
           /\ Aligned(w, o + 1)
           /\ \/ p = w /\ BuddyOf(p, o) = w + Power[o]
              \/ p = w + Power[o] /\ BuddyOf(p, o) = w
<1> DEFINE s == Power[o]
<1>1. s \in Nat /\ s >= 1 /\ Power[o + 1] = 2 * s
  BY PowerType, PowerSteps
<1>2. PICK k \in Nat : p = k * s /\ p \div s = k
  BY <1>1, IsMultiple DEF Aligned, s
<1> DEFINE h == k \div 2
<1>3. h \in Nat /\ (k = 2 * h \/ k = 2 * h + 1) /\ (k % 2 = 0 <=> k = 2 * h)
  OBVIOUS
<1> HIDE DEF s, h
<1> DEFINE w == h * (2 * s)
<1>4. w \in Nat
  BY <1>1, <1>3
<1>5. Aligned(w, o + 1)
  <2>1. 2 * s \in Nat /\ 2 * s >= 1
    BY <1>1
  <2> QED BY <1>1, <1>3, <2>1, MultipleOf DEF Aligned
<1>6. (2 * h) * s = w /\ (2 * h + 1) * s = w + s
  BY <1>1, <1>3
<1> HIDE DEF w
<1>7. CASE k = 2 * h
  <2>1. p = w
    BY <1>2, <1>6, <1>7
  <2>2. BuddyOf(p, o) = p + s
    BY <1>2, <1>3, <1>7 DEF BuddyOf, s
  <2> QED BY <1>4, <1>5, <2>1, <2>2 DEF s
<1>8. CASE k # 2 * h
  <2>1. p = w + s
    BY <1>2, <1>3, <1>6, <1>8
  <2>2. BuddyOf(p, o) = p - s
    BY <1>2, <1>3, <1>8 DEF BuddyOf, s
  <2>3. BuddyOf(p, o) = w
    BY <1>1, <1>4, <2>1, <2>2
  <2> QED BY <1>4, <1>5, <2>1, <2>3 DEF s
<1> QED BY <1>7, <1>8

(* What is used of buddies.                                                *)
LEMMA Buddies ==
  ASSUME NEW o \in Nat, NEW p \in Nat, Aligned(p, o)
  PROVE  /\ BuddyOf(p, o) \in Nat /\ BuddyOf(p, o) # p
         /\ Aligned(BuddyOf(p, o), o) /\ BuddyOf(BuddyOf(p, o), o) = p
         /\ LET w == IF BuddyOf(p, o) < p THEN BuddyOf(p, o) ELSE p
            IN  /\ w \in Nat /\ Aligned(w, o + 1)
                /\ Run(w, o + 1) = Run(p, o) \union Run(BuddyOf(p, o), o)
<1>1. PICK v \in Nat : /\ Aligned(v, o + 1)
                       /\ \/ p = v /\ BuddyOf(p, o) = v + Power[o]
                          \/ p = v + Power[o] /\ BuddyOf(p, o) = v
  BY Whole
<1> DEFINE d == BuddyOf(p, o)
           s == Power[o]
<1>2. s \in Nat /\ s >= 1
  BY PowerType
<1>3. /\ Aligned(v, o) /\ Aligned(v + s, o) /\ v + s \in Nat
      /\ BuddyOf(v, o) = v + s /\ BuddyOf(v + s, o) = v
      /\ Run(v, o + 1) = Run(v, o) \union Run(v + s, o)
  BY <1>1, Halves
<1>4. (p = v /\ d = v + s) \/ (p = v + s /\ d = v)
  BY <1>1
<1> HIDE DEF s
<1>5. d \in Nat /\ d # p /\ Aligned(d, o) /\ BuddyOf(d, o) = p
  BY <1>2, <1>3, <1>4
<1>6. (IF d < p THEN d ELSE p) = v
  BY <1>2, <1>4
<1>7. Run(v, o + 1) = Run(p, o) \union Run(d, o)
  BY <1>3, <1>4
<1> QED BY <1>1, <1>5, <1>6, <1>7

-----------------------------------------------------------------------------
(* One free list: its pages are S, h is the first one, nx and pv are the   *)
(* words.  Going along the list the rank grows, so that it ends.           *)
Chain(S, h, nx, pv, rank) ==
  /\ h = Empty => S = {}
  /\ h # Empty => h \in S /\ pv[h] = h
  /\ \A p \in S :
       /\ nx[p] \in S /\ pv[p] \in S
       /\ nx[p] # p => pv[nx[p]] = p /\ rank[p] < rank[nx[p]]
       /\ p # h => pv[p] # p /\ nx[pv[p]] = p

(* A write to one place.                                                   *)
Put(f, i, v) == [f EXCEPT ![i] = v]

(* A page without predecessor is the first one.                            *)
LEMMA ChainHead ==
  ASSUME NEW S, NEW h, NEW nx, NEW pv, NEW rank, Chain(S, h, nx, pv, rank),
         NEW x \in S
  PROVE  pv[x] = x <=> x = h
BY DEF Chain

(* A list whose first page is its last has no other.                       *)
LEMMA ChainSingle ==
  ASSUME NEW D, D \subseteq Nat, NEW S, S \subseteq D, NEW h, NEW nx, NEW pv,
         NEW rank \in [D -> Nat], Chain(S, h, nx, pv, rank),
         h \in S, nx[h] = h
  PROVE  S = {h}
<1> DEFINE T == {rank[p] : p \in S \ {h}}
<1>1. SUFFICES ASSUME S \ {h} # {} PROVE FALSE
  OBVIOUS
<1>2. T \subseteq Nat /\ T # {}
  BY <1>1
<1>3. PICK n \in T : \A m \in T : n <= m
  BY <1>2, LeastNumber
<1>4. PICK q \in S \ {h} : n = rank[q]
  OBVIOUS
<1>5. pv[q] \in S /\ pv[q] # q /\ nx[pv[q]] = q
  BY DEF Chain
<1>6. pv[q] # h
  BY <1>5
<1>7. rank[pv[q]] < rank[q]
  BY <1>5 DEF Chain
<1>8. rank[pv[q]] \in T
  BY <1>5, <1>6
<1>9. n <= rank[pv[q]] /\ rank[pv[q]] \in Nat /\ n \in Nat
  BY <1>2, <1>3, <1>8
<1> QED BY <1>4, <1>7, <1>9

(* The four ways to take a page out of its list.                           *)
LEMMA ChainRemoveHead ==
  ASSUME NEW D, D \subseteq Nat, NEW S, S \subseteq D, NEW h,
         NEW nx \in [D -> D], NEW pv \in [D -> D],
         NEW rank \in [D -> Nat], Chain(S, h, nx, pv, rank),
         NEW x \in S, pv[x] = x, nx[x] # x
  PROVE  Chain(S \ {x}, nx[x], nx, Put(pv, nx[x], nx[x]), rank)
<1> DEFINE n == nx[x]
           pw == Put(pv, n, n)
<1>1. x = h /\ n \in S \ {x} /\ n \in D /\ pv[n] = x
  BY DEF Chain
<1>2. pw[n] = n /\ \A p \in S : p # n => pw[p] = pv[p]
  BY <1>1 DEF Put
<1>3. n # Empty
  BY <1>1 DEF Empty
<1> HIDE DEF pw
<1>4. ASSUME NEW p \in S \ {x}
      PROVE  /\ nx[p] \in S \ {x} /\ pw[p] \in S \ {x}
             /\ nx[p] # p => pw[nx[p]] = p /\ rank[p] < rank[nx[p]]
             /\ p # n => pw[p] # p /\ nx[pw[p]] = p
  <2>1. nx[p] \in S /\ pv[p] \in S /\ (nx[p] # p => pv[nx[p]] = p /\ rank[p] < rank[nx[p]])
    BY DEF Chain
  <2>2. pv[p] # p /\ nx[pv[p]] = p
    BY <1>1 DEF Chain
  <2>3. nx[p] # x
    BY <2>1, <1>4
  <2>4. pw[p] \in S \ {x}
    BY <1>1, <1>2, <2>1, <2>2
  <2>5. nx[p] # p => pw[nx[p]] = p
    BY <1>1, <1>2, <2>1
  <2>6. p # n => pw[p] # p /\ nx[pw[p]] = p
    BY <1>2, <2>2
  <2> QED BY <2>1, <2>3, <2>4, <2>5, <2>6
<1>5. Chain(S \ {x}, n, nx, pw, rank)
  BY <1>1, <1>2, <1>3, <1>4 DEF Chain
<1> QED BY <1>5 DEF pw

LEMMA ChainRemoveTail ==
  ASSUME NEW D, D \subseteq Nat, NEW S, S \subseteq D, NEW h,
         NEW nx \in [D -> D], NEW pv \in [D -> D],
         NEW rank \in [D -> Nat], Chain(S, h, nx, pv, rank),
         NEW x \in S, pv[x] # x, nx[x] = x
  PROVE  Chain(S \ {x}, h, Put(nx, pv[x], pv[x]), pv, rank)
<1> DEFINE r == pv[x]
           nw == Put(nx, r, r)
<1>1. x # h /\ r \in S \ {x} /\ r \in D /\ nx[r] = x
  BY DEF Chain
<1>2. nw[r] = r /\ \A p \in S : p # r => nw[p] = nx[p]
  BY <1>1 DEF Put
<1>3. h # Empty /\ h \in S \ {x} /\ pv[h] = h
  BY <1>1 DEF Chain
<1> HIDE DEF nw
<1>4. ASSUME NEW p \in S \ {x}
      PROVE  /\ nw[p] \in S \ {x} /\ pv[p] \in S \ {x}
             /\ nw[p] # p => pv[nw[p]] = p /\ rank[p] < rank[nw[p]]
             /\ p # h => pv[p] # p /\ nw[pv[p]] = p
  <2>1. nx[p] \in S /\ pv[p] \in S /\ (nx[p] # p => pv[nx[p]] = p /\ rank[p] < rank[nx[p]])
    BY DEF Chain
  <2>2. p # h => pv[p] # p /\ nx[pv[p]] = p
    BY DEF Chain
  <2>3. pv[p] # x
    BY <2>2, <1>3
  <2>4. nw[p] \in S \ {x}
    BY <1>1, <1>2, <2>1
  <2>5. nw[p] # p => pv[nw[p]] = p /\ rank[p] < rank[nw[p]]
    BY <1>2, <2>1
  <2>6. p # h => nw[pv[p]] = p
    BY <1>1, <1>2, <2>1, <2>2
  <2> QED BY <2>1, <2>2, <2>3, <2>4, <2>5, <2>6
<1>5. Chain(S \ {x}, h, nw, pv, rank)
  BY <1>3, <1>4 DEF Chain
<1> QED BY <1>5 DEF nw

LEMMA ChainRemoveMiddle ==
  ASSUME NEW D, D \subseteq Nat, NEW S, S \subseteq D, NEW h,
         NEW nx \in [D -> D], NEW pv \in [D -> D],
         NEW rank \in [D -> Nat], Chain(S, h, nx, pv, rank),
         NEW x \in S, pv[x] # x, nx[x] # x
  PROVE  Chain(S \ {x}, h, Put(nx, pv[x], nx[x]), Put(pv, nx[x], pv[x]), rank)
<1> DEFINE r == pv[x]
           n == nx[x]
           nw == Put(nx, r, n)
           pw == Put(pv, n, r)
<1>1. /\ x # h /\ r \in S \ {x} /\ r \in D /\ nx[r] = x
      /\ n \in S \ {x} /\ n \in D /\ pv[n] = x
  BY DEF Chain
<1>2. nw[r] = n /\ \A p \in S : p # r => nw[p] = nx[p]
  BY <1>1 DEF Put
<1>3. pw[n] = r /\ \A p \in S : p # n => pw[p] = pv[p]
  BY <1>1 DEF Put
<1>4. h # Empty /\ h \in S \ {x} /\ pv[h] = h /\ n # h
  BY <1>1 DEF Chain
<1>5. rank[r] < rank[n] /\ n # r
  <2>1. rank[r] < rank[x] /\ rank[x] < rank[n]
    BY <1>1 DEF Chain
  <2>2. rank[r] \in Nat /\ rank[x] \in Nat /\ rank[n] \in Nat
    BY <1>1
  <2> QED BY <2>1, <2>2
<1> HIDE DEF nw, pw
<1>6. ASSUME NEW p \in S \ {x}
      PROVE  /\ nw[p] \in S \ {x} /\ pw[p] \in S \ {x}
             /\ nw[p] # p => pw[nw[p]] = p /\ rank[p] < rank[nw[p]]
             /\ p # h => pw[p] # p /\ nw[pw[p]] = p
  <2>1. nx[p] \in S /\ pv[p] \in S /\ (nx[p] # p => pv[nx[p]] = p /\ rank[p] < rank[nx[p]])
    BY DEF Chain
  <2>2. p # h => pv[p] # p /\ nx[pv[p]] = p
    BY DEF Chain
  <2>3. nw[p] \in S \ {x}
    BY <1>1, <1>2, <2>1
  <2>4. pw[p] \in S \ {x}
    <3>1. p # n => pv[p] # x
      BY <1>4, <2>2
    <3> QED BY <1>1, <1>3, <2>1, <3>1
  <2>5. nw[p] # p => pw[nw[p]] = p /\ rank[p] < rank[nw[p]]
    <3>1. CASE p = r
      BY <1>2, <1>3, <1>5, <3>1
    <3>2. CASE p # r
      <4>1. nw[p] = nx[p] /\ (nx[p] = n => nx[p] = p)
        BY <1>1, <1>2, <2>1, <3>2
      <4> QED BY <1>3, <2>1, <4>1
    <3> QED BY <3>1, <3>2
  <2>6. p # h => pw[p] # p /\ nw[pw[p]] = p
    <3>1. CASE p = n
      BY <1>2, <1>3, <1>5, <3>1
    <3>2. CASE p # n
      <4>1. pw[p] = pv[p] /\ (p # h => pv[p] # r)
        BY <1>1, <1>3, <2>2, <3>2
      <4> QED BY <1>2, <2>1, <2>2, <4>1
    <3> QED BY <3>1, <3>2
  <2> QED BY <2>3, <2>4, <2>5, <2>6
<1>7. Chain(S \ {x}, h, nw, pw, rank)
  BY <1>3, <1>4, <1>6 DEF Chain
<1> QED BY <1>7 DEF nw, pw

(* A list that has none of the changed pages stays one.                    *)
LEMMA ChainElsewhere ==
  ASSUME NEW S, NEW h, NEW nx, NEW pv, NEW rank, Chain(S, h, nx, pv, rank),
         NEW nw, NEW pw, NEW order,
         \A p \in S : nw[p] = nx[p] /\ pw[p] = pv[p],
         \A p, q \in S : rank[p] < rank[q] => order[p] < order[q]
  PROVE  Chain(S, h, nw, pw, order)
BY DEF Chain

(* A page put in front.                                                    *)
InFront(S, h, nx, pv, rank, x, nw, pw, order) ==
  /\ nw[x] = (IF h = Empty THEN x ELSE h) /\ pw[x] = x
  /\ h # Empty => pw[h] = x
  /\ \A p \in S : nw[p] = nx[p] /\ (p # h => pw[p] = pv[p])
  /\ \A p \in S : order[x] < order[p]
  /\ \A p, q \in S : rank[p] < rank[q] => order[p] < order[q]

LEMMA ChainAdd ==
  ASSUME NEW D, D \subseteq Nat, NEW S, S \subseteq D, NEW h,
         NEW nx \in [D -> D], NEW pv \in [D -> D],
         NEW rank \in [D -> Nat], Chain(S, h, nx, pv, rank),
         NEW x \in D, x \notin S, NEW nw, NEW pw, NEW order,
         InFront(S, h, nx, pv, rank, x, nw, pw, order)
  PROVE  Chain(S \union {x}, x, nw, pw, order)
<1>1. x # Empty
  BY DEF Empty
<1>2. nw[x] \in S \union {x} /\ pw[x] \in S \union {x}
  BY DEF Chain, InFront
<1>3. nw[x] # x => pw[nw[x]] = x /\ order[x] < order[nw[x]]
  BY DEF Chain, InFront
<1>4. ASSUME NEW p \in S
      PROVE  /\ nw[p] \in S /\ pw[p] \in S \union {x}
             /\ nw[p] # p => pw[nw[p]] = p /\ order[p] < order[nw[p]]
             /\ p # x => pw[p] # p /\ nw[pw[p]] = p
  <2>1. h # Empty /\ h \in S /\ pv[h] = h
    BY DEF Chain, InFront
  <2>2. nx[p] \in S /\ pv[p] \in S /\ (nx[p] # p => pv[nx[p]] = p /\ rank[p] < rank[nx[p]])
    BY DEF Chain, InFront
  <2>3. p # h => pv[p] # p /\ nx[pv[p]] = p
    BY DEF Chain, InFront
  <2>4. nw[p] = nx[p] /\ (p # h => pw[p] = pv[p]) /\ (p = h => pw[p] = x)
    BY <2>1 DEF InFront
  <2>5. nx[p] # p => nx[p] # h
    BY <2>1, <2>2
  <2>6. nw[p] # p => pw[nw[p]] = p /\ order[p] < order[nw[p]]
    BY <2>2, <2>4, <2>5 DEF InFront
  <2>7. pw[p] # p /\ nw[pw[p]] = p
    BY <2>1, <2>2, <2>3, <2>4 DEF InFront
  <2> QED BY <2>1, <2>2, <2>4, <2>6, <2>7
<1> QED BY <1>1, <1>2, <1>3, <1>4 DEF Chain, InFront

-----------------------------------------------------------------------------
(* The context of an allocator for size pages with this many orders.       *)
PageWords(size, orders) ==
  [free : BOOLEAN, next : 0..(size - 1),
   order : 0..(orders - 1), prev : 0..(size - 1)]

Contexts(size, orders) ==
  [index_max : {size}, order : {orders},
   free : [0..(orders - 1) -> (0..(size - 1)) \union {Empty}],
   all : [0..(size - 1) -> PageWords(size, orders)]]

NextOf(b) == [p \in Pages(b) |-> b.all[p].next]
PrevOf(b) == [p \in Pages(b) |-> b.all[p].prev]

(* The flag and the order of every page are the same.                      *)
SameMarks(b, c) ==
  \A p \in Pages(b) : c.all[p].free = b.all[p].free /\ c.all[p].order = b.all[p].order

(* The three writes that list operations are made of.                      *)
SetFirst(b, o, v) == [b EXCEPT !.free[o] = v]
SetPrev(b, p, v) == [b EXCEPT !.all[p].prev = v]
SetNext(b, p, v) == [b EXCEPT !.all[p].next = v]

(* What a context d has after each of them.                                *)
FirstIsSet(size, orders, b, d, o, v) ==
  /\ d \in Contexts(size, orders) /\ SameMarks(b, d)
  /\ d.free = Put(b.free, o, v) /\ d.all = b.all
  /\ NextOf(d) = NextOf(b) /\ PrevOf(d) = PrevOf(b)
PrevIsSet(size, orders, b, d, p, v) ==
  /\ d \in Contexts(size, orders) /\ SameMarks(b, d) /\ d.free = b.free
  /\ NextOf(d) = NextOf(b) /\ PrevOf(d) = Put(PrevOf(b), p, v)
NextIsSet(size, orders, b, d, p, v) ==
  /\ d \in Contexts(size, orders) /\ SameMarks(b, d) /\ d.free = b.free
  /\ NextOf(d) = Put(NextOf(b), p, v) /\ PrevOf(d) = PrevOf(b)

LEMMA ContextFields ==
  ASSUME NEW size \in Nat, NEW orders \in Nat, NEW b \in Contexts(size, orders)
  PROVE  /\ b.index_max = size /\ b.order = orders /\ Pages(b) = 0..(size - 1)
         /\ b.free \in [0..(orders - 1) -> (0..(size - 1)) \union {Empty}]
         /\ b.all \in [0..(size - 1) -> PageWords(size, orders)]
         /\ NextOf(b) \in [0..(size - 1) -> 0..(size - 1)]
         /\ PrevOf(b) \in [0..(size - 1) -> 0..(size - 1)]
         /\ \A p \in 0..(size - 1) :
              /\ b.all[p] \in PageWords(size, orders)
              /\ b.all[p].free \in BOOLEAN /\ b.all[p].next \in 0..(size - 1)
              /\ b.all[p].order \in 0..(orders - 1) /\ b.all[p].prev \in 0..(size - 1)
              /\ NextOf(b)[p] = b.all[p].next /\ PrevOf(b)[p] = b.all[p].prev
<1>1. /\ b.index_max = size /\ b.order = orders
      /\ b.free \in [0..(orders - 1) -> (0..(size - 1)) \union {Empty}]
      /\ b.all \in [0..(size - 1) -> PageWords(size, orders)]
  BY DEF Contexts
<1>2. Pages(b) = 0..(size - 1)
  BY <1>1 DEF Pages
<1>3. \A p \in 0..(size - 1) :
         /\ b.all[p] \in PageWords(size, orders)
         /\ b.all[p].free \in BOOLEAN /\ b.all[p].next \in 0..(size - 1)
         /\ b.all[p].order \in 0..(orders - 1) /\ b.all[p].prev \in 0..(size - 1)
  <2>1. ASSUME NEW p \in 0..(size - 1) PROVE b.all[p] \in PageWords(size, orders)
    BY <1>1
  <2> QED BY <2>1 DEF PageWords
<1>4. /\ NextOf(b) \in [0..(size - 1) -> 0..(size - 1)]
      /\ PrevOf(b) \in [0..(size - 1) -> 0..(size - 1)]
      /\ \A p \in 0..(size - 1) :
           NextOf(b)[p] = b.all[p].next /\ PrevOf(b)[p] = b.all[p].prev
  BY <1>2, <1>3 DEF NextOf, PrevOf
<1> QED BY <1>1, <1>2, <1>3, <1>4

LEMMA SetFirstFields ==
  ASSUME NEW size \in Nat, NEW orders \in Nat, NEW b \in Contexts(size, orders),
         NEW o \in 0..(orders - 1), NEW v \in (0..(size - 1)) \union {Empty}
  PROVE  FirstIsSet(size, orders, b, SetFirst(b, o, v), o, v)
<1> DEFINE c == SetFirst(b, o, v)
<1>1. /\ c.index_max = b.index_max /\ c.order = b.order /\ c.all = b.all
      /\ c.free = Put(b.free, o, v)
      /\ c = [index_max |-> c.index_max, order |-> c.order, free |-> c.free, all |-> c.all]
  BY DEF SetFirst, Contexts, Put
<1>2. c.free \in [0..(orders - 1) -> (0..(size - 1)) \union {Empty}]
  BY <1>1, ContextFields DEF Put
<1>3. c.all \in [0..(size - 1) -> PageWords(size, orders)] /\ c.index_max = size /\ c.order = orders
  BY <1>1, ContextFields
<1> HIDE DEF c
<1>4. c \in Contexts(size, orders)
  BY <1>1, <1>2, <1>3 DEF Contexts
<1>5. Pages(c) = Pages(b)
  BY <1>1 DEF Pages
<1>6. c.free = Put(b.free, o, v)
  BY <1>1 DEF Put
<1>7. NextOf(c) = NextOf(b) /\ PrevOf(c) = PrevOf(b) /\ SameMarks(b, c)
  BY <1>1, <1>5 DEF NextOf, PrevOf, SameMarks
<1>8. FirstIsSet(size, orders, b, c, o, v)
  BY <1>1, <1>4, <1>6, <1>7 DEF FirstIsSet
<1> QED BY <1>8 DEF c

LEMMA SetPrevFields ==
  ASSUME NEW size \in Nat, NEW orders \in Nat, NEW b \in Contexts(size, orders),
         NEW p \in 0..(size - 1), NEW v \in 0..(size - 1)
  PROVE  PrevIsSet(size, orders, b, SetPrev(b, p, v), p, v)
<1> DEFINE c == SetPrev(b, p, v)
<1>0. /\ b.all \in [0..(size - 1) -> PageWords(size, orders)]
      /\ b.all[p] \in PageWords(size, orders) /\ Pages(b) = 0..(size - 1)
  <2>1. \A q \in 0..(size - 1) : b.all[q] \in PageWords(size, orders)
    BY ContextFields
  <2> QED BY <2>1, ContextFields
<1>1. /\ c.index_max = b.index_max /\ c.order = b.order /\ c.free = b.free
      /\ c.all = [b.all EXCEPT ![p] = [b.all[p] EXCEPT !.prev = v]]
      /\ c = [index_max |-> c.index_max, order |-> c.order, free |-> c.free, all |-> c.all]
  <2> DEFINE a == [b.all EXCEPT ![p].prev = v]
  <2>1. c = [b EXCEPT !.all = a]
    BY DEF SetPrev
  <2>2. a = [b.all EXCEPT ![p] = [b.all[p] EXCEPT !.prev = v]]
    OBVIOUS
  <2> HIDE DEF a, c
  <2> QED BY <2>1, <2>2 DEF Contexts
<1> HIDE DEF c
<1> DEFINE w == [b.all[p] EXCEPT !.prev = v]
<1>2. /\ w \in PageWords(size, orders) /\ w.prev = v /\ w.next = b.all[p].next
      /\ w.free = b.all[p].free /\ w.order = b.all[p].order
  BY <1>0 DEF PageWords
<1> HIDE DEF w
<1>3. /\ c.all = [b.all EXCEPT ![p] = w] /\ c.all[p] = w
      /\ \A q \in 0..(size - 1) : q # p => c.all[q] = b.all[q]
  BY <1>0, <1>1 DEF w
<1>4. c.all \in [0..(size - 1) -> PageWords(size, orders)]
  BY <1>0, <1>2, <1>3
<1>5. c.index_max = size /\ c.order = orders
      /\ c.free \in [0..(orders - 1) -> (0..(size - 1)) \union {Empty}]
  BY <1>1, ContextFields
<1>6. c \in Contexts(size, orders)
  BY <1>1, <1>4, <1>5 DEF Contexts
<1>7. Pages(c) = 0..(size - 1)
  BY <1>6, ContextFields
<1>8. SameMarks(b, c)
  BY <1>0, <1>2, <1>3 DEF SameMarks
<1>9. NextOf(c) = NextOf(b)
  BY <1>0, <1>2, <1>3, <1>7 DEF NextOf
<1>10. PrevOf(c) = Put(PrevOf(b), p, v)
  BY <1>0, <1>2, <1>3, <1>7 DEF PrevOf, Put
<1>11. PrevIsSet(size, orders, b, c, p, v)
  BY <1>1, <1>6, <1>8, <1>9, <1>10 DEF PrevIsSet
<1> QED BY <1>11 DEF c

LEMMA SetNextFields ==
  ASSUME NEW size \in Nat, NEW orders \in Nat, NEW b \in Contexts(size, orders),
         NEW p \in 0..(size - 1), NEW v \in 0..(size - 1)
  PROVE  NextIsSet(size, orders, b, SetNext(b, p, v), p, v)
<1> DEFINE c == SetNext(b, p, v)
<1>0. /\ b.all \in [0..(size - 1) -> PageWords(size, orders)]
      /\ b.all[p] \in PageWords(size, orders) /\ Pages(b) = 0..(size - 1)
  <2>1. \A q \in 0..(size - 1) : b.all[q] \in PageWords(size, orders)
    BY ContextFields
  <2> QED BY <2>1, ContextFields
<1>1. /\ c.index_max = b.index_max /\ c.order = b.order /\ c.free = b.free
      /\ c.all = [b.all EXCEPT ![p] = [b.all[p] EXCEPT !.next = v]]
      /\ c = [index_max |-> c.index_max, order |-> c.order, free |-> c.free, all |-> c.all]
  <2> DEFINE a == [b.all EXCEPT ![p].next = v]
  <2>1. c = [b EXCEPT !.all = a]
    BY DEF SetNext
  <2>2. a = [b.all EXCEPT ![p] = [b.all[p] EXCEPT !.next = v]]
    OBVIOUS
  <2> HIDE DEF a, c
  <2> QED BY <2>1, <2>2 DEF Contexts
<1> HIDE DEF c
<1> DEFINE w == [b.all[p] EXCEPT !.next = v]
<1>2. /\ w \in PageWords(size, orders) /\ w.next = v /\ w.prev = b.all[p].prev
      /\ w.free = b.all[p].free /\ w.order = b.all[p].order
  BY <1>0 DEF PageWords
<1> HIDE DEF w
<1>3. /\ c.all = [b.all EXCEPT ![p] = w] /\ c.all[p] = w
      /\ \A q \in 0..(size - 1) : q # p => c.all[q] = b.all[q]
  BY <1>0, <1>1 DEF w
<1>4. c.all \in [0..(size - 1) -> PageWords(size, orders)]
  BY <1>0, <1>2, <1>3
<1>5. c.index_max = size /\ c.order = orders
      /\ c.free \in [0..(orders - 1) -> (0..(size - 1)) \union {Empty}]
  BY <1>1, ContextFields
<1>6. c \in Contexts(size, orders)
  BY <1>1, <1>4, <1>5 DEF Contexts
<1>7. Pages(c) = 0..(size - 1)
  BY <1>6, ContextFields
<1>8. SameMarks(b, c)
  BY <1>0, <1>2, <1>3 DEF SameMarks
<1>9. PrevOf(c) = PrevOf(b)
  BY <1>0, <1>2, <1>3, <1>7 DEF PrevOf
<1>10. NextOf(c) = Put(NextOf(b), p, v)
  BY <1>0, <1>2, <1>3, <1>7 DEF NextOf, Put
<1>11. NextIsSet(size, orders, b, c, p, v)
  BY <1>1, <1>6, <1>8, <1>9, <1>10 DEF NextIsSet
<1> QED BY <1>11 DEF c

-----------------------------------------------------------------------------
(* The lists of a context hold the free blocks F.                          *)
Block(page, order) == [page |-> page, order |-> order]

BlocksOf(size, orders) == [page : 0..(size - 1), order : 0..(orders - 1)]

ListOf(F, o) == {p \in Nat : Block(p, o) \in F}

(* The words of free blocks say so.                                        *)
Marked(b, F) == \A f \in F : b.all[f.page].free /\ b.all[f.page].order = f.order

LinkedBy(b, F, rank) ==
  \A o \in 0..(b.order - 1) :
    Chain(ListOf(F, o), b.free[o], NextOf(b), PrevOf(b), rank)

Linked(b, F) == \E rank \in [Pages(b) -> Nat] : LinkedBy(b, F, rank)

LEMMA BlockFields ==
  ASSUME NEW size \in Nat, NEW orders \in Nat, NEW x \in BlocksOf(size, orders)
  PROVE  /\ x.page \in Nat /\ x.page \in 0..(size - 1) /\ x.order \in 0..(orders - 1)
         /\ x.order \in Nat /\ x = Block(x.page, x.order)
BY DEF BlocksOf, Block

LEMMA BlockNames ==
  ASSUME NEW p, NEW o
  PROVE  /\ Block(p, o).page = p /\ Block(p, o).order = o
         /\ \A q, e : Block(p, o) = Block(q, e) => p = q /\ o = e
<1>1. \A q, e : Block(q, e).page = q /\ Block(q, e).order = e
  BY DEF Block
<1> QED BY <1>1

LEMMA ListsApart ==
  ASSUME NEW size \in Nat, NEW orders \in Nat, NEW b,
         NEW F, F \subseteq BlocksOf(size, orders), Marked(b, F)
  PROVE  /\ \A o : ListOf(F, o) \subseteq 0..(size - 1)
         /\ \A o, e : o # e => ListOf(F, o) \cap ListOf(F, e) = {}
<1>1. ASSUME NEW o, NEW p \in ListOf(F, o)
      PROVE  p \in 0..(size - 1) /\ b.all[p].order = o
  <2>1. Block(p, o) \in F
    BY <1>1 DEF ListOf
  <2> QED BY <2>1, BlockFields, BlockNames DEF Marked
<1> QED BY <1>1

(* Taking a page off its list, in the four cases: it is the only one, the  *)
(* first, the last, or between two.                                        *)
PageIsRemoved(b, c, x, o, n, r) ==
  /\ r = x /\ n = x => /\ c.free = Put(b.free, o, Empty)
                     /\ NextOf(c) = NextOf(b) /\ PrevOf(c) = PrevOf(b)
  /\ r = x /\ n # x => /\ c.free = Put(b.free, o, n) /\ NextOf(c) = NextOf(b)
                     /\ PrevOf(c) = Put(PrevOf(b), n, n)
  /\ r # x /\ n = x => /\ c.free = b.free /\ PrevOf(c) = PrevOf(b)
                     /\ NextOf(c) = Put(NextOf(b), r, r)
  /\ r # x /\ n # x => /\ c.free = b.free /\ NextOf(c) = Put(NextOf(b), r, n)
                     /\ PrevOf(c) = Put(PrevOf(b), n, r)

LEMMA RemoveFreeFields ==
  ASSUME NEW size \in Nat, NEW orders \in Nat, NEW b \in Contexts(size, orders),
         NEW x \in 0..(size - 1), NEW o \in 0..(orders - 1)
  PROVE  /\ RemoveFree(b, x, o) \in Contexts(size, orders)
         /\ SameMarks(b, RemoveFree(b, x, o))
         /\ PageIsRemoved(b, RemoveFree(b, x, o), x, o, NextOf(b)[x], PrevOf(b)[x])
<1> DEFINE c == RemoveFree(b, x, o)
           n == NextOf(b)[x]
           r == PrevOf(b)[x]
           Goal == /\ c \in Contexts(size, orders) /\ SameMarks(b, c)
                   /\ PageIsRemoved(b, c, x, o, n, r)
<1>1. n = b.all[x].next /\ r = b.all[x].prev /\ n \in 0..(size - 1) /\ r \in 0..(size - 1)
  <2>1. \A p \in 0..(size - 1) :
           /\ b.all[p].next \in 0..(size - 1) /\ b.all[p].prev \in 0..(size - 1)
           /\ NextOf(b)[p] = b.all[p].next /\ PrevOf(b)[p] = b.all[p].prev
    BY ContextFields
  <2> QED BY <2>1
<1>2. ASSUME NEW d \in Contexts(size, orders), SameMarks(b, d), NEW e, SameMarks(d, e)
      PROVE  SameMarks(b, e)
  <2>1. Pages(d) = Pages(b)
    BY DEF Contexts, Pages
  <2> QED BY <1>2, <2>1 DEF SameMarks
<1>c. c = RemoveFree(b, x, o)
  OBVIOUS
<1>g. SUFFICES Goal
  OBVIOUS
<1> HIDE DEF n, r, c
<1>3. CASE r = x /\ n = x
  <2>1. c = SetFirst(b, o, Empty)
    BY <1>1, <1>3, <1>c DEF RemoveFree, SetFirst
  <2>2. Empty \in (0..(size - 1)) \union {Empty}
    OBVIOUS
  <2>3. FirstIsSet(size, orders, b, SetFirst(b, o, Empty), o, Empty)
    BY <2>2, SetFirstFields
  <2> QED BY <1>3, <2>1, <2>3 DEF FirstIsSet, PageIsRemoved
<1>4. CASE r = x /\ n # x
  <2> DEFINE d == SetFirst(b, o, n)
  <2>1. c = SetPrev(d, n, n)
    BY <1>1, <1>4, <1>c DEF RemoveFree, SetFirst, SetPrev
  <2>2. FirstIsSet(size, orders, b, d, o, n)
    <3>1. n \in (0..(size - 1)) \union {Empty}
      BY <1>1
    <3> QED BY <3>1, SetFirstFields
  <2> HIDE DEF d
  <2>3. d \in Contexts(size, orders) /\ SameMarks(b, d)
    BY <2>2 DEF FirstIsSet
  <2>4. PrevIsSet(size, orders, d, SetPrev(d, n, n), n, n)
    BY <1>1, <2>3, SetPrevFields
  <2>5. PrevIsSet(size, orders, d, c, n, n)
    BY <2>1, <2>4
  <2>6. SameMarks(b, c)
    BY <1>2, <2>3, <2>5 DEF PrevIsSet
  <2> QED BY <1>4, <2>2, <2>5, <2>6 DEF FirstIsSet, PrevIsSet, PageIsRemoved
<1>5. CASE r # x /\ n = x
  <2>1. c = SetNext(b, r, r)
    BY <1>1, <1>5, <1>c DEF RemoveFree, SetNext
  <2>2. NextIsSet(size, orders, b, SetNext(b, r, r), r, r)
    BY <1>1, SetNextFields
  <2> QED BY <1>5, <2>1, <2>2 DEF NextIsSet, PageIsRemoved
<1>6. CASE r # x /\ n # x
  <2> DEFINE d == SetPrev(b, n, r)
  <2>1. c = SetNext(d, r, n)
    BY <1>1, <1>6, <1>c DEF RemoveFree, SetNext, SetPrev
  <2>2. PrevIsSet(size, orders, b, d, n, r)
    BY <1>1, SetPrevFields
  <2> HIDE DEF d
  <2>3. d \in Contexts(size, orders) /\ SameMarks(b, d)
    BY <2>2 DEF PrevIsSet
  <2>4. NextIsSet(size, orders, d, SetNext(d, r, n), r, n)
    BY <1>1, <2>3, SetNextFields
  <2>5. NextIsSet(size, orders, d, c, r, n)
    BY <2>1, <2>4
  <2>6. SameMarks(b, c)
    BY <1>2, <2>3, <2>5 DEF NextIsSet
  <2> QED BY <1>6, <2>2, <2>5, <2>6 DEF PrevIsSet, NextIsSet, PageIsRemoved
<1> QED BY <1>3, <1>4, <1>5, <1>6

LEMMA RemoveFreeKeeps ==
  ASSUME NEW size \in Nat, NEW orders \in Nat, NEW b \in Contexts(size, orders),
         NEW F, F \subseteq BlocksOf(size, orders), Marked(b, F), Linked(b, F),
         NEW x \in F
  PROVE  /\ RemoveFree(b, x.page, x.order) \in Contexts(size, orders)
         /\ SameMarks(b, RemoveFree(b, x.page, x.order))
         /\ Linked(RemoveFree(b, x.page, x.order), F \ {x})
<1> DEFINE c == RemoveFree(b, x.page, x.order)
           h == b.free
           p == x.page
           o == x.order
           D == 0..(size - 1)
           nx == NextOf(b)
           pv == PrevOf(b)
           n == nx[p]
           r == pv[p]
           S(e) == ListOf(F, e)
           S2(e) == ListOf(F \ {x}, e)
<1>1. /\ p \in Nat /\ p \in D /\ o \in 0..(orders - 1) /\ x = Block(p, o) /\ D \subseteq Nat
  BY BlockFields
<1>2. /\ b.order = orders /\ Pages(b) = D /\ nx \in [D -> D] /\ pv \in [D -> D]
      /\ h \in [0..(orders - 1) -> D \union {Empty}]
  BY ContextFields
<1>3. PICK rank \in [D -> Nat] : LinkedBy(b, F, rank)
  BY <1>2 DEF Linked
<1>4. \A e \in 0..(orders - 1) : Chain(S(e), h[e], nx, pv, rank)
  BY <1>2, <1>3 DEF LinkedBy
<1>5. (\A e : S(e) \subseteq D) /\ (\A e, i : e # i => S(e) \cap S(i) = {})
  BY ListsApart
<1>6. p \in S(o) /\ S2(o) = S(o) \ {p} /\ \A e : e # o => S2(e) = S(e)
  <2>1. \A q, e : Block(q, e) = x => q = p /\ e = o
    BY <1>1, BlockNames
  <2> QED BY <1>1, <2>1 DEF ListOf
<1>7. /\ c \in Contexts(size, orders) /\ SameMarks(b, c)
      /\ PageIsRemoved(b, c, p, o, n, r)
  BY <1>1, RemoveFreeFields
<1>f. NextOf(b) = nx /\ PrevOf(b) = pv /\ b.free = h /\ n = nx[p] /\ r = pv[p]
  OBVIOUS
<1>8. c.order = orders /\ Pages(c) = D
  BY <1>7, ContextFields
<1>9. Chain(S(o), h[o], nx, pv, rank)
  BY <1>1, <1>4
<1>10. n \in S(o) /\ r \in S(o) /\ n \in D /\ r \in D
  BY <1>5, <1>6, <1>9 DEF Chain
<1> HIDE DEF c, h, p, o, D, nx, pv, n, r, S, S2
<1>g. /\ r = p /\ n = p => /\ c.free = Put(h, o, Empty)
                         /\ NextOf(c) = nx /\ PrevOf(c) = pv
      /\ r = p /\ n # p => /\ c.free = Put(h, o, n) /\ NextOf(c) = nx
                         /\ PrevOf(c) = Put(pv, n, n)
      /\ r # p /\ n = p => /\ c.free = h /\ PrevOf(c) = pv
                         /\ NextOf(c) = Put(nx, r, r)
      /\ r # p /\ n # p => /\ c.free = h /\ NextOf(c) = Put(nx, r, n)
                         /\ PrevOf(c) = Put(pv, n, r)
  BY <1>7, <1>f DEF PageIsRemoved
<1>11. Chain(S2(o), c.free[o], NextOf(c), PrevOf(c), rank)
  <2>0. n = nx[p] /\ r = pv[p] /\ S(o) \subseteq D
    BY <1>5, <1>f
  <2>1. CASE r = p /\ n = p
    <3>1. p = h[o]
      BY <1>6, <1>9, <2>0, <2>1 DEF Chain
    <3>2. S(o) = {p}
      <4> DEFINE s == S(o)
                 i == h[o]
      <4>1. s \subseteq D /\ D \subseteq Nat /\ Chain(s, i, nx, pv, rank) /\ i \in s /\ nx[i] = i
        BY <1>1, <1>6, <1>9, <2>0, <2>1, <3>1
      <4>2. rank \in [D -> Nat]
        BY <1>3
      <4> HIDE DEF s, i
      <4>3. s = {i}
        BY <4>1, <4>2, ChainSingle
      <4> QED BY <3>1, <4>3 DEF s, i
    <3>3. c.free[o] = Empty
      BY <1>1, <1>2, <1>g, <2>1 DEF Put
    <3> QED BY <1>6, <3>2, <3>3 DEF Chain
  <2>2. CASE r = p /\ n # p
    <3>1. Chain(S(o) \ {p}, n, nx, Put(pv, n, n), rank)
      BY <1>1, <1>2, <1>3, <1>6, <1>9, <2>0, <2>2, ChainRemoveHead
    <3>2. c.free[o] = n
      BY <1>1, <1>2, <1>g, <2>2 DEF Put
    <3> QED BY <1>6, <1>g, <2>2, <3>1, <3>2
  <2>3. CASE r # p /\ n = p
    <3>1. Chain(S(o) \ {p}, h[o], Put(nx, r, r), pv, rank)
      BY <1>1, <1>2, <1>3, <1>6, <1>9, <2>0, <2>3, ChainRemoveTail
    <3> QED BY <1>6, <1>g, <2>3, <3>1
  <2>4. CASE r # p /\ n # p
    <3>1. Chain(S(o) \ {p}, h[o], Put(nx, r, n), Put(pv, n, r), rank)
      BY <1>1, <1>2, <1>3, <1>6, <1>9, <2>0, <2>4, ChainRemoveMiddle
    <3> QED BY <1>6, <1>g, <2>4, <3>1
  <2> QED BY <2>1, <2>2, <2>3, <2>4
<1>12. ASSUME NEW e \in 0..(orders - 1), e # o
       PROVE  Chain(S2(e), c.free[e], NextOf(c), PrevOf(c), rank)
  <2>1. S2(e) = S(e) /\ Chain(S(e), h[e], nx, pv, rank)
    BY <1>4, <1>6, <1>12
  <2>2. \A q \in S(e) : q \in D /\ q # n /\ q # r
    BY <1>5, <1>10, <1>12
  <2>3. c.free[e] = h[e]
    BY <1>1, <1>2, <1>g, <1>12 DEF Put
  <2>4. \A q \in S(e) : NextOf(c)[q] = nx[q] /\ PrevOf(c)[q] = pv[q]
    BY <1>2, <1>10, <1>g, <2>2 DEF Put
  <2>5. \A q, i \in S(e) : rank[q] < rank[i] => rank[q] < rank[i]
    OBVIOUS
  <2>6. Chain(S(e), h[e], NextOf(c), PrevOf(c), rank)
    BY <2>1, <2>4, <2>5, ChainElsewhere
  <2> QED BY <2>1, <2>3, <2>6
<1>13. LinkedBy(c, F \ {x}, rank)
  BY <1>8, <1>11, <1>12 DEF LinkedBy, S2
<1>14. Linked(c, F \ {x})
  BY <1>3, <1>8, <1>13 DEF Linked
<1> QED BY <1>7, <1>14 DEF c

(* Putting a page in front of a list.                                      *)
PageIsAdded(b, c, x, o, h) ==
  /\ c.free = Put(b.free, o, x)
  /\ c.all[x].free /\ c.all[x].order = o
  /\ NextOf(c)[x] = (IF h = Empty THEN x ELSE h) /\ PrevOf(c)[x] = x
  /\ h # Empty => PrevOf(c)[h] = x
  /\ \A p \in Pages(b) : p # x =>
       /\ c.all[p].free = b.all[p].free /\ c.all[p].order = b.all[p].order
       /\ NextOf(c)[p] = NextOf(b)[p]
       /\ p # h => PrevOf(c)[p] = PrevOf(b)[p]

LEMMA AddFreeFields ==
  ASSUME NEW size \in Nat, NEW orders \in Nat, NEW b \in Contexts(size, orders),
         NEW x \in 0..(size - 1), NEW o \in 0..(orders - 1)
  PROVE  /\ AddFree(b, x, o) \in Contexts(size, orders)
         /\ PageIsAdded(b, AddFree(b, x, o), x, o, b.free[o])
<1> DEFINE c == AddFree(b, x, o)
           h == b.free[o]
           D == 0..(size - 1)
           W == PageWords(size, orders)
           mine == [free |-> TRUE, order |-> o, prev |-> x,
                    next |-> IF h = Empty THEN x ELSE h]
           second == IF h = Empty THEN b.all
                     ELSE [b.all EXCEPT ![h] = [b.all[h] EXCEPT !.prev = x]]
<1>1. /\ b.all \in [D -> W] /\ b.free \in [0..(orders - 1) -> D \union {Empty}]
      /\ b.index_max = size /\ b.order = orders /\ Pages(b) = D
  BY ContextFields
<1>2. h \in D \union {Empty} /\ x \in D
  BY <1>1
<1>3. ASSUME NEW p \in D
      PROVE  /\ b.all[p] \in W /\ b.all[p].prev \in D
             /\ NextOf(b)[p] = b.all[p].next /\ PrevOf(b)[p] = b.all[p].prev
  BY ContextFields
<1>4. mine \in W /\ mine.free /\ mine.order = o /\ mine.prev = x
      /\ mine.next = (IF h = Empty THEN x ELSE h)
  BY <1>2 DEF PageWords
<1>5. ASSUME NEW p \in D
      PROVE  LET w == [b.all[p] EXCEPT !.prev = x]
             IN  /\ w \in W /\ w.free = b.all[p].free /\ w.order = b.all[p].order
                 /\ w.next = b.all[p].next /\ w.prev = x
  BY <1>2, <1>3 DEF PageWords
<1>6. /\ second \in [D -> W]
      /\ \A p \in D : /\ second[p].free = b.all[p].free /\ second[p].order = b.all[p].order
                      /\ second[p].next = b.all[p].next
                      /\ second[p].prev = IF p = h THEN x ELSE b.all[p].prev
  <2>1. CASE h = Empty
    <3>1. \A p \in D : p # h
      BY <2>1 DEF Empty
    <3> QED BY <1>1, <2>1, <3>1
  <2>2. CASE h # Empty
    <3> DEFINE w == [b.all[h] EXCEPT !.prev = x]
    <3>1. /\ h \in D /\ w \in W /\ w.free = b.all[h].free /\ w.order = b.all[h].order
          /\ w.next = b.all[h].next /\ w.prev = x
      BY <1>2, <1>5, <2>2
    <3>2. second = [b.all EXCEPT ![h] = w]
      BY <2>2
    <3> HIDE DEF w, second
    <3>3. second \in [D -> W] /\ second[h] = w /\ \A p \in D : p # h => second[p] = b.all[p]
      BY <1>1, <3>1, <3>2
    <3> QED BY <3>1, <3>3
  <2> QED BY <2>1, <2>2
<1>7. /\ c.index_max = b.index_max /\ c.order = b.order /\ c.free = [b.free EXCEPT ![o] = x]
      /\ c.all = [second EXCEPT ![x] = mine]
      /\ c = [index_max |-> c.index_max, order |-> c.order, free |-> c.free, all |-> c.all]
  <2> DEFINE a == [second EXCEPT ![x] = mine]
  <2>1. second = IF h = Empty THEN b.all ELSE [b.all EXCEPT ![h].prev = x]
    OBVIOUS
  <2>2. c = [b EXCEPT !.all = a, !.free[o] = x]
    BY <2>1 DEF AddFree
  <2> HIDE DEF a, c
  <2>3. /\ c.index_max = b.index_max /\ c.order = b.order /\ c.free = [b.free EXCEPT ![o] = x]
        /\ c.all = a
        /\ c = [index_max |-> c.index_max, order |-> c.order, free |-> c.free, all |-> c.all]
    BY <2>2 DEF Contexts
  <2> QED BY <2>3 DEF a
<1> HIDE DEF c, h, D, W, mine, second
<1>8. /\ c.all \in [D -> W] /\ c.all[x] = mine
      /\ \A p \in D : p # x => c.all[p] = second[p]
  BY <1>2, <1>4, <1>6, <1>7
<1>9. c.free \in [0..(orders - 1) -> D \union {Empty}] /\ c.free = Put(b.free, o, x)
  BY <1>1, <1>2, <1>7 DEF Put
<1>10. c \in Contexts(size, orders)
  BY <1>1, <1>7, <1>8, <1>9 DEF Contexts, D, W
<1>11. \A p \in D : NextOf(c)[p] = c.all[p].next /\ PrevOf(c)[p] = c.all[p].prev
  <2>1. Pages(c) = D
    BY <1>10, ContextFields DEF D
  <2> QED BY <2>1 DEF NextOf, PrevOf
<1>12. PageIsAdded(b, c, x, o, h)
  <2>1. h # Empty => PrevOf(c)[h] = x
    BY <1>2, <1>4, <1>6, <1>8, <1>11
  <2>2. /\ c.all[x].free /\ c.all[x].order = o
        /\ NextOf(c)[x] = (IF h = Empty THEN x ELSE h) /\ PrevOf(c)[x] = x
    BY <1>2, <1>4, <1>8, <1>11
  <2>3. ASSUME NEW p \in D, p # x
        PROVE  /\ c.all[p].free = b.all[p].free /\ c.all[p].order = b.all[p].order
               /\ NextOf(c)[p] = NextOf(b)[p]
               /\ p # h => PrevOf(c)[p] = PrevOf(b)[p]
    BY <1>3, <1>6, <1>8, <1>11, <2>3
  <2> QED BY <1>1, <1>9, <2>1, <2>2, <2>3 DEF PageIsAdded
<1> QED BY <1>10, <1>12 DEF c, h

LEMMA AddFreeKeeps ==
  ASSUME NEW size \in Nat, NEW orders \in Nat, NEW b \in Contexts(size, orders),
         NEW F, F \subseteq BlocksOf(size, orders), Marked(b, F), Linked(b, F),
         NEW x \in BlocksOf(size, orders), \A f \in F : f.page # x.page
  PROVE  Linked(AddFree(b, x.page, x.order), F \union {x})
<1> DEFINE c == AddFree(b, x.page, x.order)
           h == b.free
           p == x.page
           o == x.order
           D == 0..(size - 1)
           nx == NextOf(b)
           pv == PrevOf(b)
           nw == NextOf(c)
           pw == PrevOf(c)
           S(e) == ListOf(F, e)
           S2(e) == ListOf(F \union {x}, e)
<1>1. /\ p \in Nat /\ p \in D /\ o \in 0..(orders - 1) /\ x = Block(p, o) /\ D \subseteq Nat
  BY BlockFields
<1>2. /\ b.order = orders /\ Pages(b) = D /\ nx \in [D -> D] /\ pv \in [D -> D]
      /\ h \in [0..(orders - 1) -> D \union {Empty}]
  BY ContextFields
<1>3. PICK rank \in [D -> Nat] : LinkedBy(b, F, rank)
  BY <1>2 DEF Linked
<1>4. \A e \in 0..(orders - 1) : Chain(S(e), h[e], nx, pv, rank)
  BY <1>2, <1>3 DEF LinkedBy
<1>5. (\A e : S(e) \subseteq D) /\ (\A e, i : e # i => S(e) \cap S(i) = {})
  BY ListsApart
<1>6. S2(o) = S(o) \union {p} /\ (\A e : e # o => S2(e) = S(e)) /\ \A e : p \notin S(e)
  <2>1. \A q, e : Block(q, e) = x <=> q = p /\ e = o
    BY <1>1, BlockNames
  <2>2. \A e : Block(p, e) \notin F
    BY BlockNames
  <2> QED BY <1>1, <2>1, <2>2 DEF ListOf
<1>7. c \in Contexts(size, orders) /\ PageIsAdded(b, c, p, o, b.free[o])
  BY <1>1, AddFreeFields
<1>8. c.order = orders /\ Pages(c) = D
  BY <1>7, ContextFields
<1>9. /\ c.free = Put(h, o, p)
      /\ nw[p] = (IF h[o] = Empty THEN p ELSE h[o]) /\ pw[p] = p
      /\ h[o] # Empty => pw[h[o]] = p
      /\ \A q \in D : q # p => nw[q] = nx[q] /\ (q # h[o] => pw[q] = pv[q])
  BY <1>2, <1>7 DEF PageIsAdded
<1> DEFINE order == [q \in D |-> IF q = p THEN 0 ELSE rank[q] + 1]
<1>10. /\ order \in [D -> Nat] /\ order[p] = 0
       /\ \A q \in D : rank[q] \in Nat /\ (q # p => order[q] = rank[q] + 1)
  BY <1>1, <1>3
<1> HIDE DEF c, h, p, o, D, nx, pv, nw, pw, S, S2, order
<1>11. ASSUME NEW e \in 0..(orders - 1)
       PROVE  /\ \A q \in S(e) : q \in D /\ q # p /\ order[p] < order[q]
              /\ \A q, i \in S(e) : rank[q] < rank[i] => order[q] < order[i]
  <2>1. \A q \in S(e) : q \in D /\ q # p
    BY <1>5, <1>6
  <2> QED BY <1>10, <2>1
<1>12. Chain(S2(o), c.free[o], nw, pw, order)
  <2> DEFINE s == S(o)
             i == h[o]
  <2>1. /\ s \subseteq D /\ D \subseteq Nat /\ Chain(s, i, nx, pv, rank) /\ p \in D /\ p \notin s
        /\ nw[p] = (IF i = Empty THEN p ELSE i) /\ pw[p] = p /\ (i # Empty => pw[i] = p)
    BY <1>1, <1>4, <1>5, <1>6, <1>9
  <2>2. /\ \A q \in s : nw[q] = nx[q] /\ (q # i => pw[q] = pv[q])
        /\ \A q \in s : order[p] < order[q]
        /\ \A q, k \in s : rank[q] < rank[k] => order[q] < order[k]
    BY <1>1, <1>9, <1>11
  <2>3. nx \in [D -> D] /\ pv \in [D -> D] /\ rank \in [D -> Nat]
    BY <1>2, <1>3
  <2> HIDE DEF s, i
  <2>4. Chain(s \union {p}, p, nw, pw, order)
    <3>1. InFront(s, i, nx, pv, rank, p, nw, pw, order)
      BY <2>1, <2>2 DEF InFront
    <3>2. p \in D /\ p \notin s /\ s \subseteq D /\ D \subseteq Nat /\ Chain(s, i, nx, pv, rank)
      BY <2>1
    <3> QED BY <2>3, <3>1, <3>2, ChainAdd
  <2>5. c.free[o] = p
    BY <1>1, <1>2, <1>9 DEF Put
  <2> QED BY <1>6, <2>4, <2>5 DEF s
<1>13. ASSUME NEW e \in 0..(orders - 1), e # o
       PROVE  Chain(S2(e), c.free[e], nw, pw, order)
  <2> DEFINE s == S(e)
             i == h[e]
  <2>1. S2(e) = s /\ Chain(s, i, nx, pv, rank)
    BY <1>4, <1>6, <1>13
  <2>2. \A q \in s : q # h[o]
    <3>1. h[o] # Empty => h[o] \in S(o)
      BY <1>1, <1>4 DEF Chain
    <3>2. \A q \in s : q \notin S(o) /\ q \in D
      BY <1>5, <1>13
    <3>3. Empty \notin D
      BY DEF Empty, D
    <3> QED BY <3>1, <3>2, <3>3
  <2>3. c.free[e] = i
    BY <1>1, <1>2, <1>9, <1>13 DEF Put
  <2>4. /\ \A q \in s : nw[q] = nx[q] /\ pw[q] = pv[q]
        /\ \A q, k \in s : rank[q] < rank[k] => order[q] < order[k]
    BY <1>9, <1>11, <2>2
  <2> HIDE DEF s, i
  <2>5. Chain(s, i, nw, pw, order)
    BY <2>1, <2>4, ChainElsewhere
  <2> QED BY <2>1, <2>3, <2>5
<1>14. LinkedBy(c, F \union {x}, order)
  BY <1>8, <1>12, <1>13 DEF LinkedBy, S2, nw, pw
<1>15. Linked(c, F \union {x})
  BY <1>8, <1>10, <1>14 DEF Linked
<1> QED BY <1>15 DEF c

-----------------------------------------------------------------------------
(* Blocks that share out the pages G.                                      *)
Area(c) == Run(c.page, c.order)

Tiles(C, G, size, orders) ==
  /\ C \subseteq BlocksOf(size, orders)
  /\ \A c \in C : Aligned(c.page, c.order) /\ Area(c) \subseteq G
  /\ \A c, d \in C : c # d => Area(c) \cap Area(d) = {}
  /\ \A g \in G : \E c \in C : g \in Area(c)

LEMMA AreaHead ==
  ASSUME NEW size \in Nat, NEW orders \in Nat, NEW c \in BlocksOf(size, orders)
  PROVE  c.page \in Area(c)
<1>1. c.page \in Nat /\ c.order \in Nat
  BY BlockFields
<1>2. Power[c.order] \in Nat /\ Power[c.order] >= 1
  BY <1>1, PowerType
<1> QED BY <1>1, <1>2 DEF Area, Run

(* No two of them begin at the same page.                                  *)
LEMMA TilesApart ==
  ASSUME NEW size \in Nat, NEW orders \in Nat, NEW C, NEW G, Tiles(C, G, size, orders),
         NEW c \in C, NEW d \in C, c # d
  PROVE  c.page # d.page /\ c.page \notin Area(d)
<1>1. c.page \in Area(c) /\ d.page \in Area(d)
  BY AreaHead DEF Tiles
<1>2. Area(c) \cap Area(d) = {}
  BY DEF Tiles
<1> QED BY <1>1, <1>2

(* Two blocks are replaced by the one they make up.                        *)
LEMMA TilesJoin ==
  ASSUME NEW size \in Nat, NEW orders \in Nat, NEW C, NEW G, Tiles(C, G, size, orders),
         NEW x \in C, NEW y \in C, NEW z \in BlocksOf(size, orders),
         Aligned(z.page, z.order), Area(z) = Area(x) \union Area(y)
  PROVE  Tiles((C \ {x, y}) \union {z}, G, size, orders)
<1> DEFINE E == (C \ {x, y}) \union {z}
<1>1. E \subseteq BlocksOf(size, orders)
  BY DEF Tiles
<1>2. \A c \in E : Aligned(c.page, c.order) /\ Area(c) \subseteq G
  BY DEF Tiles
<1>3. \A c \in C \ {x, y} : Area(c) \cap Area(z) = {}
  BY DEF Tiles
<1>4. \A c, d \in E : c # d => Area(c) \cap Area(d) = {}
  BY <1>3 DEF Tiles
<1>5. \A g \in G : \E c \in E : g \in Area(c)
  BY DEF Tiles
<1> QED BY <1>1, <1>2, <1>4, <1>5 DEF Tiles

(* A block is replaced by blocks that share out its pages.                 *)
LEMMA TilesSplit ==
  ASSUME NEW size \in Nat, NEW orders \in Nat, NEW C, NEW G, Tiles(C, G, size, orders),
         NEW x \in C, NEW B, Tiles(B, Area(x), size, orders)
  PROVE  Tiles((C \ {x}) \union B, G, size, orders)
<1> DEFINE E == (C \ {x}) \union B
<1>1. E \subseteq BlocksOf(size, orders)
  BY DEF Tiles
<1>2. \A c \in E : Aligned(c.page, c.order) /\ Area(c) \subseteq G
  <2>1. Area(x) \subseteq G
    BY DEF Tiles
  <2> QED BY <2>1 DEF Tiles
<1>3. \A c \in C \ {x}, d \in B : Area(c) \cap Area(d) = {}
  <2>1. \A c \in C \ {x} : Area(c) \cap Area(x) = {}
    BY DEF Tiles
  <2>2. \A d \in B : Area(d) \subseteq Area(x)
    BY DEF Tiles
  <2> QED BY <2>1, <2>2
<1>4. \A c, d \in E : c # d => Area(c) \cap Area(d) = {}
  <2>1. \A c, d \in C \ {x} : c # d => Area(c) \cap Area(d) = {}
    BY DEF Tiles
  <2>2. \A c, d \in B : c # d => Area(c) \cap Area(d) = {}
    BY DEF Tiles
  <2> QED BY <1>3, <2>1, <2>2
<1>5. \A g \in G : \E c \in E : g \in Area(c)
  <2>1. \A g \in G : \E c \in C : g \in Area(c)
    BY DEF Tiles
  <2>2. \A g \in Area(x) : \E c \in B : g \in Area(c)
    BY DEF Tiles
  <2> QED BY <2>1, <2>2
<1> QED BY <1>1, <1>2, <1>4, <1>5 DEF Tiles

-----------------------------------------------------------------------------
(* The inductive invariant: the blocks F are free and in the lists, the    *)
(* blocks U are in use, and together they share out the pages G.           *)
NoBuddies(F, orders) ==
  \A f \in F : f.order < orders - 1 => Block(BuddyOf(f.page, f.order), f.order) \notin F

UsedMarked(b, U) == \A u \in U : ~b.all[u.page].free /\ b.all[u.page].order = u.order

OutsideMarked(b, G) == \A p \in Pages(b) : p \notin G => ~b.all[p].free

Kept(b, F, U, G, size, orders) ==
  /\ b \in Contexts(size, orders)
  /\ Marked(b, F) /\ Linked(b, F) /\ NoBuddies(F, orders)
  /\ UsedMarked(b, U) /\ OutsideMarked(b, G)

Good(b, F, U, G, size, orders) ==
  Kept(b, F, U, G, size, orders) /\ Tiles(F \union U, G, size, orders)

(* While it frees, a block x belongs to neither, and its words may say     *)
(* anything.                                                               *)
Holed(b, F, U, x, G, size, orders) ==
  /\ Kept(b, F, U, G, size, orders) /\ Tiles(F \union U \union {x}, G, size, orders)
  /\ x \notin F \union U

LEMMA HoleMade ==
  ASSUME NEW b, NEW F, NEW U, NEW G, NEW size \in Nat, NEW orders \in Nat,
         Good(b, F, U, G, size, orders), NEW x \in U
  PROVE  Holed(b, F, U \ {x}, x, G, size, orders)
<1>1. x \notin F
  BY DEF Good, Kept, Marked, UsedMarked
<1>2. F \union (U \ {x}) \union {x} = F \union U
  OBVIOUS
<1>3. UsedMarked(b, U \ {x})
  BY DEF Good, Kept, UsedMarked
<1>4. Kept(b, F, U \ {x}, G, size, orders)
  BY <1>3 DEF Good, Kept
<1> QED BY <1>1, <1>2, <1>4 DEF Good, Holed

(* The words of stale pages do not mislead: a buddy that can be merged is  *)
(* a free block.                                                           *)
LEMMA MergeableIsFree ==
  ASSUME NEW b, NEW F, NEW U, NEW G, NEW size \in Nat, NEW orders \in Nat, NEW x,
         Holed(b, F, U, x, G, size, orders), G \subseteq 0..(size - 1)
  PROVE  Mergeable(b, BuddyOf(x.page, x.order), x.order)
           <=> Block(BuddyOf(x.page, x.order), x.order) \in F
<1> DEFINE o == x.order
           p == x.page
           d == BuddyOf(p, o)
           y == Block(d, o)
           C == F \union U \union {x}
<1>1. Tiles(C, G, size, orders) /\ x \in C /\ b \in Contexts(size, orders)
  BY DEF Holed, Kept
<1>2. p \in Nat /\ o \in Nat /\ Aligned(p, o) /\ C \subseteq BlocksOf(size, orders)
      /\ x \in BlocksOf(size, orders) /\ x = Block(p, o)
  BY <1>1, BlockFields DEF Tiles
<1>3. d \in Nat /\ d # p /\ Aligned(d, o)
  BY <1>2, Buddies
<1>4. LET w == IF d < p THEN d ELSE p
      IN  w \in Nat /\ Aligned(w, o + 1) /\ Run(w, o + 1) = Run(p, o) \union Run(d, o)
  BY <1>2, Buddies
<1>5. Power[o] \in Nat /\ Power[o] >= 1
  BY <1>2, PowerType
<1>6. d \in Run(d, o) /\ p \in Run(p, o)
  BY <1>2, <1>3, <1>5 DEF Run
<1>7. b.index_max = size /\ Pages(b) = 0..(size - 1)
  BY <1>1, ContextFields
<1>8. y.page = d /\ y.order = o
  BY BlockNames
<1> HIDE DEF o, p, d, y, C
<1>9. ASSUME y \in F PROVE Mergeable(b, d, o)
  <2>1. y \in BlocksOf(size, orders)
    BY <1>2, <1>9 DEF C
  <2>2. d < size
    BY <1>8, <2>1, BlockFields
  <2>3. b.all[d].free /\ b.all[d].order = o
    BY <1>8, <1>9 DEF Holed, Kept, Marked
  <2> QED BY <1>7, <2>2, <2>3 DEF Mergeable
<1>10. ASSUME Mergeable(b, d, o) PROVE y \in F
  <2>1. d < size /\ b.all[d].free /\ b.all[d].order = o
    BY <1>7, <1>10 DEF Mergeable
  <2>2. d \in G
    <3>1. d \in Pages(b)
      BY <1>3, <1>7, <2>1
    <3> QED BY <2>1, <3>1 DEF Holed, Kept, OutsideMarked
  <2>3. PICK c \in C : d \in Area(c)
    BY <1>1, <2>2 DEF Tiles
  <2>4. /\ c.page \in Nat /\ c.order \in Nat /\ Aligned(c.page, c.order)
        /\ c = Block(c.page, c.order)
    BY <1>1, <1>2, BlockFields DEF Tiles
  <2>5. ~(c.order > o)
    <3>1. SUFFICES ASSUME c.order > o PROVE FALSE
      OBVIOUS
    <3>2. c.order >= o + 1 /\ o + 1 \in Nat
      BY <1>2, <2>4, <3>1
    <3> DEFINE w == IF d < p THEN d ELSE p
    <3>3. w \in Nat /\ Aligned(w, o + 1) /\ Run(w, o + 1) = Run(p, o) \union Run(d, o)
      BY <1>4
    <3> HIDE DEF w
    <3>4. d \in Run(w, o + 1) /\ p \in Run(w, o + 1)
      BY <1>6, <3>3
    <3>5. Run(w, o + 1) \subseteq Run(c.page, c.order)
      BY <2>3, <2>4, <3>2, <3>3, <3>4, Nested DEF Area
    <3>6. p \in Area(c) /\ p \in Area(x)
      BY <1>6, <3>4, <3>5 DEF Area, p, o
    <3>7. c # x
      BY <3>1, <1>2 DEF o
    <3> QED BY <1>1, <3>6, <3>7 DEF Tiles
  <2>6. c.page = d
    <3>1. c.order <= o
      BY <1>2, <2>4, <2>5
    <3>2. d \in Run(c.page, c.order)
      BY <2>3 DEF Area
    <3>3. d <= c.page
      BY <1>2, <1>3, <1>6, <2>4, <3>1, <3>2, Nested
    <3>4. c.page <= d
      BY <1>3, <2>4, <3>2, PowerType DEF Run
    <3> QED BY <1>3, <2>4, <3>3, <3>4
  <2>7. c # x
    BY <1>3, <2>6 DEF p
  <2>8. c \notin U
    BY <2>1, <2>6 DEF Holed, Kept, UsedMarked
  <2>9. c \in F
    BY <2>7, <2>8 DEF C
  <2>10. c.order = o
    BY <2>1, <2>6, <2>9 DEF Holed, Kept, Marked
  <2> QED BY <2>4, <2>6, <2>9, <2>10 DEF y
<1> QED BY <1>9, <1>10 DEF d, o, p, y

(* What does not depend on the lists.                                      *)
LEMMA KeptMarks ==
  ASSUME NEW b, NEW c, NEW size \in Nat, NEW orders \in Nat, NEW F, NEW U, NEW G,
         Kept(b, F, U, G, size, orders), SameMarks(b, c), c \in Contexts(size, orders),
         NEW x, Linked(c, F \ {x}),
         F \subseteq BlocksOf(size, orders), U \subseteq BlocksOf(size, orders)
  PROVE  Kept(c, F \ {x}, U, G, size, orders)
<1>1. Pages(b) = 0..(size - 1) /\ Pages(c) = 0..(size - 1)
  BY ContextFields DEF Kept
<1>2. \A f \in F \union U : f.page \in 0..(size - 1)
  BY BlockFields
<1>3. Marked(c, F \ {x})
  BY <1>1, <1>2 DEF Kept, SameMarks, Marked
<1>4. UsedMarked(c, U)
  BY <1>1, <1>2 DEF Kept, SameMarks, UsedMarked
<1>5. OutsideMarked(c, G)
  BY <1>1 DEF Kept, SameMarks, OutsideMarked
<1>6. NoBuddies(F \ {x}, orders)
  BY DEF Kept, NoBuddies
<1> QED BY <1>3, <1>4, <1>5, <1>6 DEF Kept

(* One round joins the block with its buddy.                               *)
LEMMA MergeJoins ==
  ASSUME NEW b, NEW F, NEW U, NEW G, NEW size \in Nat, NEW orders \in Nat, NEW x,
         Holed(b, F, U, x, G, size, orders), x.order < orders - 1,
         Block(BuddyOf(x.page, x.order), x.order) \in F
  PROVE  LET d == BuddyOf(x.page, x.order)
             y == Block(d, x.order)
             z == Block(IF d < x.page THEN d ELSE x.page, x.order + 1)
         IN  Holed(RemoveFree(b, d, x.order), F \ {y}, U, z, G, size, orders)
<1> DEFINE o == x.order
           p == x.page
           d == BuddyOf(p, o)
           y == Block(d, o)
           w == IF d < p THEN d ELSE p
           z == Block(w, o + 1)
           c == RemoveFree(b, d, o)
           C == F \union U \union {x}
           E == (F \ {y}) \union U
<1>1. Tiles(C, G, size, orders) /\ x \in C /\ y \in C /\ b \in Contexts(size, orders)
      /\ Kept(b, F, U, G, size, orders) /\ x \notin F \union U
  BY DEF Holed, Kept
<1>2. /\ p \in Nat /\ p \in 0..(size - 1) /\ o \in Nat /\ Aligned(p, o)
      /\ C \subseteq BlocksOf(size, orders) /\ x = Block(p, o)
  BY <1>1, BlockFields DEF Tiles
<1>3. d \in Nat /\ d # p
  BY <1>2, Buddies
<1>4. w \in Nat /\ Aligned(w, o + 1) /\ Run(w, o + 1) = Run(p, o) \union Run(d, o)
  BY <1>2, Buddies
<1>5. y.page = d /\ y.order = o /\ z.page = w /\ z.order = o + 1
  BY BlockNames
<1>6. y # x /\ y \in F /\ F \subseteq BlocksOf(size, orders) /\ U \subseteq BlocksOf(size, orders)
  BY <1>2, <1>3, <1>5
<1>7. d \in 0..(size - 1)
  BY <1>5, <1>6, BlockFields
<1>8. z \in BlocksOf(size, orders)
  <2>1. w \in 0..(size - 1) /\ o + 1 \in 0..(orders - 1)
    BY <1>2, <1>7
  <2> HIDE DEF w
  <2> QED BY <2>1 DEF z, Block, BlocksOf
<1>9. /\ c \in Contexts(size, orders) /\ SameMarks(b, c) /\ Linked(c, F \ {y})
  <2>1. c = RemoveFree(b, y.page, y.order)
    BY <1>5
  <2>2. Marked(b, F) /\ Linked(b, F)
    BY <1>1 DEF Kept
  <2> HIDE DEF c, y
  <2> QED BY <1>1, <1>6, <2>1, <2>2, RemoveFreeKeeps
<1>10. Area(z) = Area(x) \union Area(y)
  BY <1>4, <1>5 DEF Area
<1> HIDE DEF o, p, d, y, w, z, c, C, E
<1>11. Kept(c, F \ {y}, U, G, size, orders)
  BY <1>1, <1>6, <1>9, KeptMarks
<1>12. Tiles((C \ {x, y}) \union {z}, G, size, orders)
  <2>1. Aligned(z.page, z.order)
    BY <1>4, <1>5
  <2> QED BY <1>1, <1>8, <1>10, <2>1, TilesJoin
<1>13. C \ {x, y} = E
  <2>1. y \notin U
    BY <1>1, <1>6 DEF Kept, Marked, UsedMarked
  <2> QED BY <1>1, <1>6, <2>1 DEF C, E
<1>14. z \notin E
  <2>1. SUFFICES ASSUME z \in E PROVE FALSE
    OBVIOUS
  <2>2. z # x
    BY <1>2, <1>5 DEF o
  <2>3. z.page \in Area(z) /\ x.page \in Area(x)
    BY <1>1, <1>2, <1>8, AreaHead
  <2>4. x.page \in Area(z)
    BY <1>10, <2>3
  <2>5. z \in C
    BY <2>1 DEF C, E
  <2> QED BY <1>1, <2>2, <2>3, <2>4, <2>5 DEF Tiles
<1>15. Holed(c, F \ {y}, U, z, G, size, orders)
  BY <1>11, <1>12, <1>13, <1>14 DEF Holed, E
<1> QED BY <1>15 DEF o, p, d, y, w, z, c

(* When it cannot be joined any further, it goes into its list.            *)
LEMMA HoleFilled ==
  ASSUME NEW b, NEW F, NEW U, NEW G, NEW size \in Nat, NEW orders \in Nat, NEW x,
         Holed(b, F, U, x, G, size, orders), G \subseteq 0..(size - 1),
         \/ x.order = orders - 1
         \/ Block(BuddyOf(x.page, x.order), x.order) \notin F
  PROVE  Good(AddFree(b, x.page, x.order), F \union {x}, U, G, size, orders)
<1> DEFINE o == x.order
           p == x.page
           c == AddFree(b, p, o)
           C == F \union U \union {x}
           E == F \union {x}
<1>1. Tiles(C, G, size, orders) /\ x \in C /\ b \in Contexts(size, orders)
      /\ Kept(b, F, U, G, size, orders) /\ x \notin F \union U
  BY DEF Holed, Kept
<1>2. /\ p \in Nat /\ p \in 0..(size - 1) /\ o \in Nat /\ o \in 0..(orders - 1) /\ Aligned(p, o)
      /\ C \subseteq BlocksOf(size, orders) /\ x = Block(p, o) /\ Area(x) \subseteq G
  BY <1>1, BlockFields DEF Tiles
<1>3. Marked(b, F) /\ Linked(b, F) /\ NoBuddies(F, orders) /\ UsedMarked(b, U)
      /\ OutsideMarked(b, G)
  BY <1>1 DEF Kept
<1>4. /\ F \subseteq BlocksOf(size, orders) /\ U \subseteq BlocksOf(size, orders)
      /\ x \in BlocksOf(size, orders)
  BY <1>2
<1>5. \A f \in F \union U : f.page # p /\ f.page \in 0..(size - 1)
  <2>1. ASSUME NEW f \in F \union U PROVE f.page # x.page
    <3>1. f \in C /\ f # x
      BY <1>1
    <3> HIDE DEF C
    <3> QED BY <1>1, <3>1, TilesApart
  <2> QED BY <2>1, <1>4, BlockFields
<1>6. c \in Contexts(size, orders) /\ PageIsAdded(b, c, p, o, b.free[o])
  BY <1>1, <1>2, AddFreeFields
<1>7. Linked(c, E)
  <2>1. \A f \in F : f.page # x.page
    BY <1>5
  <2> HIDE DEF p, o
  <2>2. Linked(AddFree(b, x.page, x.order), F \union {x})
    BY <1>1, <1>3, <1>4, <2>1, AddFreeKeeps
  <2> QED BY <2>2 DEF p, o
<1>8. Pages(b) = 0..(size - 1) /\ Pages(c) = 0..(size - 1)
  BY <1>1, <1>6, ContextFields
<1>9. /\ c.all[p].free /\ c.all[p].order = o
      /\ \A q \in 0..(size - 1) : q # p =>
           c.all[q].free = b.all[q].free /\ c.all[q].order = b.all[q].order
  BY <1>6, <1>8 DEF PageIsAdded
<1> HIDE DEF c
<1>10. Marked(c, E)
  BY <1>3, <1>5, <1>9 DEF Marked
<1>11. UsedMarked(c, U)
  BY <1>3, <1>5, <1>9 DEF UsedMarked
<1>12. OutsideMarked(c, G)
  <2>1. p \in G
    BY <1>2, <1>4, AreaHead
  <2> QED BY <1>3, <1>8, <1>9, <2>1 DEF OutsideMarked
<1>13. NoBuddies(E, orders)
  <2>1. ASSUME NEW f \in E, f.order < orders - 1
        PROVE  Block(BuddyOf(f.page, f.order), f.order) \notin E
    <3> DEFINE d == BuddyOf(f.page, f.order)
               y == Block(d, f.order)
    <3>1. f.page \in Nat /\ f.order \in Nat /\ Aligned(f.page, f.order)
      BY <1>1, <1>4, BlockFields DEF Tiles
    <3>2. d # f.page /\ BuddyOf(d, f.order) = f.page /\ f = Block(f.page, f.order)
      BY <1>4, <3>1, Buddies, BlockFields
    <3>3. y.page = d /\ y.order = f.order
      BY BlockNames
    <3> HIDE DEF d, y
    <3>4. CASE f = x
      <4>1. y # x
        BY <3>2, <3>3, <3>4
      <4>2. y \notin F
        BY <1>2, <2>1, <3>4 DEF y, d
      <4> QED BY <4>1, <4>2 DEF y, d
    <3>5. CASE f # x
      <4>1. f \in F
        BY <3>5
      <4>2. y \notin F
        BY <1>3, <2>1, <4>1 DEF NoBuddies, y, d
      <4>3. y # x
        <5>1. SUFFICES ASSUME y = x PROVE FALSE
          OBVIOUS
        <5>2. Block(BuddyOf(x.page, x.order), x.order) = f
          BY <3>2, <3>3, <5>1
        <5>3. x.order # orders - 1
          BY <1>2, <2>1, <3>3, <5>1
        <5> QED BY <4>1, <5>2, <5>3
      <4> QED BY <4>2, <4>3 DEF y, d
    <3> QED BY <3>4, <3>5
  <2> QED BY <2>1 DEF NoBuddies
<1>14. E \union U = C
  OBVIOUS
<1>15. Good(c, E, U, G, size, orders)
  BY <1>1, <1>6, <1>7, <1>10, <1>11, <1>12, <1>13, <1>14 DEF Good, Kept
<1> QED BY <1>15 DEF c

-----------------------------------------------------------------------------
(* The loop of buddy_free: after the round of an order the block is of     *)
(* that order, or it could not be merged.                                  *)
Start(b, index, first) == [ctxt |-> b, index |-> index, order |-> first]

Round(f, k, start) ==
  IF k = start.order THEN start ELSE Merge(f[k - 1], k - 1)

Rounds(f, start, last) ==
  /\ DOMAIN f = start.order..last
  /\ \A k \in start.order..last : f[k] = Round(f, k, start)

HoleAt(m, k, U, G, size, orders) ==
  \E F : /\ Holed(m.ctxt, F, U, Block(m.index, m.order), G, size, orders)
         /\ m.order <= k
         /\ m.order < k => Block(BuddyOf(m.index, m.order), m.order) \notin F

LEMMA RoundsExist ==
  ASSUME NEW start, start.order \in Nat, NEW last \in Nat, start.order <= last
  PROVE  \E f : Rounds(f, start, last)
<1> DEFINE first == start.order
           T == {n \in Nat : n >= first /\ ~ \E f : Rounds(f, start, n)}
<1>1. SUFFICES ASSUME T # {} PROVE FALSE
  OBVIOUS
<1>2. PICK n \in T : \A m \in T : n <= m
  BY <1>1, LeastNumber
<1>3. n \in Nat /\ n >= first /\ ~ \E f : Rounds(f, start, n)
  BY <1>2
<1>4. CASE n = first
  <2> DEFINE f == [k \in first..first |-> start]
  <2>1. \A k \in first..first : k = first
    OBVIOUS
  <2>2. Rounds(f, start, first)
    BY <2>1 DEF Rounds, Round
  <2> QED BY <1>3, <1>4, <2>2
<1>5. CASE n # first
  <2>1. n - 1 \in Nat /\ n - 1 >= first /\ ~(n <= n - 1)
    BY <1>3, <1>5
  <2>2. PICK g : Rounds(g, start, n - 1)
    BY <1>2, <2>1
  <2> DEFINE f == [k \in first..n |-> IF k = n THEN Round(g, n, start) ELSE g[k]]
  <2>3. \A k \in first..n : /\ k # first => k - 1 \in first..n /\ k - 1 # n
                            /\ k # n => k \in first..(n - 1)
    BY <1>3
  <2>4. ASSUME NEW k \in first..n PROVE f[k] = Round(f, k, start)
    <3>1. k # first => f[k - 1] = g[k - 1]
      BY <2>3
    <3>2. Round(f, k, start) = Round(g, k, start)
      <4> HIDE DEF f
      <4> QED BY <3>1 DEF Round
    <3>3. k # n => g[k] = Round(g, k, start)
      BY <2>2, <2>3 DEF Rounds
    <3>4. f[k] = IF k = n THEN Round(g, n, start) ELSE g[k]
      OBVIOUS
    <3> HIDE DEF f
    <3> QED BY <3>2, <3>3, <3>4
  <2>5. DOMAIN f = first..n
    OBVIOUS
  <2> HIDE DEF f
  <2>6. Rounds(f, start, n)
    BY <2>4, <2>5 DEF Rounds
  <2> QED BY <1>3, <2>6
<1> QED BY <1>4, <1>5

LEMMA MergeRound ==
  ASSUME NEW U, NEW G, NEW size \in Nat, NEW orders \in Nat, G \subseteq 0..(size - 1),
         NEW m, NEW k \in Nat, k < orders - 1, HoleAt(m, k, U, G, size, orders)
  PROVE  HoleAt(Merge(m, k), k + 1, U, G, size, orders)
<1> DEFINE x == Block(m.index, m.order)
           d == BuddyOf(m.index, m.order)
           y == Block(d, m.order)
<1>1. PICK F : /\ Holed(m.ctxt, F, U, x, G, size, orders) /\ m.order <= k
               /\ m.order < k => y \notin F
  BY DEF HoleAt
<1>2. x.page = m.index /\ x.order = m.order
  BY BlockNames
<1>3. x \in BlocksOf(size, orders) /\ m.order \in Nat
  <2>1. x \in BlocksOf(size, orders)
    BY <1>1 DEF Holed, Tiles
  <2> QED BY <1>2, <2>1, BlockFields
<1>4. Mergeable(m.ctxt, d, m.order) <=> y \in F
  <2>1. Mergeable(m.ctxt, BuddyOf(x.page, x.order), x.order)
          <=> Block(BuddyOf(x.page, x.order), x.order) \in F
    BY <1>1, MergeableIsFree
  <2> QED BY <1>2, <2>1
<1>5. CASE m.order = k /\ y \in F
  <2> DEFINE w == IF d < m.index THEN d ELSE m.index
             c == RemoveFree(m.ctxt, d, m.order)
             n == Merge(m, k)
             z == Block(w, m.order + 1)
  <2>1. Holed(c, F \ {y}, U, z, G, size, orders)
    <3>1. x.order < orders - 1 /\ Block(BuddyOf(x.page, x.order), x.order) \in F
      BY <1>2, <1>5
    <3>2. LET e == BuddyOf(x.page, x.order)
              v == Block(e, x.order)
              u == Block(IF e < x.page THEN e ELSE x.page, x.order + 1)
          IN  Holed(RemoveFree(m.ctxt, e, x.order), F \ {v}, U, u, G, size, orders)
      <4> HIDE DEF x
      <4> QED BY <1>1, <3>1, MergeJoins
    <3> QED BY <1>2, <3>2
  <2>2. n = [ctxt |-> c, index |-> w, order |-> k + 1]
    BY <1>4, <1>5 DEF Merge
  <2> HIDE DEF w, c, n, y, d
  <2>3. n.ctxt = c /\ n.index = w /\ n.order = m.order + 1 /\ n.order = k + 1
    BY <1>5, <2>2
  <2>4. Holed(n.ctxt, F \ {y}, U, Block(n.index, n.order), G, size, orders)
    BY <2>1, <2>3
  <2>5. n.order <= k + 1 /\ ~(n.order < k + 1)
    BY <2>3
  <2>6. HoleAt(n, k + 1, U, G, size, orders)
    BY <2>4, <2>5 DEF HoleAt
  <2> QED BY <2>6 DEF n
<1>6. CASE ~(m.order = k /\ y \in F)
  <2>1. Merge(m, k) = m
    BY <1>4, <1>6 DEF Merge
  <2>2. m.order <= k + 1 /\ y \notin F
    BY <1>1, <1>3, <1>6
  <2>3. HoleAt(m, k + 1, U, G, size, orders)
    BY <1>1, <2>2 DEF HoleAt
  <2> QED BY <2>1, <2>3
<1> QED BY <1>5, <1>6

LEMMA MergeRounds ==
  ASSUME NEW U, NEW G, NEW size \in Nat, NEW orders \in Nat, G \subseteq 0..(size - 1),
         NEW start, start.order \in 0..(orders - 1),
         HoleAt(start, start.order, U, G, size, orders),
         NEW f, Rounds(f, start, orders - 1)
  PROVE  HoleAt(f[orders - 1], orders - 1, U, G, size, orders)
<1> DEFINE first == start.order
           T == {k \in first..(orders - 1) : ~HoleAt(f[k], k, U, G, size, orders)}
<1>1. SUFFICES ASSUME T # {} PROVE FALSE
  <2>1. orders - 1 \in first..(orders - 1)
    OBVIOUS
  <2> QED BY <1>1, <2>1
<1>2. T \subseteq Nat
  OBVIOUS
<1>3. PICK k \in T : \A i \in T : k <= i
  BY <1>1, <1>2, LeastNumber
<1>4. k \in first..(orders - 1) /\ ~HoleAt(f[k], k, U, G, size, orders) /\ k \in Nat
  BY <1>2, <1>3
<1>5. f[k] = Round(f, k, start)
  BY <1>4 DEF Rounds
<1>6. k # first
  BY <1>4, <1>5 DEF Round
<1>7. k - 1 \in first..(orders - 1) /\ ~(k <= k - 1) /\ k - 1 \in Nat /\ k - 1 < orders - 1
      /\ (k - 1) + 1 = k
  BY <1>4, <1>6
<1>8. HoleAt(f[k - 1], k - 1, U, G, size, orders)
  BY <1>3, <1>7
<1>9. HoleAt(Merge(f[k - 1], k - 1), (k - 1) + 1, U, G, size, orders)
  BY <1>7, <1>8, MergeRound
<1> QED BY <1>4, <1>5, <1>6, <1>7, <1>9 DEF Round

(* buddy_free gives a block back, whatever the words of the pages in it.   *)
LEMMA BuddyFreeKeeps ==
  ASSUME NEW b, NEW F, NEW U, NEW G, NEW size \in Nat, NEW orders \in Nat,
         Good(b, F, U, G, size, orders), G \subseteq 0..(size - 1), NEW x \in U
  PROVE  \E E : Good(BuddyFree(b, x.page), E, U \ {x}, G, size, orders)
<1> DEFINE p == x.page
           o == x.order
           V == U \ {x}
           start == Start(b, p, o)
<1>1. /\ b \in Contexts(size, orders) /\ x \in BlocksOf(size, orders)
      /\ ~b.all[p].free /\ b.all[p].order = o
  BY DEF Good, Kept, UsedMarked, Tiles
<1>2. /\ p \in 0..(size - 1) /\ o \in 0..(orders - 1) /\ x = Block(p, o)
      /\ Pages(b) = 0..(size - 1) /\ b.order = orders
  BY <1>1, BlockFields, ContextFields
<1>3. start.ctxt = b /\ start.index = p /\ start.order = o
  BY DEF Start
<1>4. HoleAt(start, start.order, V, G, size, orders)
  <2>1. Holed(b, F, V, x, G, size, orders)
    BY HoleMade
  <2>2. start.order <= start.order /\ ~(start.order < start.order)
    BY <1>2, <1>3
  <2> HIDE DEF start, p, o, V
  <2> QED BY <1>2, <1>3, <2>1, <2>2 DEF HoleAt
<1> DEFINE Rec(f) == f = [order \in o..(b.order - 1) |->
                            IF order = o THEN [ctxt |-> b, index |-> p, order |-> o]
                            ELSE Merge(f[order - 1], order - 1)]
           chosen == CHOOSE f : Rec(f)
           last == chosen[orders - 1]
<1>5. Rec(chosen)
  <2>1. orders - 1 \in Nat /\ start.order <= orders - 1 /\ start.order \in Nat
    BY <1>2, <1>3
  <2>2. PICK f : Rounds(f, start, orders - 1)
    <3> HIDE DEF start
    <3> QED BY <2>1, RoundsExist
  <2> DEFINE g == [order \in o..(b.order - 1) |->
                     IF order = o THEN [ctxt |-> b, index |-> p, order |-> o]
                     ELSE Merge(f[order - 1], order - 1)]
             h == [order \in o..(b.order - 1) |-> f[order]]
  <2>3. \A k \in o..(b.order - 1) : f[k] = g[k]
    BY <1>2, <1>3, <2>2 DEF Rounds, Round, Start
  <2>4. h = g
    <3>1. \A k \in o..(b.order - 1) : h[k] = g[k]
      BY <2>3
    <3> QED BY <3>1
  <2>5. Rec(h)
    <3> DEFINE i == [order \in o..(b.order - 1) |->
                       IF order = o THEN [ctxt |-> b, index |-> p, order |-> o]
                       ELSE Merge(h[order - 1], order - 1)]
    <3>1. \A k \in o..(b.order - 1) : k # o => k - 1 \in o..(b.order - 1)
      BY <1>2
    <3>2. \A k \in o..(b.order - 1) : k # o => h[k - 1] = f[k - 1]
      BY <3>1
    <3>3. \A k \in o..(b.order - 1) : g[k] = i[k]
      <4> HIDE DEF h
      <4> QED BY <3>2
    <3>4. g = i
      BY <3>3
    <3> QED BY <2>4, <3>4
  <2> HIDE DEF Rec
  <2> QED BY <2>5
<1>6. Rounds(chosen, start, orders - 1)
  <2> HIDE DEF chosen
  <2> QED BY <1>2, <1>3, <1>5 DEF Rounds, Round, Start
<1>7. BuddyFree(b, p) = AddFree(last.ctxt, last.index, last.order)
  <2>1. ~(p \notin Pages(b) \/ b.all[p].free)
    BY <1>1, <1>2
  <2> QED BY <1>1, <1>2, <2>1 DEF BuddyFree
<1> HIDE DEF chosen, start, Rec, p, o
<1>8. HoleAt(last, orders - 1, V, G, size, orders)
  <2>1. start.order \in 0..(orders - 1)
    BY <1>2, <1>3
  <2> HIDE DEF V
  <2> QED BY <1>4, <1>6, <2>1, MergeRounds
<1> HIDE DEF last, V
<1> DEFINE z == Block(last.index, last.order)
<1>9. PICK E : /\ Holed(last.ctxt, E, V, z, G, size, orders) /\ last.order <= orders - 1
               /\ last.order < orders - 1 =>
                    Block(BuddyOf(last.index, last.order), last.order) \notin E
  BY <1>8 DEF HoleAt
<1>10. z.page = last.index /\ z.order = last.order
  BY BlockNames
<1> HIDE DEF z
<1>11. z \in BlocksOf(size, orders)
  BY <1>9 DEF Holed, Tiles
<1>12. \/ z.order = orders - 1
       \/ Block(BuddyOf(z.page, z.order), z.order) \notin E
  BY <1>9, <1>10, <1>11, BlockFields
<1>13. Good(AddFree(last.ctxt, z.page, z.order), E \union {z}, V, G, size, orders)
  BY <1>9, <1>12, HoleFilled
<1> QED BY <1>7, <1>10, <1>13 DEF p, V

-----------------------------------------------------------------------------
(* Freeing page by page.  Left are the pages still to be freed; each of    *)
(* them counts as a block in use.                                          *)
Left(n, first, count, kept) ==
  {Block(p, 0) : p \in ((first + n)..(first + count - 1)) \ kept}

Turned(c, page, kept) == IF page \in kept THEN c ELSE BuddyFree(c, page)

Turn(f, n, b, first, kept) ==
  IF n = 0 THEN b ELSE Turned(f[n - 1], first + n - 1, kept)

Turns(f, last, b, first, kept) ==
  DOMAIN f = 0..last /\ \A n \in 0..last : f[n] = Turn(f, n, b, first, kept)

Shared(b, U, G, size, orders) == \E F : Good(b, F, U, G, size, orders)

LEMMA TurnsExist ==
  ASSUME NEW b, NEW first, NEW kept
  PROVE  \A n \in Nat : \E f : Turns(f, n, b, first, kept)
<1> DEFINE T == {n \in Nat : ~ \E f : Turns(f, n, b, first, kept)}
<1>1. SUFFICES ASSUME T # {} PROVE FALSE
  OBVIOUS
<1>2. PICK n \in T : \A m \in T : n <= m
  BY <1>1, LeastNumber
<1>3. CASE n = 0
  <2> DEFINE f == [k \in 0..0 |-> b]
  <2>1. \A k \in 0..0 : k = 0
    OBVIOUS
  <2>2. Turns(f, 0, b, first, kept)
    BY <2>1 DEF Turns, Turn
  <2> QED BY <1>2, <1>3, <2>2
<1>4. CASE n # 0
  <2>1. n - 1 \in Nat /\ ~(n <= n - 1)
    BY <1>2, <1>4
  <2>2. PICK g : Turns(g, n - 1, b, first, kept)
    BY <1>2, <2>1
  <2> DEFINE f == [k \in 0..n |-> IF k = n THEN Turn(g, n, b, first, kept) ELSE g[k]]
  <2>3. \A k \in 0..n : /\ k # 0 => k - 1 \in 0..n /\ k - 1 # n
                        /\ k # n => k \in 0..(n - 1)
    BY <1>2
  <2>4. ASSUME NEW k \in 0..n PROVE f[k] = Turn(f, k, b, first, kept)
    <3>1. k # 0 => f[k - 1] = g[k - 1]
      BY <2>3
    <3>2. Turn(f, k, b, first, kept) = Turn(g, k, b, first, kept)
      <4> HIDE DEF f
      <4> QED BY <3>1 DEF Turn
    <3>3. k # n => g[k] = Turn(g, k, b, first, kept)
      BY <2>2, <2>3 DEF Turns
    <3>4. f[k] = IF k = n THEN Turn(g, n, b, first, kept) ELSE g[k]
      OBVIOUS
    <3> HIDE DEF f
    <3> QED BY <3>2, <3>3, <3>4
  <2>5. DOMAIN f = 0..n
    OBVIOUS
  <2> HIDE DEF f
  <2>6. Turns(f, n, b, first, kept)
    BY <2>4, <2>5 DEF Turns
  <2> QED BY <1>2, <2>6
<1> QED BY <1>3, <1>4

LEMMA OneTurn ==
  ASSUME NEW c, NEW V, NEW G, NEW size \in Nat, NEW orders \in Nat,
         G \subseteq 0..(size - 1), NEW first \in Nat, NEW count \in Nat, NEW kept,
         \A x \in Left(0, first, count, kept) : x \notin V,
         NEW n \in Nat, n < count,
         Shared(c, V \union Left(n, first, count, kept), G, size, orders)
  PROVE  Shared(Turned(c, first + n, kept),
                V \union Left(n + 1, first, count, kept), G, size, orders)
<1> DEFINE x == Block(first + n, 0)
           U == V \union Left(n, first, count, kept)
           W == V \union Left(n + 1, first, count, kept)
           P(i) == ((first + i)..(first + count - 1)) \ kept
<1>1. /\ P(n + 1) = P(n) \ {first + n} /\ P(n) \subseteq P(0)
      /\ first + n \notin kept => first + n \in P(n)
  OBVIOUS
<1>2. \A p : Block(p, 0) = x <=> p = first + n
  BY BlockNames
<1> HIDE DEF P
<1>3. CASE first + n \in kept
  <2>1. P(n + 1) = P(n)
    BY <1>1, <1>3 DEF P
  <2>2. W = U
    BY <2>1 DEF Left, P
  <2> QED BY <1>3, <2>2 DEF Turned
<1>4. CASE first + n \notin kept
  <2>1. x \in Left(n, first, count, kept) /\ x \in Left(0, first, count, kept)
    BY <1>1, <1>4 DEF Left, P
  <2>2. Left(n + 1, first, count, kept) = Left(n, first, count, kept) \ {x}
    <3>1. Left(n, first, count, kept) = {Block(p, 0) : p \in P(n)}
      BY DEF Left, P
    <3>2. Left(n + 1, first, count, kept) = {Block(p, 0) : p \in P(n + 1)}
      BY DEF Left, P
    <3> HIDE DEF x
    <3> QED BY <1>1, <1>2, <3>1, <3>2
  <2>3. U \ {x} = W /\ x \in U
    BY <2>1, <2>2
  <2>4. \E E : Good(BuddyFree(c, x.page), E, U \ {x}, G, size, orders)
    <3>1. PICK F : Good(c, F, U, G, size, orders)
      BY DEF Shared
    <3> HIDE DEF x, U
    <3> QED BY <2>3, <3>1, BuddyFreeKeeps
  <2>5. x.page = first + n
    BY BlockNames
  <2> HIDE DEF x, U, W
  <2>6. \E E : Good(BuddyFree(c, first + n), E, W, G, size, orders)
    BY <2>3, <2>4, <2>5
  <2> QED BY <1>4, <2>6 DEF W, Shared, Turned
<1> QED BY <1>3, <1>4

LEMMA FreeEachKeeps ==
  ASSUME NEW b, NEW V, NEW G, NEW size \in Nat, NEW orders \in Nat,
         G \subseteq 0..(size - 1), NEW first \in Nat, NEW count \in Nat, NEW kept,
         \A x \in Left(0, first, count, kept) : x \notin V,
         Shared(b, V \union Left(0, first, count, kept), G, size, orders)
  PROVE  Shared(FreeEach(b, first, count, kept), V, G, size, orders)
<1> DEFINE Rec(f) == f = [n \in 0..count |->
                            IF n = 0 THEN b
                            ELSE IF first + n - 1 \in kept THEN f[n - 1]
                            ELSE BuddyFree(f[n - 1], first + n - 1)]
           f == CHOOSE f : Rec(f)
           Holds(n) == Shared(f[n], V \union Left(n, first, count, kept), G, size, orders)
<1>1. Rec(f)
  <2>1. PICK g : Turns(g, count, b, first, kept)
    BY TurnsExist
  <2> DEFINE h == [n \in 0..count |-> g[n]]
             i == [n \in 0..count |->
                            IF n = 0 THEN b
                            ELSE IF first + n - 1 \in kept THEN h[n - 1]
                            ELSE BuddyFree(h[n - 1], first + n - 1)]
  <2>2. \A n \in 0..count : n # 0 => n - 1 \in 0..count
    OBVIOUS
  <2>3. \A n \in 0..count : h[n] = g[n] /\ (n # 0 => h[n - 1] = g[n - 1])
    BY <2>2
  <2>4. \A n \in 0..count : h[n] = i[n]
    <3> HIDE DEF h
    <3> QED BY <2>1, <2>3 DEF Turns, Turn, Turned
  <2>5. h = i
    BY <2>4
  <2>6. Rec(h)
    BY <2>5
  <2> HIDE DEF Rec
  <2> QED BY <2>6
<1>2. Turns(f, count, b, first, kept)
  <2> HIDE DEF f
  <2> QED BY <1>1 DEF Turns, Turn, Turned
<1>3. FreeEach(b, first, count, kept) = f[count]
  BY DEF FreeEach
<1> HIDE DEF f, Rec
<1> DEFINE T == {n \in 0..count : ~Holds(n)}
<1>4. T = {}
  <2>1. SUFFICES ASSUME T # {} PROVE FALSE
    OBVIOUS
  <2>2. T \subseteq Nat
    OBVIOUS
  <2>3. PICK n \in T : \A m \in T : n <= m
    BY <2>1, <2>2, LeastNumber
  <2>4. n \in 0..count /\ ~Holds(n) /\ f[n] = Turn(f, n, b, first, kept)
    BY <1>2, <2>3 DEF Turns
  <2>5. n # 0
    BY <2>4 DEF Turn
  <2>6. n - 1 \in 0..count /\ ~(n <= n - 1) /\ n - 1 \in Nat /\ n - 1 < count
        /\ (n - 1) + 1 = n /\ first + (n - 1) = first + n - 1
    BY <2>4, <2>5
  <2>7. Holds(n - 1)
    BY <2>3, <2>6
  <2> DEFINE k == n - 1
  <2>8. k \in Nat /\ k < count /\ k + 1 = n /\ first + k = first + n - 1
    BY <2>6
  <2> DEFINE c == f[k]
  <2>9. Shared(c, V \union Left(k, first, count, kept), G, size, orders)
    BY <2>7
  <2>10. f[n] = Turned(c, first + k, kept)
    BY <2>4, <2>5, <2>8 DEF Turn
  <2> HIDE DEF k, c, Holds, T
  <2>11. Shared(Turned(c, first + k, kept),
                V \union Left(k + 1, first, count, kept), G, size, orders)
    BY <2>8, <2>9, OneTurn
  <2>12. Holds(n)
    BY <2>8, <2>10, <2>11 DEF Holds
  <2> QED BY <2>4, <2>12
<1>5. Holds(count)
  <2>1. count \in 0..count
    OBVIOUS
  <2> HIDE DEF Holds
  <2> QED BY <1>4, <2>1
<1>6. Left(count, first, count, kept) = {}
  BY DEF Left
<1>7. V \union Left(count, first, count, kept) = V
  BY <1>6
<1> QED BY <1>3, <1>5, <1>7

-----------------------------------------------------------------------------
(* The lists do not see what happens to the words of other pages.          *)
LEMMA LinkedElsewhere ==
  ASSUME NEW size \in Nat, NEW orders \in Nat,
         NEW b \in Contexts(size, orders), NEW c \in Contexts(size, orders),
         NEW F, F \subseteq BlocksOf(size, orders), Linked(b, F),
         c.free = b.free, \A f \in F : c.all[f.page] = b.all[f.page]
  PROVE  Linked(c, F)
<1>1. /\ Pages(b) = 0..(size - 1) /\ Pages(c) = 0..(size - 1)
      /\ b.order = orders /\ c.order = orders
  BY ContextFields
<1>2. PICK rank \in [Pages(b) -> Nat] : LinkedBy(b, F, rank)
  BY DEF Linked
<1>3. ASSUME NEW o \in 0..(orders - 1)
      PROVE  Chain(ListOf(F, o), c.free[o], NextOf(c), PrevOf(c), rank)
  <2> DEFINE S == ListOf(F, o)
             h == b.free[o]
             nx == NextOf(b)
             pv == PrevOf(b)
             nw == NextOf(c)
             pw == PrevOf(c)
  <2>1. Chain(S, h, nx, pv, rank)
    BY <1>1, <1>2 DEF LinkedBy
  <2>2. \A p \in S : p \in 0..(size - 1) /\ c.all[p] = b.all[p]
    <3>1. ASSUME NEW p \in S PROVE p \in 0..(size - 1) /\ c.all[p] = b.all[p]
      <4>1. Block(p, o) \in F
        BY DEF ListOf
      <4>2. Block(p, o).page = p
        BY BlockNames
      <4> QED BY <4>1, <4>2, BlockFields
    <3> QED BY <3>1
  <2>3. \A p \in S : nw[p] = nx[p] /\ pw[p] = pv[p]
    BY <1>1, <2>2 DEF NextOf, PrevOf
  <2>4. \A p, q \in S : rank[p] < rank[q] => rank[p] < rank[q]
    OBVIOUS
  <2>5. c.free[o] = h
    OBVIOUS
  <2> HIDE DEF S, h, nx, pv, nw, pw
  <2>6. Chain(S, h, nw, pw, rank)
    BY <2>1, <2>3, <2>4, ChainElsewhere
  <2> QED BY <2>5, <2>6 DEF S, nw, pw
<1>4. LinkedBy(c, F, rank)
  BY <1>1, <1>3 DEF LinkedBy
<1> QED BY <1>1, <1>2, <1>4 DEF Linked

(* Single pages.                                                           *)
LEMMA Singles ==
  ASSUME NEW size \in Nat, NEW orders \in Nat, orders >= 1, NEW p \in 0..(size - 1)
  PROVE  /\ Block(p, 0) \in BlocksOf(size, orders) /\ Aligned(p, 0)
         /\ Area(Block(p, 0)) = {p}
         /\ Aligned(Block(p, 0).page, Block(p, 0).order)
<1>1. Block(p, 0).page = p /\ Block(p, 0).order = 0
  BY BlockNames
<1>2. Power[0] = 1
  BY PowerSteps
<1>3. Aligned(p, 0)
  BY <1>2 DEF Aligned
<1>4. Area(Block(p, 0)) = p..p
  <2>1. p + 1 - 1 = p
    OBVIOUS
  <2> QED BY <1>1, <1>2, <2>1 DEF Area, Run
<1>5. p..p = {p}
  OBVIOUS
<1>6. Block(p, 0) \in BlocksOf(size, orders)
  BY DEF Block, BlocksOf
<1> QED BY <1>1, <1>3, <1>4, <1>5, <1>6

(* The pages of a block beside a part of it, and the part.                 *)
LEMMA PartTiles ==
  ASSUME NEW size \in Nat, NEW orders \in Nat, orders >= 1,
         NEW A, A \subseteq 0..(size - 1),
         NEW y \in BlocksOf(size, orders), Aligned(y.page, y.order), Area(y) \subseteq A
  PROVE  Tiles({y} \union {Block(p, 0) : p \in A \ Area(y)}, A, size, orders)
<1> DEFINE B == {y} \union {Block(p, 0) : p \in A \ Area(y)}
<1>1. \A p \in A : /\ Block(p, 0) \in BlocksOf(size, orders) /\ Area(Block(p, 0)) = {p}
                  /\ Aligned(Block(p, 0).page, Block(p, 0).order)
  BY Singles
<1>2. B \subseteq BlocksOf(size, orders)
  BY <1>1
<1>3. \A c \in B : Aligned(c.page, c.order) /\ Area(c) \subseteq A
  BY <1>1
<1>4. \A c, d \in B : c # d => Area(c) \cap Area(d) = {}
  BY <1>1
<1>5. \A g \in A : \E c \in B : g \in Area(c)
  <2>1. ASSUME NEW g \in A PROVE \E c \in B : g \in Area(c)
    <3>1. CASE g \in Area(y)
      BY <3>1
    <3>2. CASE g \notin Area(y)
      <4>1. Block(g, 0) \in B /\ g \in Area(Block(g, 0))
        BY <1>1, <3>2
      <4> HIDE DEF B
      <4> QED BY <4>1
    <3> QED BY <3>1, <3>2
  <2> QED BY <2>1
<1> QED BY <1>2, <1>3, <1>4, <1>5 DEF Tiles

(* What buddy_allocate_subset leaves before it frees: the words of the     *)
(* block's pages are cleared, but for those inside the part.               *)
InUse(b, x, y) ==
  [b EXCEPT !.all =
    [i \in Pages(b) |->
       IF i = y.page THEN [Cleared EXCEPT !.order = y.order]
       ELSE IF i \in Area(x) \ Area(y) THEN Cleared ELSE b.all[i]]]

LEMMA InUseFields ==
  ASSUME NEW size \in Nat, NEW orders \in Nat, NEW b \in Contexts(size, orders),
         NEW x \in BlocksOf(size, orders), NEW y \in BlocksOf(size, orders)
  PROVE  LET c == InUse(b, x, y)
         IN  /\ c \in Contexts(size, orders) /\ c.free = b.free
             /\ ~c.all[y.page].free /\ c.all[y.page].order = y.order
             /\ \A i \in 0..(size - 1) :
                  /\ i # y.page /\ i \in Area(x) \ Area(y) =>
                       ~c.all[i].free /\ c.all[i].order = 0
                  /\ i # y.page /\ i \notin Area(x) => c.all[i] = b.all[i]
<1> DEFINE c == InUse(b, x, y)
           D == 0..(size - 1)
           W == PageWords(size, orders)
           mine == [Cleared EXCEPT !.order = y.order]
           a == [i \in D |->
                   IF i = y.page THEN mine
                   ELSE IF i \in Area(x) \ Area(y) THEN Cleared ELSE b.all[i]]
<1>1. /\ b.all \in [D -> W] /\ b.free \in [0..(orders - 1) -> D \union {Empty}]
      /\ b.index_max = size /\ b.order = orders /\ Pages(b) = D
  BY ContextFields
<1>2. y.page \in D /\ y.order \in 0..(orders - 1) /\ 0 \in D /\ 0 \in 0..(orders - 1)
  BY BlockFields
<1>3. Cleared \in W /\ ~Cleared.free /\ Cleared.order = 0
  BY <1>2 DEF Cleared, PageWords
<1>4. mine \in W /\ ~mine.free /\ mine.order = y.order
  BY <1>2 DEF Cleared, PageWords
<1>5. /\ c.index_max = b.index_max /\ c.order = b.order /\ c.free = b.free /\ c.all = a
      /\ c = [index_max |-> c.index_max, order |-> c.order, free |-> c.free, all |-> c.all]
  <2>1. c = [b EXCEPT !.all = a]
    BY <1>1 DEF InUse
  <2> HIDE DEF a, c
  <2> QED BY <2>1 DEF Contexts
<1> HIDE DEF mine, W, c
<1>6. a \in [D -> W]
  BY <1>1, <1>3, <1>4
<1>7. /\ ~a[y.page].free /\ a[y.page].order = y.order
      /\ \A i \in D :
           /\ i # y.page /\ i \in Area(x) \ Area(y) => ~a[i].free /\ a[i].order = 0
           /\ i # y.page /\ i \notin Area(x) => a[i] = b.all[i]
  BY <1>2, <1>3, <1>4
<1> HIDE DEF a
<1>8. c \in Contexts(size, orders)
  BY <1>1, <1>5, <1>6 DEF Contexts, D, W
<1> QED BY <1>5, <1>7, <1>8 DEF c, D

(* A part y of the free block x goes into use, and the rest of it is ready *)
(* to be freed page by page.                                               *)
Rest(x, y) == {Block(p, 0) : p \in Area(x) \ Area(y)}

LEMMA PartTaken ==
  ASSUME NEW b, NEW F, NEW U, NEW G, NEW size \in Nat, NEW orders \in Nat,
         G \subseteq 0..(size - 1), Good(b, F, U, G, size, orders), NEW x \in F,
         NEW y \in BlocksOf(size, orders), Aligned(y.page, y.order),
         Area(y) \subseteq Area(x)
  PROVE  /\ Good(InUse(RemoveFree(b, x.page, x.order), x, y), F \ {x},
                 U \union {y} \union Rest(x, y), G, size, orders)
         /\ \A r \in Rest(x, y) : r \notin U \union {y}
<1> DEFINE out == RemoveFree(b, x.page, x.order)
           c == InUse(out, x, y)
           E == F \ {x}
           L == Rest(x, y)
           V == U \union {y}
<1>1. /\ Tiles(F \union U, G, size, orders) /\ b \in Contexts(size, orders)
      /\ Kept(b, F, U, G, size, orders) /\ Marked(b, F) /\ Linked(b, F) /\ UsedMarked(b, U)
  BY DEF Good, Kept
<1>2. /\ F \subseteq BlocksOf(size, orders) /\ U \subseteq BlocksOf(size, orders)
      /\ x \in BlocksOf(size, orders) /\ Area(x) \subseteq G
  BY <1>1 DEF Tiles
<1>3. out \in Contexts(size, orders) /\ SameMarks(b, out) /\ Linked(out, E)
  BY <1>1, <1>2, RemoveFreeKeeps
<1>4. Kept(out, E, U, G, size, orders)
  BY <1>1, <1>2, <1>3, KeptMarks
<1>5. /\ c \in Contexts(size, orders) /\ c.free = out.free
      /\ ~c.all[y.page].free /\ c.all[y.page].order = y.order
      /\ \A i \in 0..(size - 1) :
           /\ i # y.page /\ i \in Area(x) \ Area(y) => ~c.all[i].free /\ c.all[i].order = 0
           /\ i # y.page /\ i \notin Area(x) => c.all[i] = out.all[i]
  BY <1>2, <1>3, InUseFields
<1> HIDE DEF out, c
<1>6. y.page \in Area(y) /\ y.page \in Area(x) /\ x \notin U
  <2>1. y.page \in Area(y)
    BY AreaHead
  <2> QED BY <1>1, <2>1 DEF Marked, UsedMarked
<1>7. \A f \in E \union U : /\ f.page \in 0..(size - 1) /\ f.page \notin Area(x)
                          /\ f.page # y.page /\ c.all[f.page] = out.all[f.page]
  <2>1. ASSUME NEW f \in E \union U
        PROVE  f.page \in 0..(size - 1) /\ f.page \notin Area(x)
    <3>1. f \in F \union U /\ f # x /\ x \in F \union U
      BY <1>6
    <3>2. f.page \notin Area(x)
      <4> DEFINE C == F \union U
      <4>1. Tiles(C, G, size, orders) /\ f \in C /\ x \in C
        BY <1>1, <3>1
      <4> HIDE DEF C
      <4> QED BY <3>1, <4>1, TilesApart
    <3> QED BY <1>2, <3>1, <3>2, BlockFields
  <2> QED BY <1>5, <1>6, <2>1
<1>8. \A r \in L : /\ r.page \in Area(x) \ Area(y) /\ r.order = 0 /\ r.page # y.page
                  /\ r.page \in 0..(size - 1)
  <2>1. ASSUME NEW p \in Area(x) \ Area(y)
        PROVE  Block(p, 0).page = p /\ Block(p, 0).order = 0 /\ p # y.page /\ p \in 0..(size - 1)
    BY <1>2, <1>6, BlockNames
  <2> QED BY <2>1 DEF Rest
<1>9. \A r \in L : r \notin V
  BY <1>6, <1>7, <1>8
<1>10. Tiles(E \union (V \union L), G, size, orders)
  <2> DEFINE A == Area(x)
             B == {y} \union {Block(p, 0) : p \in A \ Area(y)}
             C == F \union U
  <2>1. A \subseteq 0..(size - 1) /\ Area(y) \subseteq A /\ Tiles(C, G, size, orders) /\ x \in C
    BY <1>1, <1>2
  <2>2. orders >= 1
    BY BlockFields
  <2>3. Tiles(B, A, size, orders)
    <3> HIDE DEF A
    <3> QED BY <2>1, <2>2, PartTiles
  <2>4. Tiles((C \ {x}) \union B, G, size, orders)
    <3> HIDE DEF B, C
    <3> QED BY <2>1, <2>3, TilesSplit
  <2>5. (C \ {x}) \union B = E \union (V \union L)
    BY <1>6 DEF Rest
  <2> QED BY <2>4, <2>5
<1> HIDE DEF E, L, V
<1>11. Linked(c, E)
  <2>1. E \subseteq BlocksOf(size, orders)
    BY <1>2 DEF E
  <2>2. \A f \in E : c.all[f.page] = out.all[f.page]
    BY <1>7
  <2> QED BY <1>3, <1>5, <2>1, <2>2, LinkedElsewhere
<1>12. Marked(c, E)
  BY <1>4, <1>7 DEF Kept, Marked
<1>13. UsedMarked(c, V \union L)
  <2>1. \A u \in U : ~c.all[u.page].free /\ c.all[u.page].order = u.order
    BY <1>4, <1>7 DEF Kept, UsedMarked
  <2>2. \A r \in L : ~c.all[r.page].free /\ c.all[r.page].order = r.order
    BY <1>5, <1>8
  <2> QED BY <1>5, <2>1, <2>2 DEF UsedMarked, V
<1>14. OutsideMarked(c, G)
  <2>1. Pages(c) = 0..(size - 1) /\ Pages(out) = 0..(size - 1)
    BY <1>3, <1>5, ContextFields
  <2> QED BY <1>2, <1>4, <1>5, <1>6, <2>1 DEF Kept, OutsideMarked
<1>15. Kept(c, E, V \union L, G, size, orders)
  BY <1>4, <1>5, <1>11, <1>12, <1>13, <1>14 DEF Kept
<1>16. Good(c, E, V \union L, G, size, orders)
  BY <1>10, <1>15 DEF Good
<1> QED BY <1>9, <1>16 DEF c, out, E, L, V

LEMMA SubsetKeeps ==
  ASSUME NEW b, NEW F, NEW U, NEW G, NEW size \in Nat, NEW orders \in Nat,
         G \subseteq 0..(size - 1), Good(b, F, U, G, size, orders), NEW x \in F,
         NEW y \in BlocksOf(size, orders), Aligned(y.page, y.order),
         Area(y) \subseteq Area(x)
  PROVE  Shared(AllocateSubset(b, x.page, x.order, y.page, y.order), U \union {y},
                G, size, orders)
<1> DEFINE c == InUse(RemoveFree(b, x.page, x.order), x, y)
           V == U \union {y}
           first == x.page
           count == Power[x.order]
           kept == Area(y)
<1>1. /\ Good(c, F \ {x}, V \union Rest(x, y), G, size, orders)
      /\ \A r \in Rest(x, y) : r \notin V
  BY PartTaken
<1>2. first \in Nat /\ count \in Nat /\ x \in BlocksOf(size, orders)
  <2>1. x \in BlocksOf(size, orders)
    BY DEF Good, Tiles
  <2>2. x.page \in Nat /\ x.order \in Nat
    BY <2>1, BlockFields
  <2> QED BY <2>1, <2>2, PowerType
<1>3. Left(0, first, count, kept) = Rest(x, y)
  <2>1. (first + 0)..(first + count - 1) = Area(x)
    BY <1>2 DEF Area, Run
  <2> QED BY <2>1 DEF Left, Rest
<1>4. AllocateSubset(b, x.page, x.order, y.page, y.order) = FreeEach(c, first, count, kept)
  <2>1. b \in Contexts(size, orders) /\ RemoveFree(b, x.page, x.order) \in Contexts(size, orders)
    BY <1>2, RemoveFreeFields, BlockFields DEF Good, Kept
  <2>2. Pages(RemoveFree(b, x.page, x.order)) = Pages(b)
    BY <2>1, ContextFields
  <2> QED BY <2>2 DEF AllocateSubset, InUse, Area, Run
<1> HIDE DEF c, V, first, count, kept
<1>5. Shared(c, V \union Left(0, first, count, kept), G, size, orders)
  BY <1>1, <1>3 DEF Shared
<1>6. \A r \in Left(0, first, count, kept) : r \notin V
  BY <1>1, <1>3
<1>7. Shared(FreeEach(c, first, count, kept), V, G, size, orders)
  BY <1>2, <1>5, <1>6, FreeEachKeeps
<1> QED BY <1>4, <1>7 DEF V

-----------------------------------------------------------------------------
(* The start.                                                              *)
LEMMA OrderFound ==
  ASSUME NEW size \in Nat
  PROVE  OrderOf(size) \in Nat
<1> DEFINE T == {o \in Nat : size <= Power[o]}
           Best(o) == size <= Power[o] /\ \A smaller \in 0..(o - 1) : Power[smaller] < size
<1>1. size \in T
  BY PowerType
<1>2. T \subseteq Nat /\ T # {}
  BY <1>1
<1>3. PICK o \in T : \A m \in T : o <= m
  BY <1>2, LeastNumber
<1>4. o \in 0..size /\ size <= Power[o]
  BY <1>1, <1>3
<1>5. ASSUME NEW smaller \in 0..(o - 1) PROVE Power[smaller] < size
  <2>1. smaller \in Nat /\ ~(o <= smaller)
    BY <1>4
  <2>2. ~(size <= Power[smaller])
    BY <1>3, <2>1
  <2> QED BY <2>1, <2>2, PowerType
<1>6. Best(o)
  BY <1>4, <1>5
<1>7. OrderOf(size) = CHOOSE i \in 0..size : Best(i)
  BY DEF OrderOf
<1> HIDE DEF Best
<1>8. OrderOf(size) \in 0..size
  BY <1>4, <1>6, <1>7
<1> QED BY <1>8

LEMMA InitShares ==
  ASSUME NEW size \in Nat, size >= 1, NEW first \in 0..(size - 1), NEW last \in 0..(size - 1)
  PROVE  Shared(BuddyInit(size, first, last), {}, first..last, size, OrderOf(size) + 1)
<1> DEFINE orders == OrderOf(size) + 1
           G == first..last
           none == [index_max |-> size, order |-> orders,
                    free |-> [o \in 0..(orders - 1) |-> Empty],
                    all |-> [i \in 0..(size - 1) |-> Cleared]]
           kept == Pages(none) \ (first..last)
           L == {Block(p, 0) : p \in G}
<1>1. orders \in Nat /\ orders >= 1 /\ G \subseteq 0..(size - 1)
  BY OrderFound
<1>2. BuddyInit(size, first, last) = FreeEach(none, 0, size, kept)
  BY DEF BuddyInit
<1>3. /\ none.index_max = size /\ none.order = orders
      /\ none.free = [o \in 0..(orders - 1) |-> Empty]
      /\ none.all = [i \in 0..(size - 1) |-> Cleared]
  OBVIOUS
<1>4. none \in Contexts(size, orders)
  <2>1. Cleared \in PageWords(size, orders)
    BY <1>1 DEF Cleared, PageWords
  <2> HIDE DEF orders
  <2> QED BY <1>1, <2>1 DEF Contexts
<1> HIDE DEF none, orders
<1>5. Pages(none) = 0..(size - 1) /\ none.order = orders
  BY <1>4, <1>1, ContextFields
<1>6. Left(0, 0, size, kept) = L
  <2>1. ((0 + 0)..(0 + size - 1)) \ kept = G
    BY <1>1, <1>5
  <2> HIDE DEF kept, G
  <2> QED BY <2>1 DEF Left
<1>7. Tiles(L, G, size, orders)
  <2>1. \A p \in G : /\ Block(p, 0) \in BlocksOf(size, orders) /\ Area(Block(p, 0)) = {p}
                    /\ Aligned(Block(p, 0).page, Block(p, 0).order)
    BY <1>1, Singles
  <2> HIDE DEF G
  <2>2. L \subseteq BlocksOf(size, orders)
    BY <2>1
  <2>3. \A c \in L : Aligned(c.page, c.order) /\ Area(c) \subseteq G
    BY <2>1
  <2>4. \A c, d \in L : c # d => Area(c) \cap Area(d) = {}
    BY <2>1
  <2>5. \A g \in G : \E c \in L : g \in Area(c)
    BY <2>1
  <2> QED BY <2>2, <2>3, <2>4, <2>5 DEF Tiles
<1>8. Linked(none, {})
  <2> DEFINE rank == [p \in Pages(none) |-> 0]
  <2>1. rank \in [Pages(none) -> Nat]
    OBVIOUS
  <2>2. \A o \in 0..(orders - 1) :
           Chain(ListOf({}, o), none.free[o], NextOf(none), PrevOf(none), rank)
    <3>1. \A o : ListOf({}, o) = {}
      BY DEF ListOf
    <3>2. \A o \in 0..(orders - 1) : none.free[o] = Empty
      BY <1>3
    <3> QED BY <3>1, <3>2 DEF Chain
  <2> HIDE DEF rank
  <2>3. LinkedBy(none, {}, rank)
    BY <1>5, <2>2 DEF LinkedBy
  <2> QED BY <2>1, <2>3 DEF Linked
<1>9. \A p \in 0..(size - 1) : ~none.all[p].free /\ none.all[p].order = 0
  BY <1>3 DEF Cleared
<1>10. UsedMarked(none, L)
  <2>1. \A p \in G : /\ Block(p, 0).page = p /\ Block(p, 0).order = 0
                    /\ p \in 0..(size - 1)
    BY <1>1, BlockNames
  <2> HIDE DEF G
  <2> QED BY <1>9, <2>1 DEF UsedMarked
<1>11. Marked(none, {}) /\ NoBuddies({}, orders) /\ OutsideMarked(none, G)
  BY <1>5, <1>9 DEF Marked, NoBuddies, OutsideMarked
<1>12. Good(none, {}, {} \union L, G, size, orders)
  <2>1. {} \union ({} \union L) = L /\ {} \union L = L
    OBVIOUS
  <2> HIDE DEF L, G
  <2> QED BY <1>4, <1>7, <1>8, <1>10, <1>11, <2>1 DEF Good, Kept
<1>13. Shared(none, {} \union Left(0, 0, size, kept), G, size, orders)
  <2> HIDE DEF L, G, kept
  <2> QED BY <1>6, <1>12 DEF Shared
<1>14. \A x \in Left(0, 0, size, kept) : x \notin {}
  OBVIOUS
<1> HIDE DEF G, kept, L
<1>15. Shared(FreeEach(none, 0, size, kept), {}, G, size, orders)
  BY <1>1, <1>13, <1>14, FreeEachKeeps
<1> QED BY <1>2, <1>15 DEF G, orders

-----------------------------------------------------------------------------
(* Walking along a list.                                                   *)
Along(at, size, h, nx) ==
  at[0] = h /\ \A n \in 1..(size - 1) : at[n] = nx[at[n - 1]]

LEMMA WalkInside ==
  ASSUME NEW size \in Nat, size >= 1, NEW S, NEW h, NEW nx, NEW pv, NEW rank,
         Chain(S, h, nx, pv, rank), h # Empty, NEW at, Along(at, size, h, nx)
  PROVE  \A n \in 0..(size - 1) : at[n] \in S
<1> DEFINE T == {n \in 0..(size - 1) : at[n] \notin S}
<1>1. SUFFICES ASSUME T # {} PROVE FALSE
  OBVIOUS
<1>2. T \subseteq Nat
  OBVIOUS
<1>3. PICK n \in T : \A m \in T : n <= m
  BY <1>1, <1>2, LeastNumber
<1>4. n \in 0..(size - 1) /\ at[n] \notin S
  BY <1>3
<1>5. n # 0
  BY <1>4 DEF Along, Chain
<1>6. n \in 1..(size - 1) /\ n - 1 \in 0..(size - 1) /\ ~(n <= n - 1)
  BY <1>4, <1>5
<1>7. at[n - 1] \in S /\ at[n] = nx[at[n - 1]]
  BY <1>3, <1>6 DEF Along
<1> QED BY <1>4, <1>7 DEF Chain

(* The pages before a page, which are fewer than there are pages.          *)
Before(S, rank, p) == {q \in S : rank[q] < rank[p]}

LEMMA BeforeSize ==
  ASSUME NEW size \in Nat, size >= 1, NEW S, S \subseteq 0..(size - 1), NEW rank, NEW p \in S,
         rank[p] \in Nat
  PROVE  /\ IsFiniteSet(Before(S, rank, p))
         /\ Cardinality(Before(S, rank, p)) \in Nat
         /\ Cardinality(Before(S, rank, p)) <= size - 1
<1> DEFINE D == 0..(size - 1)
           R == D \ {p}
           B == Before(S, rank, p)
<1>1. IsFiniteSet(D) /\ Cardinality(D) = size
  <2>1. 0 \in Int /\ size - 1 \in Int /\ ~(0 > size - 1) /\ (size - 1) - 0 + 1 = size
    OBVIOUS
  <2> QED BY <2>1, FS_Interval
<1>2. p \in D
  OBVIOUS
<1> HIDE DEF D
<1>3. IsFiniteSet(R) /\ Cardinality(R) = size - 1
  BY <1>1, <1>2, FS_RemoveElement
<1>4. B \subseteq R
  <2>1. ~(rank[p] < rank[p])
    OBVIOUS
  <2> QED BY <2>1 DEF Before, D
<1>5. IsFiniteSet(B) /\ Cardinality(B) <= Cardinality(R)
  <2> HIDE DEF B, R
  <2> QED BY <1>3, <1>4, FS_Subset
<1>6. Cardinality(B) \in Nat
  BY <1>5, FS_CardinalityType
<1> QED BY <1>3, <1>5, <1>6

(* The step to the next page leaves one more behind.                       *)
LEMMA BeforeGrows ==
  ASSUME NEW size \in Nat, size >= 1, NEW S, S \subseteq 0..(size - 1), NEW rank,
         \A p \in S : rank[p] \in Nat,
         NEW p \in S, NEW q \in S, rank[q] < rank[p]
  PROVE  Cardinality(Before(S, rank, q)) + 1 <= Cardinality(Before(S, rank, p))
<1> DEFINE B == Before(S, rank, p)
           A == Before(S, rank, q)
<1>1. /\ IsFiniteSet(A) /\ IsFiniteSet(B)
      /\ Cardinality(A) \in Nat /\ Cardinality(B) \in Nat
  BY BeforeSize
<1>2. A \union {q} \subseteq B /\ q \notin A
  <2>1. \A r \in S : rank[r] < rank[q] => rank[r] < rank[p]
    <3>1. ASSUME NEW r \in S, rank[r] < rank[q] PROVE rank[r] < rank[p]
      <4>1. rank[r] \in Nat /\ rank[q] \in Nat /\ rank[p] \in Nat
        OBVIOUS
      <4> QED BY <3>1, <4>1
    <3> QED BY <3>1
  <2>2. ~(rank[q] < rank[q])
    <3>1. rank[q] \in Nat
      OBVIOUS
    <3> QED BY <3>1
  <2> QED BY <2>1, <2>2 DEF Before
<1> HIDE DEF A, B
<1>3. IsFiniteSet(A \union {q}) /\ Cardinality(A \union {q}) = Cardinality(A) + 1
  BY <1>1, <1>2, FS_AddElement
<1>4. Cardinality(A \union {q}) <= Cardinality(B)
  BY <1>1, <1>2, FS_Subset
<1> QED BY <1>3, <1>4 DEF A, B

(* A walk along a list of pages.                                           *)
OnList(size, S, h, nx, pv, rank, at) ==
  /\ Chain(S, h, nx, pv, rank) /\ h # Empty
  /\ S \subseteq 0..(size - 1) /\ \A p \in S : rank[p] \in Nat
  /\ Along(at, size, h, nx)

(* The walk meets every page of the list,                                  *)
LEMMA WalkMeetsAll ==
  ASSUME NEW size \in Nat, size >= 1, NEW S, NEW h, NEW nx, NEW pv, NEW rank, NEW at,
         OnList(size, S, h, nx, pv, rank, at)
  PROVE  \A x \in S : \E n \in 0..(size - 1) : at[n] = x
<1>0. /\ S \subseteq 0..(size - 1) /\ \A p \in S : rank[p] \in Nat
      /\ Chain(S, h, nx, pv, rank) /\ h # Empty /\ Along(at, size, h, nx)
  BY DEF OnList
<1> DEFINE Met(p) == \E n \in 0..(size - 1) :
                       at[n] = p /\ n <= Cardinality(Before(S, rank, p))
           T == {rank[p] : p \in {q \in S : ~Met(q)}}
<1>1. ASSUME T # {} PROVE FALSE
  <2>1. T \subseteq Nat
    BY <1>0
  <2> HIDE DEF Met
  <2>2. PICK r \in T : \A m \in T : r <= m
    BY <1>1, <2>1, LeastNumber
  <2>3. PICK p \in S : ~Met(p) /\ r = rank[p]
    OBVIOUS
  <2>4. p # h
    <3>1. SUFFICES ASSUME p = h PROVE FALSE
      OBVIOUS
    <3>2. 0 \in 0..(size - 1) /\ at[0] = p
      BY <1>0, <3>1 DEF Along
    <3>3. rank[p] \in Nat
      BY <1>0
    <3>4. Cardinality(Before(S, rank, p)) \in Nat
      BY <1>0, <3>3, BeforeSize
    <3>5. 0 <= Cardinality(Before(S, rank, p))
      BY <3>4
    <3> QED BY <2>3, <3>2, <3>5 DEF Met
  <2> DEFINE q == pv[p]
  <2>5. q \in S /\ nx[q] = p /\ rank[q] < rank[p]
    BY <1>0, <2>4 DEF Chain
  <2> HIDE DEF q
  <2>6. Met(q)
    <3>1. SUFFICES ASSUME ~Met(q) PROVE FALSE
      OBVIOUS
    <3>2. rank[q] \in T
      BY <2>5, <3>1
    <3>3. rank[p] <= rank[q] /\ rank[p] \in Nat /\ rank[q] \in Nat
      BY <1>0, <2>2, <2>3, <2>5, <3>2
    <3> QED BY <2>5, <3>3
  <2>7. PICK n \in 0..(size - 1) : at[n] = q /\ n <= Cardinality(Before(S, rank, q))
    BY <2>6 DEF Met
  <2>8. /\ Cardinality(Before(S, rank, q)) + 1 <= Cardinality(Before(S, rank, p))
        /\ Cardinality(Before(S, rank, p)) <= size - 1
        /\ Cardinality(Before(S, rank, p)) \in Nat /\ Cardinality(Before(S, rank, q)) \in Nat
    BY <1>0, <2>5, BeforeSize, BeforeGrows
  <2>9. n + 1 \in 0..(size - 1) /\ n + 1 \in 1..(size - 1)
        /\ n + 1 <= Cardinality(Before(S, rank, p)) /\ (n + 1) - 1 = n
    BY <2>7, <2>8
  <2>10. at[n + 1] = p
    BY <1>0, <2>5, <2>7, <2>9 DEF Along
  <2> QED BY <2>3, <2>9, <2>10 DEF Met
<1>2. \A x \in S : Met(x)
  <2> HIDE DEF Met
  <2> QED BY <1>1
<1> QED BY <1>2

(* and in the end it stays at the last one.                                *)
LEMMA WalkEnds ==
  ASSUME NEW size \in Nat, size >= 1, NEW S, NEW h, NEW nx, NEW pv, NEW rank, NEW at,
         OnList(size, S, h, nx, pv, rank, at)
  PROVE  nx[at[size - 1]] = at[size - 1]
<1>0. /\ S \subseteq 0..(size - 1) /\ \A p \in S : rank[p] \in Nat
      /\ Chain(S, h, nx, pv, rank) /\ h # Empty /\ Along(at, size, h, nx)
  BY DEF OnList
<1> DEFINE C(p) == size - Cardinality(Before(S, rank, p))
           T == {C(p) : p \in S}
<1>1. \A p \in S : C(p) \in Nat /\ Cardinality(Before(S, rank, p)) \in Nat
  <2>1. ASSUME NEW p \in S PROVE C(p) \in Nat /\ Cardinality(Before(S, rank, p)) \in Nat
    <3> DEFINE k == Cardinality(Before(S, rank, p))
    <3>1. rank[p] \in Nat
      BY <1>0
    <3>2. k \in Nat /\ k <= size - 1
      BY <1>0, <3>1, BeforeSize
    <3> HIDE DEF k
    <3>3. size - k \in Nat
      BY <3>2
    <3> QED BY <3>2, <3>3 DEF k
  <2> QED BY <2>1
<1>2. T \subseteq Nat /\ T # {}
  <2>1. h \in S
    BY <1>0 DEF Chain
  <2> HIDE DEF C
  <2> QED BY <1>1, <2>1
<1>3. PICK r \in T : \A m \in T : r <= m
  BY <1>2, LeastNumber
<1>4. PICK t \in S : r = C(t)
  OBVIOUS
<1>5. nx[t] = t
  <2>1. SUFFICES ASSUME nx[t] # t PROVE FALSE
    OBVIOUS
  <2>2. nx[t] \in S /\ rank[t] < rank[nx[t]]
    BY <1>0, <2>1 DEF Chain
  <2>3. Cardinality(Before(S, rank, t)) + 1 <= Cardinality(Before(S, rank, nx[t]))
    BY <1>0, <2>2, BeforeGrows
  <2>4. C(nx[t]) \in T
    BY <2>2
  <2>5. C(t) <= C(nx[t])
    BY <1>3, <1>4, <2>4
  <2> DEFINE k == Cardinality(Before(S, rank, t))
             m == Cardinality(Before(S, rank, nx[t]))
  <2>6. k \in Nat /\ m \in Nat /\ k + 1 <= m /\ size - k <= size - m
    BY <1>1, <2>2, <2>3, <2>5
  <2> HIDE DEF k, m
  <2> QED BY <2>6
<1>6. PICK n \in 0..(size - 1) : at[n] = t
  <2> HIDE DEF C, T
  <2>1. \A x \in S : \E n \in 0..(size - 1) : at[n] = x
    BY WalkMeetsAll
  <2> QED BY <2>1
<1> DEFINE Z == {m \in n..(size - 1) : at[m] # t}
<1>7. Z = {}
  <2>1. SUFFICES ASSUME Z # {} PROVE FALSE
    OBVIOUS
  <2>2. Z \subseteq Nat
    OBVIOUS
  <2>3. PICK m \in Z : \A i \in Z : m <= i
    BY <2>1, <2>2, LeastNumber
  <2>4. m \in n..(size - 1) /\ at[m] # t /\ m # n
    BY <1>6, <2>3
  <2>5. m - 1 \in n..(size - 1) /\ ~(m <= m - 1) /\ m \in 1..(size - 1)
    BY <2>4
  <2>6. at[m - 1] = t /\ at[m] = nx[at[m - 1]]
    BY <1>0, <2>3, <2>5 DEF Along
  <2> QED BY <1>5, <2>4, <2>6
<1>8. size - 1 \in n..(size - 1)
  OBVIOUS
<1>9. at[size - 1] = t
  BY <1>7, <1>8
<1> QED BY <1>5, <1>9

(* What is true of the walk: it meets the pages of the list and no other,  *)
(* in order.                                                               *)
Walked(size, S, nx, pv, at) ==
  /\ \A n \in 0..(size - 1) : at[n] \in S
  /\ \A x \in S : \E n \in 0..(size - 1) : at[n] = x
  /\ nx[at[size - 1]] = at[size - 1] /\ pv[at[0]] = at[0]
  /\ \A n \in 1..(size - 1) : at[n] # at[n - 1] => pv[at[n]] = at[n - 1]

LEMMA Walking ==
  ASSUME NEW size \in Nat, size >= 1, NEW S, NEW h, NEW nx, NEW pv, NEW rank, NEW at,
         OnList(size, S, h, nx, pv, rank, at)
  PROVE  Walked(size, S, nx, pv, at)
<1>1. Chain(S, h, nx, pv, rank) /\ h # Empty /\ Along(at, size, h, nx)
  BY DEF OnList
<1>2. \A n \in 0..(size - 1) : at[n] \in S
  BY <1>1, WalkInside
<1>3. \A x \in S : \E n \in 0..(size - 1) : at[n] = x
  BY WalkMeetsAll
<1>4. nx[at[size - 1]] = at[size - 1]
  BY WalkEnds
<1>5. pv[at[0]] = at[0]
  BY <1>1 DEF Along, Chain
<1>6. \A n \in 1..(size - 1) : at[n] # at[n - 1] => pv[at[n]] = at[n - 1]
  <2>1. ASSUME NEW n \in 1..(size - 1), at[n] # at[n - 1] PROVE pv[at[n]] = at[n - 1]
    <3>1. n - 1 \in 0..(size - 1)
      OBVIOUS
    <3>2. at[n - 1] \in S /\ at[n] = nx[at[n - 1]]
      BY <1>1, <1>2, <3>1 DEF Along
    <3> QED BY <1>1, <2>1, <3>2 DEF Chain
  <2> QED BY <2>1
<1> QED BY <1>2, <1>3, <1>4, <1>5, <1>6 DEF Walked

-----------------------------------------------------------------------------
(* The walk of the model is such a walk.                                   *)
Step(f, n, b, o) == IF n = 0 THEN b.free[o] ELSE b.all[f[n - 1]].next

Steps(f, last, b, o) ==
  DOMAIN f = 0..last /\ \A n \in 0..last : f[n] = Step(f, n, b, o)

LEMMA StepsExist ==
  ASSUME NEW b, NEW o
  PROVE  \A n \in Nat : \E f : Steps(f, n, b, o)
<1> DEFINE T == {n \in Nat : ~ \E f : Steps(f, n, b, o)}
<1>1. SUFFICES ASSUME T # {} PROVE FALSE
  OBVIOUS
<1>2. PICK n \in T : \A m \in T : n <= m
  BY <1>1, LeastNumber
<1>3. CASE n = 0
  <2> DEFINE f == [k \in 0..0 |-> b.free[o]]
  <2>1. \A k \in 0..0 : k = 0
    OBVIOUS
  <2>2. Steps(f, 0, b, o)
    BY <2>1 DEF Steps, Step
  <2> QED BY <1>2, <1>3, <2>2
<1>4. CASE n # 0
  <2>1. n - 1 \in Nat /\ ~(n <= n - 1)
    BY <1>2, <1>4
  <2>2. PICK g : Steps(g, n - 1, b, o)
    BY <1>2, <2>1
  <2> DEFINE f == [k \in 0..n |-> IF k = n THEN Step(g, n, b, o) ELSE g[k]]
  <2>3. \A k \in 0..n : /\ k # 0 => k - 1 \in 0..n /\ k - 1 # n
                        /\ k # n => k \in 0..(n - 1)
    BY <1>2
  <2>4. ASSUME NEW k \in 0..n PROVE f[k] = Step(f, k, b, o)
    <3>1. k # 0 => f[k - 1] = g[k - 1]
      BY <2>3
    <3>2. Step(f, k, b, o) = Step(g, k, b, o)
      <4> HIDE DEF f
      <4> QED BY <3>1 DEF Step
    <3>3. k # n => g[k] = Step(g, k, b, o)
      BY <2>2, <2>3 DEF Steps
    <3>4. f[k] = IF k = n THEN Step(g, n, b, o) ELSE g[k]
      OBVIOUS
    <3> HIDE DEF f
    <3> QED BY <3>2, <3>3, <3>4
  <2>5. DOMAIN f = 0..n
    OBVIOUS
  <2> HIDE DEF f
  <2>6. Steps(f, n, b, o)
    BY <2>4, <2>5 DEF Steps
  <2> QED BY <1>2, <2>6
<1> QED BY <1>3, <1>4

LEMMA WalkSteps ==
  ASSUME NEW b, NEW o, NEW size \in Nat, size >= 1, Pages(b) = 0..(size - 1)
  PROVE  Steps(Walk(b, o), size - 1, b, o)
<1> DEFINE D == 0..(size - 1)
           Rec(f) == f = [n \in D |->
                            IF n = 0 THEN b.free[o] ELSE b.all[f[n - 1]].next]
           f == CHOOSE f : Rec(f)
<1>1. Rec(f)
  <2>1. PICK g : Steps(g, size - 1, b, o)
    <3>1. size - 1 \in Nat
      OBVIOUS
    <3> QED BY <3>1, StepsExist
  <2> DEFINE h == [n \in D |-> g[n]]
             i == [n \in D |-> IF n = 0 THEN b.free[o] ELSE b.all[h[n - 1]].next]
  <2>2. \A n \in D : n # 0 => n - 1 \in D
    OBVIOUS
  <2> HIDE DEF D
  <2>3. \A n \in D : h[n] = g[n] /\ (n # 0 => h[n - 1] = g[n - 1])
    BY <2>2
  <2>4. \A n \in D : h[n] = i[n]
    <3> HIDE DEF h
    <3> QED BY <2>1, <2>3 DEF Steps, Step, D
  <2>5. h = i
    BY <2>4
  <2>6. Rec(h)
    BY <2>5
  <2> HIDE DEF Rec
  <2> QED BY <2>6
<1>2. Steps(f, size - 1, b, o)
  <2> HIDE DEF f
  <2> QED BY <1>1 DEF Steps, Step
<1>3. Walk(b, o) = f
  BY DEF Walk
<1> QED BY <1>2, <1>3

LEMMA ListIsWalked ==
  ASSUME NEW b, NEW F, NEW U, NEW G, NEW size \in Nat, size >= 1, NEW orders \in Nat,
         Good(b, F, U, G, size, orders), NEW o \in 0..(orders - 1), b.free[o] # Empty
  PROVE  Walked(size, ListOf(F, o), NextOf(b), PrevOf(b), Walk(b, o))
<1> DEFINE S == ListOf(F, o)
           h == b.free[o]
           nx == NextOf(b)
           pv == PrevOf(b)
           at == Walk(b, o)
<1>1. b \in Contexts(size, orders) /\ Marked(b, F) /\ Linked(b, F)
      /\ F \subseteq BlocksOf(size, orders)
  BY DEF Good, Kept, Tiles
<1>2. b.order = orders /\ Pages(b) = 0..(size - 1)
      /\ \A p \in 0..(size - 1) : nx[p] = b.all[p].next
  BY <1>1, ContextFields
<1>3. PICK rank \in [0..(size - 1) -> Nat] : LinkedBy(b, F, rank)
  BY <1>1, <1>2 DEF Linked
<1>4. Chain(S, h, nx, pv, rank)
  BY <1>2, <1>3 DEF LinkedBy
<1>5. S \subseteq 0..(size - 1)
  BY <1>1, ListsApart
<1>6. Steps(at, size - 1, b, o)
  BY <1>2, WalkSteps
<1> HIDE DEF S, h, nx, pv, at
<1>7. h # Empty
  BY DEF h
<1>8. at[0] = h /\ \A n \in 1..(size - 1) : at[n] = b.all[at[n - 1]].next
  <2>1. 0 \in 0..(size - 1) /\ \A n \in 1..(size - 1) : n \in 0..(size - 1) /\ n # 0
    OBVIOUS
  <2> QED BY <1>6, <2>1 DEF Steps, Step, h
<1>9. \A n \in 0..(size - 1) : at[n] \in S
  <2> DEFINE T == {n \in 0..(size - 1) : at[n] \notin S}
  <2>1. SUFFICES ASSUME T # {} PROVE FALSE
    OBVIOUS
  <2>2. T \subseteq Nat
    OBVIOUS
  <2>3. PICK n \in T : \A m \in T : n <= m
    BY <2>1, <2>2, LeastNumber
  <2>4. n \in 0..(size - 1) /\ at[n] \notin S
    BY <2>3
  <2>5. n # 0
    BY <1>4, <1>7, <1>8, <2>4 DEF Chain
  <2>6. n \in 1..(size - 1) /\ n - 1 \in 0..(size - 1) /\ ~(n <= n - 1)
    BY <2>4, <2>5
  <2>7. at[n - 1] \in S /\ at[n] = nx[at[n - 1]]
    BY <1>2, <1>5, <1>8, <2>3, <2>6
  <2> QED BY <1>4, <2>4, <2>7 DEF Chain
<1>10. \A n \in 1..(size - 1) : at[n] = nx[at[n - 1]]
  <2>1. ASSUME NEW n \in 1..(size - 1) PROVE at[n] = nx[at[n - 1]]
    <3>1. n - 1 \in 0..(size - 1)
      OBVIOUS
    <3> QED BY <1>2, <1>5, <1>8, <1>9, <3>1
  <2> QED BY <2>1
<1>11. Along(at, size, h, nx)
  BY <1>8, <1>10 DEF Along
<1>12. \A p \in S : rank[p] \in Nat
  BY <1>3, <1>5
<1>13. OnList(size, S, h, nx, pv, rank, at)
  BY <1>4, <1>5, <1>7, <1>11, <1>12 DEF OnList
<1>14. Walked(size, S, nx, pv, at)
  BY <1>13, Walking
<1> QED BY <1>14 DEF S, nx, pv, at

(* The lists hold the free blocks.                                         *)
LEMMA ListsHoldFree ==
  ASSUME NEW b, NEW F, NEW U, NEW G, NEW size \in Nat, size >= 1, NEW orders \in Nat,
         Good(b, F, U, G, size, orders)
  PROVE  /\ FreeBlocks(b) = F
         /\ \A o \in 0..(orders - 1) : b.free[o] # Empty => Block(b.free[o], o) \in F
<1>1. b \in Contexts(size, orders) /\ Linked(b, F)
      /\ F \subseteq BlocksOf(size, orders)
  BY DEF Good, Kept, Tiles
<1>2. b.order = orders /\ Pages(b) = 0..(size - 1)
  BY <1>1, ContextFields
<1>3. PICK rank : LinkedBy(b, F, rank)
  BY <1>1 DEF Linked
<1>4. \A o \in 0..(orders - 1) :
        Chain(ListOf(F, o), b.free[o], NextOf(b), PrevOf(b), rank)
  BY <1>2, <1>3 DEF LinkedBy
<1>5. \A o \in 0..(orders - 1) : b.free[o] # Empty => Block(b.free[o], o) \in F
  BY <1>4 DEF Chain, ListOf
<1>6. OrdersWithBlocks(b, 0) = {o \in 0..(orders - 1) : b.free[o] # Empty}
  BY <1>2 DEF OrdersWithBlocks
<1>7. ASSUME NEW o \in OrdersWithBlocks(b, 0), NEW n \in 0..(size - 1)
      PROVE  Block(Walk(b, o)[n], o) \in F
  <2>1. o \in 0..(orders - 1) /\ b.free[o] # Empty
    BY <1>6
  <2>2. Walked(size, ListOf(F, o), NextOf(b), PrevOf(b), Walk(b, o))
    BY <2>1, ListIsWalked
  <2> QED BY <2>2 DEF Walked, ListOf
<1>8. ASSUME NEW f \in F
      PROVE  \E o \in OrdersWithBlocks(b, 0), n \in 0..(size - 1) :
               f = Block(Walk(b, o)[n], o)
  <2> DEFINE o == f.order
  <2>1. f.page \in Nat /\ o \in 0..(orders - 1) /\ f = Block(f.page, o)
    BY <1>1, BlockFields
  <2> HIDE DEF o
  <2>2. f.page \in ListOf(F, o)
    BY <2>1 DEF ListOf
  <2>3. b.free[o] # Empty
    BY <1>4, <2>1, <2>2 DEF Chain
  <2>4. o \in OrdersWithBlocks(b, 0)
    BY <1>6, <2>1, <2>3
  <2>5. Walked(size, ListOf(F, o), NextOf(b), PrevOf(b), Walk(b, o))
    BY <2>1, <2>3, ListIsWalked
  <2>6. PICK n \in 0..(size - 1) : Walk(b, o)[n] = f.page
    BY <2>2, <2>5 DEF Walked
  <2> QED BY <2>1, <2>4, <2>6
<1>9. FreeBlocks(b)
        = {Block(Walk(b, o)[n], o) : o \in OrdersWithBlocks(b, 0), n \in 0..(size - 1)}
  BY <1>2 DEF FreeBlocks, Block
<1>10. FreeBlocks(b) = F
  BY <1>7, <1>8, <1>9
<1> QED BY <1>5, <1>10

-----------------------------------------------------------------------------
(* Room.  A run that lies in one no larger is that run;                    *)
LEMMA SameRun ==
  ASSUME NEW o \in Nat, NEW c \in Nat, c <= o, NEW p \in Nat, NEW q \in Nat,
         Aligned(p, o), Aligned(q, c), Run(p, o) \subseteq Run(q, c)
  PROVE  p = q /\ o = c
<1>1. /\ Power[o] \in Nat /\ Power[o] >= 1 /\ Power[c] \in Nat /\ Power[c] >= 1
  BY PowerType
<1> DEFINE s == Power[o]
           t == Power[c]
<1>2. p \in Run(q, c) /\ p + s - 1 \in Run(q, c)
  <2>1. p \in p..(p + s - 1) /\ p + s - 1 \in p..(p + s - 1)
    BY <1>1
  <2> QED BY <2>1 DEF Run
<1>3. q <= p /\ p + s <= q + t
  <2>1. p \in q..(q + t - 1) /\ p + s - 1 \in q..(q + t - 1)
    BY <1>2 DEF Run
  <2> HIDE DEF s, t
  <2> QED BY <2>1, <1>1 DEF s, t
<1>4. p \in Run(p, o)
  BY <1>1 DEF Run
<1>5. p <= q /\ q + t <= p + s
  BY <1>2, <1>4, Nested
<1>6. p = q /\ s = t
  <2> HIDE DEF s, t
  <2> QED BY <1>1, <1>3, <1>5 DEF s, t
<1>7. ASSUME c < o PROVE FALSE
  <2>1. c + 1 \in Nat /\ c + 1 <= o
    BY <1>7
  <2>2. PICK k \in Nat : k >= 1 /\ Power[o] = k * Power[c + 1]
    BY <2>1, PowerDivides
  <2>3. Power[c + 1] = 2 * t
    BY PowerSteps
  <2> DEFINE u == Power[c + 1]
  <2>4. 1 * u <= k * u /\ u \in Nat /\ 1 * u = u
    <3>1. u \in Nat
      BY <2>1, PowerType
    <3> HIDE DEF u
    <3>2. 1 <= k => 1 * u <= k * u
      <4>1. CASE u >= 1
        <5>1. 1 \in Int /\ k \in Int
          OBVIOUS
        <5>2. \A b \in Int : 1 <= b => 1 * u <= b * u
          BY <3>1, <4>1, <5>1, ProductGrows
        <5> QED BY <5>1, <5>2
      <4>2. CASE ~(u >= 1)
        <5>1. u = 0
          BY <3>1, <4>2
        <5> QED BY <5>1
      <4> QED BY <4>1, <4>2
    <3> QED BY <2>2, <3>1, <3>2
  <2> HIDE DEF u, s, t
  <2>5. u <= s
    BY <2>2, <2>4 DEF u, s
  <2>6. u = 2 * t
    BY <2>3 DEF u
  <2> QED BY <1>1, <1>6, <2>5, <2>6 DEF s, t
<1> QED BY <1>6, <1>7

(* a run that lies in two free blocks, one for each half, lies in one of   *)
(* them, because free buddies have been merged;                            *)
LEMMA HalvesMerged ==
  ASSUME NEW F, NEW size \in Nat, NEW orders \in Nat, F \subseteq BlocksOf(size, orders),
         \A f \in F : Aligned(f.page, f.order), NoBuddies(F, orders),
         NEW k \in Nat, k < orders - 1, NEW p \in Nat, Aligned(p, k + 1),
         NEW f \in F, NEW g \in F,
         Run(p, k) \subseteq Area(f), Run(p + Power[k], k) \subseteq Area(g)
  PROVE  Run(p, k + 1) \subseteq Area(f) \/ Run(p, k + 1) \subseteq Area(g)
<1> DEFINE q == p + Power[k]
<1>1. /\ Aligned(p, k) /\ Aligned(q, k) /\ q \in Nat
      /\ BuddyOf(p, k) = q
      /\ Run(p, k + 1) = Run(p, k) \union Run(q, k)
  BY Halves
<1>2. Power[k] \in Nat /\ Power[k] >= 1
  BY PowerType
<1>3. p \in Run(p, k) /\ q \in Run(q, k)
  BY <1>1, <1>2 DEF Run
<1>4. /\ f.page \in Nat /\ f.order \in Nat /\ f = Block(f.page, f.order)
      /\ g.page \in Nat /\ g.order \in Nat /\ g = Block(g.page, g.order)
      /\ Aligned(f.page, f.order) /\ Aligned(g.page, g.order)
  BY BlockFields
<1>5. Run(q, k) \subseteq Area(g)
  OBVIOUS
<1> HIDE DEF q
<1>6. k + 1 \in Nat /\ \A n \in Nat : n <= k \/ k + 1 <= n
  OBVIOUS
<1>7. CASE k + 1 <= f.order
  <2>1. p \in Run(p, k + 1) /\ p \in Run(f.page, f.order)
    BY <1>1, <1>3 DEF Area
  <2>2. Run(p, k + 1) \subseteq Run(f.page, f.order)
    BY <1>4, <1>6, <1>7, <2>1, Nested
  <2> QED BY <2>2 DEF Area
<1>8. CASE k + 1 <= g.order
  <2>1. q \in Run(p, k + 1) /\ q \in Run(g.page, g.order)
    BY <1>1, <1>3, <1>5 DEF Area
  <2>2. Run(p, k + 1) \subseteq Run(g.page, g.order)
    BY <1>4, <1>6, <1>8, <2>1, Nested
  <2> QED BY <2>2 DEF Area
<1>9. CASE f.order <= k /\ g.order <= k
  <2>1. Run(p, k) \subseteq Run(f.page, f.order) /\ Run(q, k) \subseteq Run(g.page, g.order)
    BY <1>5 DEF Area
  <2>2. p = f.page /\ k = f.order
    BY <1>1, <1>4, <1>9, <2>1, SameRun
  <2>3. q = g.page /\ k = g.order
    BY <1>1, <1>4, <1>9, <2>1, SameRun
  <2>4. Block(BuddyOf(f.page, f.order), f.order) \notin F
    BY <2>2 DEF NoBuddies
  <2> QED BY <1>1, <1>4, <2>2, <2>3, <2>4
<1> QED BY <1>4, <1>6, <1>7, <1>8, <1>9

(* so every aligned run of free pages lies in a free block.                *)
Roomy(F, page, order) == \E f \in F : Run(page, order) \subseteq Area(f)

LEMMA FreeRunsLieInBlocks ==
  ASSUME NEW F, NEW size \in Nat, NEW orders \in Nat, F \subseteq BlocksOf(size, orders),
         \A f \in F : Aligned(f.page, f.order), NoBuddies(F, orders),
         NEW H, \A h \in H : \E f \in F : h \in Area(f)
  PROVE  \A o \in 0..(orders - 1), page \in Nat :
           Aligned(page, o) /\ Run(page, o) \subseteq H => Roomy(F, page, o)
<1> DEFINE Found(o) == \A page \in Nat :
             Aligned(page, o) /\ Run(page, o) \subseteq H => Roomy(F, page, o)
           T == {o \in 0..(orders - 1) : ~Found(o)}
<1>1. T = {}
  <2>1. SUFFICES ASSUME T # {} PROVE FALSE
    OBVIOUS
  <2>2. T \subseteq Nat
    OBVIOUS
  <2> HIDE DEF Found
  <2>3. PICK o \in T : \A m \in T : o <= m
    BY <2>1, <2>2, LeastNumber
  <2>4. o \in 0..(orders - 1) /\ ~Found(o)
    BY <2>3
  <2>5. PICK page \in Nat : /\ Aligned(page, o) /\ Run(page, o) \subseteq H
                            /\ ~Roomy(F, page, o)
    BY <2>4 DEF Found
  <2>6. CASE o = 0
    <3>1. Run(page, o) = {page}
      BY <2>6, PowerSteps DEF Run
    <3>2. PICK f \in F : page \in Area(f)
      BY <2>5, <3>1
    <3> QED BY <2>5, <3>1, <3>2 DEF Roomy
  <2>7. CASE o # 0
    <3> DEFINE k == o - 1
    <3>1. k \in 0..(orders - 1) /\ k \in Nat /\ ~(o <= k) /\ k < orders - 1 /\ k + 1 = o
      BY <2>4, <2>7
    <3> HIDE DEF k
    <3>2. Found(k)
      BY <2>3, <3>1
    <3> DEFINE q == page + Power[k]
    <3>3. Aligned(page, k + 1)
      BY <2>5, <3>1
    <3>4. /\ Aligned(page, k) /\ Aligned(q, k) /\ q \in Nat
          /\ Run(page, k + 1) = Run(page, k) \union Run(q, k)
      BY <3>1, <3>3, Halves
    <3>5. Run(page, k) \subseteq H /\ Run(q, k) \subseteq H
      BY <2>5, <3>1, <3>4
    <3> HIDE DEF q
    <3>6. PICK f \in F : Run(page, k) \subseteq Area(f)
      BY <3>2, <3>4, <3>5 DEF Found, Roomy
    <3>7. PICK g \in F : Run(q, k) \subseteq Area(g)
      BY <3>2, <3>4, <3>5 DEF Found, Roomy
    <3>8. Run(page, k + 1) \subseteq Area(f) \/ Run(page, k + 1) \subseteq Area(g)
      BY <3>1, <3>3, <3>6, <3>7, HalvesMerged DEF q
    <3> QED BY <2>5, <3>1, <3>8 DEF Roomy
  <2> QED BY <2>6, <2>7
<1> QED BY <1>1

-----------------------------------------------------------------------------
(* The invariant: the free blocks and the blocks in use share out the      *)
(* given pages, and the words of the allocator are kept for them.          *)
BuddyInv ==
  \E size \in Nat, orders \in Nat :
    size >= 1 /\ given \subseteq 0..(size - 1) /\ Shared(ctxt, pages, given, size, orders)

(* It is what the properties need.                                         *)
LEMMA WordsAreKept ==
  ASSUME NEW F, NEW size \in Nat, size >= 1, NEW orders \in Nat,
         Good(ctxt, F, pages, given, size, orders)
  PROVE  WordsAreTrue
<1> DEFINE b == ctxt
           nx == NextOf(b)
           pv == PrevOf(b)
           at(o) == Walk(b, o)
<1>1. b \in Contexts(size, orders) /\ Marked(b, F) /\ UsedMarked(b, pages)
      /\ F \subseteq BlocksOf(size, orders)
  BY DEF Good, Kept, Tiles
<1>2. /\ b.index_max = size /\ b.order = orders /\ Pages(b) = 0..(size - 1)
      /\ \A p \in 0..(size - 1) : /\ b.all[p].next \in 0..(size - 1)
                                  /\ b.all[p].prev \in 0..(size - 1)
                                  /\ nx[p] = b.all[p].next /\ pv[p] = b.all[p].prev
  BY <1>1, ContextFields
<1>3. \A page \in Pages(b) : {b.all[page].next, b.all[page].prev} \subseteq Pages(b)
  BY <1>2
<1>4. ASSUME NEW o \in OrdersWithBlocks(b, 0)
      PROVE  LET last == at(o)[b.index_max - 1]
             IN  /\ \A n \in Pages(b) :
                      /\ b.all[at(o)[n]].free
                      /\ b.all[at(o)[n]].order = o
                      /\ n > 0 /\ at(o)[n] # at(o)[n - 1] => b.all[at(o)[n]].prev = at(o)[n - 1]
                 /\ b.all[at(o)[0]].prev = at(o)[0]
                 /\ b.all[last].next = last
  <2> DEFINE w == at(o)
             S == ListOf(F, o)
  <2>1. o \in 0..(orders - 1) /\ b.free[o] # Empty
    BY <1>2 DEF OrdersWithBlocks
  <2>2. Walked(size, S, nx, pv, w)
    BY <2>1, ListIsWalked
  <2>3. S \subseteq 0..(size - 1)
    BY <1>1, ListsApart
  <2>4. \A p \in S : b.all[p].free /\ b.all[p].order = o
    <3>1. ASSUME NEW p \in S PROVE b.all[p].free /\ b.all[p].order = o
      <4>1. Block(p, o) \in F /\ Block(p, o).page = p /\ Block(p, o).order = o
        BY BlockNames DEF ListOf
      <4> HIDE DEF b
      <4> QED BY <1>1, <4>1 DEF Marked
    <3> QED BY <3>1
  <2>5. \A p \in S : nx[p] = b.all[p].next /\ pv[p] = b.all[p].prev
    BY <1>2, <2>3
  <2>6. 0 \in 0..(size - 1) /\ size - 1 \in 0..(size - 1)
        /\ \A n \in 0..(size - 1) : n > 0 => n \in 1..(size - 1)
    OBVIOUS
  <2> HIDE DEF b, S, w, nx, pv
  <2>7. \A n \in 0..(size - 1) : w[n] \in S
    BY <2>2 DEF Walked
  <2>8. b.all[w[0]].prev = w[0] /\ b.all[w[size - 1]].next = w[size - 1]
    BY <2>2, <2>5, <2>6, <2>7 DEF Walked
  <2>9. \A n \in 0..(size - 1) :
          n > 0 /\ w[n] # w[n - 1] => b.all[w[n]].prev = w[n - 1]
    BY <2>2, <2>5, <2>6, <2>7 DEF Walked
  <2> QED BY <1>2, <2>4, <2>7, <2>8, <2>9 DEF w
<1>5. \A block \in pages : ~b.all[block.page].free /\ b.all[block.page].order = block.order
  BY <1>1 DEF UsedMarked
<1> QED BY <1>3, <1>4, <1>5 DEF WordsAreTrue

LEMMA PagesAreTiled ==
  ASSUME NEW F, NEW size \in Nat, size >= 1, NEW orders \in Nat,
         Good(ctxt, F, pages, given, size, orders)
  PROVE  PagesAreShared
<1>1. FreeBlocks(ctxt) = F
  BY ListsHoldFree
<1> DEFINE C == F \union pages
<1>2. /\ \A c \in C : Area(c) \subseteq given
      /\ \A c, d \in C : c # d => Area(c) \cap Area(d) = {}
      /\ \A g \in given : \E c \in C : g \in Area(c)
  BY DEF Good, Tiles
<1> HIDE DEF C
<1>3. UNION {Run(c.page, c.order) : c \in C} = given
  BY <1>2 DEF Area
<1>4. \A c, d \in C : c # d => Run(c.page, c.order) \cap Run(d.page, d.order) = {}
  BY <1>2 DEF Area
<1> QED BY <1>1, <1>3, <1>4 DEF PagesAreShared, C

LEMMA RoomIsKept ==
  ASSUME NEW F, NEW size \in Nat, size >= 1, NEW orders \in Nat,
         Good(ctxt, F, pages, given, size, orders)
  PROVE  RoomIsFound
<1> DEFINE H == given \ UNION {Run(c.page, c.order) : c \in pages}
<1>1. FreeBlocks(ctxt) = F
  BY ListsHoldFree
<1>2. ctxt.order = orders /\ Pages(ctxt) = 0..(size - 1)
  <2>1. ctxt \in Contexts(size, orders)
    BY DEF Good, Kept
  <2>2. ctxt.index_max = size /\ ctxt.order = orders
    BY <2>1 DEF Contexts
  <2> QED BY <2>2 DEF Pages
<1>3. F \subseteq BlocksOf(size, orders) /\ NoBuddies(F, orders)
      /\ \A f \in F : Aligned(f.page, f.order)
  BY DEF Good, Kept, Tiles
<1>4. \A h \in H : \E f \in F : h \in Area(f)
  <2>1. \A g \in given : \E c \in F \union pages : g \in Area(c)
    BY DEF Good, Tiles
  <2> QED BY <2>1 DEF Area
<1> HIDE DEF H
<1>5. \A o \in 0..(orders - 1), page \in Nat :
        Aligned(page, o) /\ Run(page, o) \subseteq H => Roomy(F, page, o)
  BY <1>3, <1>4, FreeRunsLieInBlocks
<1>6. \A page \in 0..(size - 1) : page \in Nat
  OBVIOUS
<1>7. \A o \in 0..(orders - 1), page \in 0..(size - 1) :
        page % Power[o] = 0 /\ Run(page, o) \subseteq H =>
          \E f \in F : Run(page, o) \subseteq Run(f.page, f.order)
  BY <1>5, <1>6 DEF Aligned, Roomy, Area
<1> QED BY <1>1, <1>2, <1>7 DEF RoomIsFound, Orders, H

LEMMA InvHolds == BuddyInv => BuddyHolds
<1>1. SUFFICES ASSUME BuddyInv PROVE BuddyHolds
  OBVIOUS
<1>2. PICK size \in Nat, orders \in Nat :
        size >= 1 /\ Shared(ctxt, pages, given, size, orders)
  BY <1>1 DEF BuddyInv
<1>3. PICK F : Good(ctxt, F, pages, given, size, orders)
  BY <1>2 DEF Shared
<1> QED BY <1>2, <1>3, WordsAreKept, PagesAreTiled, RoomIsKept DEF BuddyHolds

-----------------------------------------------------------------------------
(* It holds at the start and every call keeps it.                          *)
LEMMA InvStarts == BuddyAssumption /\ ContextInit => BuddyInv
<1>1. SUFFICES ASSUME BuddyAssumption, ContextInit PROVE BuddyInv
  OBVIOUS
<1>2. PICK size \in BuddySizes : \E first, last \in 0..(size - 1) :
        ctxt = BuddyInit(size, first, last) /\ given = first..last
  BY <1>1 DEF ContextInit
<1>3. PICK first \in 0..(size - 1), last \in 0..(size - 1) :
        ctxt = BuddyInit(size, first, last) /\ given = first..last
  BY <1>2
<1>4. size \in Nat /\ size >= 1 /\ pages = {}
  BY <1>1 DEF BuddyAssumption, ContextInit
<1>5. Shared(BuddyInit(size, first, last), {}, first..last, size, OrderOf(size) + 1)
  BY <1>4, InitShares
<1>6. OrderOf(size) + 1 \in Nat
  BY <1>4, OrderFound
<1>7. first..last \subseteq 0..(size - 1)
  BY <1>4
<1> QED BY <1>3, <1>4, <1>5, <1>6, <1>7 DEF BuddyInv

(* A block is taken out of a free block.                                   *)
LEMMA TakenKeeps ==
  ASSUME NEW size \in Nat, size >= 1, NEW orders \in Nat, given \subseteq 0..(size - 1),
         NEW F, Good(ctxt, F, pages, given, size, orders),
         NEW x \in F, NEW page \in 0..(size - 1), NEW order \in 0..(orders - 1),
         Aligned(page, order), Run(page, order) \subseteq Area(x), given' = given,
         ctxt' = TakeFrom(ctxt, x, page, order),
         pages' = pages \union {Block(page, order)}
  PROVE  BuddyInv'
<1> DEFINE y == Block(page, order)
<1>1. y.page = page /\ y.order = order /\ y \in BlocksOf(size, orders)
  BY DEF Block, BlocksOf
<1>2. Aligned(y.page, y.order) /\ Area(y) \subseteq Area(x)
  BY <1>1 DEF Area
<1>3. ctxt' = AllocateSubset(ctxt, x.page, x.order, y.page, y.order)
  BY <1>1 DEF TakeFrom
<1>4. pages' = pages \union {y}
  OBVIOUS
<1> HIDE DEF y
<1>5. Shared(AllocateSubset(ctxt, x.page, x.order, y.page, y.order), pages \union {y},
             given, size, orders)
  BY <1>1, <1>2, SubsetKeeps
<1>6. Shared(ctxt', pages', given', size, orders)
  BY <1>3, <1>4, <1>5
<1>7. given' \subseteq 0..(size - 1)
  OBVIOUS
<1> QED BY <1>6, <1>7 DEF BuddyInv

LEMMA AllocKeeps ==
  ASSUME BuddyInv, NEW order \in Orders, BuddyAlloc(order)
  PROVE  BuddyInv'
<1>1. PICK size \in Nat, orders \in Nat :
        /\ size >= 1 /\ given \subseteq 0..(size - 1)
        /\ Shared(ctxt, pages, given, size, orders)
  BY DEF BuddyInv
<1>2. PICK F : Good(ctxt, F, pages, given, size, orders)
  BY <1>1 DEF Shared
<1>3. ctxt.order = orders
  BY <1>2 DEF Good, Kept, Contexts
<1> DEFINE W == OrdersWithBlocks(ctxt, order)
           from == CHOOSE o \in W : \A other \in W : o <= other
           page == ctxt.free[from]
           x == Block(page, from)
<1>4. order \in 0..(orders - 1)
  BY <1>3 DEF Orders
<1>5. from \in W
  <2>1. W \subseteq Nat
    BY <1>3, <1>4 DEF OrdersWithBlocks
  <2>2. W # {}
    BY DEF BuddyAlloc
  <2> HIDE DEF W
  <2>3. \E o \in W : \A other \in W : o <= other
    BY <2>1, <2>2, LeastNumber
  <2> QED BY <2>3
<1>6. from \in order..(orders - 1) /\ page # Empty
  <2> HIDE DEF from
  <2> QED BY <1>3, <1>5 DEF OrdersWithBlocks
<1>7. /\ ctxt' = TakeFrom(ctxt, x, page, order)
      /\ pages' = pages \union {Block(page, order)} /\ given' = given
  BY DEF BuddyAlloc, FirstFit, Block
<1> HIDE DEF W, from
<1>8. from \in 0..(orders - 1) /\ from \in Nat /\ order \in Nat /\ order <= from
  BY <1>4, <1>6
<1>9. x \in F
  BY <1>1, <1>2, <1>6, <1>8, ListsHoldFree
<1> HIDE DEF page
<1>10. x.page = page /\ x.order = from
  BY BlockNames
<1>11. x \in BlocksOf(size, orders) /\ Aligned(x.page, x.order)
  BY <1>2, <1>9 DEF Good, Tiles
<1>12. page \in Nat /\ page \in 0..(size - 1) /\ Aligned(page, from)
  <2> HIDE DEF x
  <2> QED BY <1>10, <1>11, BlockFields
<1>13. Aligned(page, order)
  BY <1>8, <1>12, AlignedSmaller
<1>14. Run(page, order) \subseteq Area(x)
  <2>1. page \in Run(page, order) /\ page \in Run(page, from)
    <3>1. Power[order] \in Nat /\ order < Power[order]
          /\ Power[from] \in Nat /\ from < Power[from]
      BY <1>8, PowerType
    <3> QED BY <1>8, <1>12, <3>1 DEF Run
  <2>2. Run(page, order) \subseteq Run(page, from)
    BY <1>8, <1>12, <1>13, <2>1, Nested
  <2> QED BY <1>10, <2>2 DEF Area
<1> HIDE DEF x
<1> QED BY <1>1, <1>2, <1>4, <1>7, <1>9, <1>12, <1>13, <1>14, TakenKeeps

LEMMA AllocAtKeeps ==
  ASSUME BuddyInv, NEW order \in Orders, NEW page \in Pages(ctxt), BuddyAllocAt(page, order)
  PROVE  BuddyInv'
<1>1. PICK size \in Nat, orders \in Nat :
        /\ size >= 1 /\ given \subseteq 0..(size - 1)
        /\ Shared(ctxt, pages, given, size, orders)
  BY DEF BuddyInv
<1>2. PICK F : Good(ctxt, F, pages, given, size, orders)
  BY <1>1 DEF Shared
<1>3. ctxt.order = orders /\ Pages(ctxt) = 0..(size - 1)
  <2>1. ctxt.index_max = size /\ ctxt.order = orders
    BY <1>2 DEF Good, Kept, Contexts
  <2> QED BY <2>1 DEF Pages
<1>4. order \in 0..(orders - 1) /\ page \in 0..(size - 1)
  BY <1>3 DEF Orders
<1>5. PICK x \in FreeBlocksAt(ctxt, page, order) : ctxt' = TakeFrom(ctxt, x, page, order)
  BY DEF BuddyAllocAt
<1>6. pages' = pages \union {Block(page, order)} /\ given' = given
  BY DEF BuddyAllocAt, Block
<1>7. x \in F
  <2>1. FreeBlocks(ctxt) = F
    BY <1>1, <1>2, ListsHoldFree
  <2> QED BY <1>5, <2>1 DEF FreeBlocksAt
<1>8. Aligned(page, order)
  BY <1>5 DEF FreeBlocksAt, Aligned
<1>9. Run(page, order) \subseteq Area(x)
  <2>1. x.page <= page /\ page + Power[order] <= x.page + Power[x.order]
    BY <1>5 DEF FreeBlocksAt
  <2>2. x \in BlocksOf(size, orders)
    BY <1>2, <1>7 DEF Good, Tiles
  <2>3. x.page \in Nat /\ x.order \in Nat
    BY <2>2, BlockFields
  <2>4. Power[order] \in Nat /\ Power[x.order] \in Nat
    BY <1>4, <2>3, PowerType
  <2> QED BY <1>4, <2>1, <2>3, <2>4 DEF Run, Area
<1> QED BY <1>1, <1>2, <1>4, <1>5, <1>6, <1>7, <1>8, <1>9, TakenKeeps

LEMMA FreeBlockKeeps ==
  ASSUME BuddyInv, NEW block \in pages, FreeBlock(block)
  PROVE  BuddyInv'
<1>1. PICK size \in Nat, orders \in Nat :
        /\ size >= 1 /\ given \subseteq 0..(size - 1)
        /\ Shared(ctxt, pages, given, size, orders)
  BY DEF BuddyInv
<1>2. PICK F : Good(ctxt, F, pages, given, size, orders)
  BY <1>1 DEF Shared
<1>3. \E E : Good(BuddyFree(ctxt, block.page), E, pages \ {block}, given, size, orders)
  BY <1>1, <1>2, BuddyFreeKeeps
<1>4. ctxt' = BuddyFree(ctxt, block.page) /\ pages' = pages \ {block} /\ given' = given
  BY DEF FreeBlock
<1>5. Shared(ctxt', pages', given', size, orders)
  BY <1>3, <1>4 DEF Shared
<1> QED BY <1>1, <1>4, <1>5 DEF BuddyInv

LEMMA NextKeeps == BuddyInv /\ [ContextNext]_contextVars => BuddyInv'
<1>1. SUFFICES ASSUME BuddyInv, [ContextNext]_contextVars PROVE BuddyInv'
  OBVIOUS
<1>2. CASE UNCHANGED contextVars
  BY <1>1, <1>2 DEF BuddyInv, contextVars
<1>3. ASSUME NEW order \in Orders, BuddyAlloc(order) PROVE BuddyInv'
  BY <1>1, <1>3, AllocKeeps
<1>4. ASSUME NEW order \in Orders, NEW page \in Pages(ctxt), BuddyAllocAt(page, order)
      PROVE  BuddyInv'
  BY <1>1, <1>4, AllocAtKeeps
<1>5. ASSUME NEW block \in pages, FreeBlock(block) PROVE BuddyInv'
  BY <1>1, <1>5, FreeBlockKeeps
<1> QED BY <1>1, <1>2, <1>3, <1>4, <1>5 DEF ContextNext

(* buddy.c: whatever sequence of buddy_alloc, buddy_alloc_at and           *)
(* buddy_free is called, no page is lost, free twice, or free and in use;  *)
(* free buddies have been merged, so that room is found wherever there is  *)
(* some; and the lists in the words of the pages are whole.                *)
THEOREM BuddyShares == BuddyAssumption /\ ContextSpec => []BuddyHolds
<1>1. SUFFICES ASSUME BuddyAssumption PROVE ContextSpec => []BuddyHolds
  OBVIOUS
<1>2. ContextInit => BuddyInv
  BY <1>1, InvStarts
<1> QED BY <1>2, NextKeeps, InvHolds, PTL DEF ContextSpec
=============================================================================
