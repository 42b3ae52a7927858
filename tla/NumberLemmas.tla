-------------------------- MODULE NumberLemmas --------------------------
(***************************************************************************)
(* Numbers modulo a width, as sequence numbers and slots of a buffer are,  *)
(* for every width: the lemmas the proofs about such numbers share.        *)
(***************************************************************************)
EXTENDS Integers, WellFoundedInduction, TLAPS

\* The number a is q times m and a rest r.
Splits(a, m, q, r) == q \in Int /\ r \in 0..(m - 1) /\ a = m * q + r

\* What % and \div are.
LEMMA DivMod ==
  ASSUME NEW a \in Int, NEW m \in Nat \ {0}
  PROVE  Splits(a, m, a \div m, a % m)
BY DEF Splits

\* The only multiple of m that is nearer to 0 than m is 0.
LEMMA NoMultiple ==
  ASSUME NEW q \in Int, NEW m \in Nat \ {0}, m * q < m, m * q > -m
  PROVE  q = 0
<1>1. q >= 1 => m * q >= m
  OBVIOUS
<1>2. q <= -1 => m * q <= -m
  OBVIOUS
<1>3. QED
  BY <1>1, <1>2

\* Quotient and remainder are unique.
LEMMA DivModUnique ==
  ASSUME NEW a \in Int, NEW m \in Nat \ {0}, NEW q, NEW r, Splits(a, m, q, r)
  PROVE  a % m = r /\ a \div m = q
<1>1. a = m * (a \div m) + (a % m) /\ a \div m \in Int /\ a % m \in 0..(m - 1)
  BY DivMod DEF Splits
<1>2. a = m * q + r /\ q \in Int /\ r \in 0..(m - 1)
  BY DEF Splits
<1> DEFINE d == q - (a \div m)
<1>3. d \in Int /\ m * d = m * q - m * (a \div m)
  BY <1>1, <1>2
<1>4. m * d = (a % m) - r
  BY <1>1, <1>2, <1>3
<1>5. m * d < m /\ m * d > -m
  BY <1>1, <1>2, <1>4
<1>6. d = 0
  BY <1>3, <1>5, NoMultiple
<1>7. QED
  BY <1>1, <1>2, <1>3, <1>4, <1>6

\* Two numbers less than m apart differ modulo m.
LEMMA NearDiffer ==
  ASSUME NEW m \in Nat \ {0}, NEW a \in Int, NEW b \in Int, a < b, b < a + m
  PROVE  a % m # b % m
<1> SUFFICES ASSUME a % m = b % m PROVE FALSE
  OBVIOUS
<1>1. /\ a = m * (a \div m) + (a % m) /\ a \div m \in Int /\ a % m \in 0..(m - 1)
      /\ b = m * (b \div m) + (b % m) /\ b \div m \in Int /\ b % m \in 0..(m - 1)
  BY DivMod DEF Splits
<1> DEFINE d == (b \div m) - (a \div m)
<1>2. d \in Int /\ m * d = m * (b \div m) - m * (a \div m)
  BY <1>1
<1>3. m * d = b - a
  BY <1>1, <1>2
<1>4. d = 0
  BY <1>2, <1>3, NoMultiple
<1>5. m * d = 0
  BY <1>4
<1>6. QED
  BY <1>3, <1>5

\* What is less than m is its own remainder.
LEMMA ModOfSmall ==
  ASSUME NEW m \in Nat \ {0}, NEW a \in 0..(m - 1)
  PROVE  a % m = a
<1>1. Splits(a, m, 0, a)
  BY DEF Splits
<1>2. QED
  BY <1>1, DivModUnique

\* The remainder of the number one up is that of the remainder one up.
LEMMA ModPlusOne ==
  ASSUME NEW m \in Nat \ {0}, NEW a \in Int
  PROVE  ((a % m) + 1) % m = (a + 1) % m
<1> DEFINE q == a \div m
           r == a % m
<1>1. a = m * q + r /\ q \in Int /\ r \in 0..(m - 1)
  BY DivMod DEF Splits
<1> HIDE DEF q, r
<1>2. CASE r + 1 < m
  <2>1. Splits(a + 1, m, q, r + 1) /\ r + 1 \in 0..(m - 1)
    BY <1>1, <1>2 DEF Splits
  <2>2. (a + 1) % m = r + 1 /\ (r + 1) % m = r + 1
    BY <2>1, DivModUnique, ModOfSmall
  <2>3. QED
    BY <2>2 DEF r
<1>3. CASE r + 1 = m
  <2>1. Splits(a + 1, m, q + 1, 0) /\ Splits(r + 1, m, 1, 0) /\ r + 1 \in Int
    BY <1>1, <1>3 DEF Splits
  <2>2. (a + 1) % m = 0 /\ (r + 1) % m = 0
    BY <1>1, <2>1, DivModUnique
  <2>3. QED
    BY <2>2 DEF r
<1>4. QED
  BY <1>1, <1>2, <1>3

\* A remainder is the same when the remainder modulo a multiple is taken first.
LEMMA ModOfMod ==
  ASSUME NEW m \in Nat \ {0}, NEW k \in Nat \ {0}, m % k = 0, NEW a \in Int
  PROVE  (a % m) % k = a % k
<1> DEFINE q == a \div m
           r == a % m
           p == m \div k
           s == r \div k
           t == r % k
<1>1. a = m * q + r /\ q \in Int /\ r \in Int
  BY DivMod DEF Splits
<1>2. m = k * p /\ p \in Int
  BY DivMod DEF Splits
<1>3. r = k * s + t /\ s \in Int /\ t \in 0..(k - 1)
  BY <1>1, DivMod DEF Splits
<1> HIDE DEF q, r, p, s, t
<1>4. m * q = k * (p * q) /\ p * q \in Int
  BY <1>1, <1>2
<1>5. k * (p * q + s) = k * (p * q) + k * s
  BY <1>3, <1>4
<1>6. Splits(a, k, p * q + s, t)
  BY <1>1, <1>3, <1>4, <1>5 DEF Splits
<1>7. a % k = t
  BY <1>6, DivModUnique
<1>8. QED
  BY <1>7 DEF r, t

\* Numbers less than m apart: the distance of their remainders, with m added so that
\* it is not negative, is their own distance.
LEMMA ModDistance ==
  ASSUME NEW m \in Nat \ {0}, NEW a \in Int, NEW b \in Int, a <= b, b < a + m
  PROVE  ((b % m) + m - (a % m)) % m = b - a
<1> DEFINE p == a \div m
           q == b \div m
           r == a % m
           s == b % m
<1>1. /\ a = m * p + r /\ p \in Int /\ r \in 0..(m - 1)
      /\ b = m * q + s /\ q \in Int /\ s \in 0..(m - 1)
  BY DivMod DEF Splits
<1> HIDE DEF p, q, r, s
<1> DEFINE d == p - q + 1
<1>2. d \in Int /\ m * d = m * p - m * q + m
  BY <1>1
<1>3. s + m - r = m * d + (b - a)
  BY <1>1, <1>2
<1>4. Splits(s + m - r, m, d, b - a) /\ s + m - r \in Int
  BY <1>1, <1>2, <1>3 DEF Splits
<1>5. (s + m - r) % m = b - a
  BY <1>4, DivModUnique
<1>6. QED
  BY <1>5 DEF r, s

-----------------------------------------------------------------------------
(***************************************************************************)
(* Induction over the numbers, and what it is needed for: a function that  *)
(* is defined by recursion exists.  Sets stand for what would be a          *)
(* predicate in a textbook.                                                *)
(***************************************************************************)

\* A set of numbers that is not empty has a smallest one.
LEMMA SmallestMember ==
  ASSUME NEW T \in SUBSET Nat, T # {}
  PROVE  \E x \in T : \A y \in T : x <= y
<1> DEFINE R == OpToRel(<, Nat)
<1>1. IsWellFoundedOn(R, Nat)
  BY NatLessThanWellFounded
<1>2. \A x, y \in Nat : <<y, x>> \in R <=> y < x
  BY DEF OpToRel
<1> HIDE DEF R
<1>3. PICK x \in T : \A y \in T : ~(<<y, x>> \in R)
  BY <1>1, WFMin
<1>4. ASSUME NEW y \in T
      PROVE  x <= y
  <2>1. ~(<<y, x>> \in R) /\ x \in Nat /\ y \in Nat
    BY <1>3
  <2>2. ~(y < x)
    BY <1>2, <2>1
  <2>3. QED
    BY <2>1, <2>2
<1>5. QED
  BY <1>4

\* What has 0, and with each number the next, has all.
LEMMA Induction ==
  ASSUME NEW T, 0 \in T, \A n \in Nat : n \in T => n + 1 \in T
  PROVE  Nat \subseteq T
<1>1. SUFFICES ASSUME Nat \ T # {} PROVE FALSE
  OBVIOUS
<1>2. PICK x \in Nat \ T : \A y \in Nat \ T : x <= y
  BY <1>1, SmallestMember
<1>3. x # 0 /\ x - 1 \in Nat
  BY <1>2
<1>4. x - 1 \in T
  BY <1>2, <1>3
<1>5. (x - 1) + 1 = x
  BY <1>2
<1>6. QED
  BY <1>2, <1>3, <1>4, <1>5

\* g has the values a loop of n turns goes through, which starts with c, F[k] being
\* what the k-th turn makes of the value before.
Iterates(g, n, c, F) == g[0] = c /\ \A k \in 1..n : g[k] = F[k][g[k - 1]]

LEMMA IterationExists ==
  ASSUME NEW n \in Nat, NEW V, NEW c \in V, NEW F \in [1..n -> [V -> V]]
  PROVE  \E g \in [0..n -> V] : Iterates(g, n, c, F)
<1> USE DEF Iterates
<1> DEFINE T == {m \in Nat : m <= n => \E g \in [0..m -> V] : Iterates(g, m, c, F)}
<1>1. 0 \in T
  <2>1. [i \in 0..0 |-> c] \in [0..0 -> V] /\ Iterates([i \in 0..0 |-> c], 0, c, F)
    OBVIOUS
  <2>2. QED
    BY <2>1
<1>2. ASSUME NEW m \in Nat, m \in T
      PROVE  m + 1 \in T
  <2> SUFFICES ASSUME m + 1 <= n
               PROVE  \E g \in [0..(m + 1) -> V] : Iterates(g, m + 1, c, F)
    OBVIOUS
  <2>1. PICK g \in [0..m -> V] : Iterates(g, m, c, F)
    BY <1>2
  <2>2. m + 1 \in 1..n /\ g[m] \in V /\ F[m + 1] \in [V -> V]
    BY <2>1
  <2>3. F[m + 1][g[m]] \in V
    BY <2>2
  <2> DEFINE h == [k \in 0..(m + 1) |-> IF k = m + 1 THEN F[m + 1][g[m]] ELSE g[k]]
  <2>4. h \in [0..(m + 1) -> V]
    BY <2>1, <2>3
  <2>5. h[0] = c /\ h[m + 1] = F[m + 1][g[m]] /\ \A k \in 0..m : h[k] = g[k]
    BY <2>1
  <2> HIDE DEF h
  <2>6. ASSUME NEW k \in 1..(m + 1)
        PROVE  h[k] = F[k][h[k - 1]]
    <3>1. CASE k = m + 1
      BY <2>5, <3>1
    <3>2. CASE k \in 1..m
      <4>1. k \in 0..m /\ k - 1 \in 0..m /\ g[k] = F[k][g[k - 1]]
        BY <2>1, <3>2
      <4>2. QED
        BY <2>5, <4>1
    <3>3. QED
      BY <3>1, <3>2
  <2>7. Iterates(h, m + 1, c, F)
    BY <2>5, <2>6
  <2>8. QED
    BY <2>4, <2>7
<1>3. n \in T
  <2> HIDE DEF T
  <2>1. QED
    BY <1>1, <1>2, Induction
<1>4. QED
  BY <1>3
=============================================================================
