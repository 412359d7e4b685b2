------------------------- MODULE PowersOfTwoProofs -------------------------
(***************************************************************************)
(* Facts about the natural numbers, quotients, powers of two and bits that    *)
(* the proofs about the trees and the voles share.                           *)
(***************************************************************************)
EXTENDS PowersOfTwo, WellFoundedInduction, FiniteSetTheorems, TLAPS

---------------------------------------------------------------------------
(* Induction on the natural numbers, as the least element of a set.          *)
LEMMA LeastElement ==
  ASSUME NEW A \in SUBSET Nat, A # {}
  PROVE  \E x \in A : \A y \in A : x <= y
<1>1. PICK x \in A : \A y \in A : ~(<<y, x>> \in OpToRel(<, Nat))
  BY NatLessThanWellFounded, WFMin
<1>2. ASSUME NEW y \in A, y < x PROVE FALSE
  <2>1. <<y, x>> \in Nat \X Nat /\ <<y, x>>[1] < <<y, x>>[2]
    BY <1>2
  <2> QED
    BY <1>1, <2>1, Zenon DEF OpToRel
<1>3. x \in Nat /\ \A y \in A : y \in Nat
  OBVIOUS
<1> QED
  BY <1>2, <1>3

(* A set of numbers with 0, and with the successor of each of its members    *)
(* below n, goes all the way up to n.                                        *)
LEMMA UpTo ==
  ASSUME NEW A \in SUBSET Nat, NEW n \in Nat, 0 \in A,
         \A k \in A : k < n => k + 1 \in A
  PROVE  n \in A
<1> DEFINE Missing == {k \in Nat : k <= n /\ k \notin A}
<1>1. SUFFICES ASSUME Missing # {} PROVE FALSE
  OBVIOUS
<1>2. PICK k \in Missing : \A j \in Missing : k <= j
  BY <1>1, LeastElement
<1>3. k \in Nat /\ k <= n /\ k \notin A /\ k # 0
  OBVIOUS
<1>4. k - 1 \in Nat /\ k - 1 < n /\ k - 1 \notin Missing
  BY <1>2, <1>3
<1>5. k - 1 \in A
  BY <1>4
<1> QED
  BY <1>3, <1>4, <1>5

(* Powers of two.  Pow2 is the function that its recursion describes: up to  *)
(* each n there is one such function, and they agree where they overlap.     *)
IsPow2(g, n) == g = [k \in 0 .. n |-> IF k = 0 THEN 1 ELSE 2 * g[k - 1]]

LEMMA IsPow2Agree ==
  ASSUME NEW n \in Nat, NEW m \in Nat, NEW g, NEW h, IsPow2(g, n), IsPow2(h, m),
         NEW k \in Nat, k <= n, k <= m
  PROVE  g[k] = h[k]
<1> DEFINE A == {j \in Nat : j <= k => g[j] = h[j]}
<1>1. 0 \in A
  BY DEF IsPow2
<1>2. ASSUME NEW j \in A, j < k PROVE j + 1 \in A
  <2>1. g[j] = h[j] /\ j + 1 \in 0 .. n /\ j + 1 \in 0 .. m /\ j + 1 # 0 /\ j + 1 - 1 = j
    BY <1>2
  <2>2. g[j + 1] = 2 * g[j] /\ h[j + 1] = 2 * h[j]
    BY <2>1 DEF IsPow2
  <2> QED
    BY <2>1, <2>2
<1> HIDE DEF A
<1>3. k \in A
  <2>1. A \in SUBSET Nat
    BY DEF A
  <2> QED
    BY <1>1, <1>2, <2>1, UpTo
<1> QED
  BY <1>3 DEF A

LEMMA IsPow2Exists ==
  ASSUME NEW n \in Nat
  PROVE  \E g : IsPow2(g, n)
<1> DEFINE A == {j \in Nat : \E g : IsPow2(g, j)}
<1>1. 0 \in A
  <2>1. IsPow2([k \in 0 .. 0 |-> 1], 0)
    BY DEF IsPow2
  <2> QED
    BY <2>1
<1>2. ASSUME NEW j \in A PROVE j + 1 \in A
  <2>1. PICK g : IsPow2(g, j)
    OBVIOUS
  <2> DEFINE h == [k \in 0 .. j + 1 |-> IF k = j + 1 THEN 2 * g[j] ELSE g[k]]
  <2>2. ASSUME NEW k \in 0 .. j + 1
        PROVE  h[k] = IF k = 0 THEN 1 ELSE 2 * h[k - 1]
    <3>1. CASE k = 0
      BY <2>1, <3>1 DEF IsPow2
    <3>2. CASE k = j + 1
      <4>1. j \in 0 .. j + 1 /\ j # j + 1 /\ k - 1 = j /\ k # 0
        BY <3>2
      <4> QED
        BY <3>2, <4>1
    <3>3. CASE k # 0 /\ k # j + 1
      <4>1. k \in 0 .. j /\ k - 1 \in 0 .. j + 1 /\ k - 1 # j + 1
        BY <3>3
      <4>2. g[k] = 2 * g[k - 1]
        BY <2>1, <3>3, <4>1 DEF IsPow2
      <4> QED
        BY <3>3, <4>1, <4>2
    <3> QED
      BY <3>1, <3>2, <3>3
  <2>3. IsPow2(h, j + 1)
    <3> HIDE DEF h
    <3>1. h = [k \in 0 .. j + 1 |-> h[k]]
      BY DEF h
    <3> QED
      BY <2>2, <3>1 DEF IsPow2
  <2> QED
    BY <2>3
<1> HIDE DEF A
<1>3. n \in A
  <2>1. A \in SUBSET Nat
    BY DEF A
  <2> QED
    BY <1>1, <1>2, <2>1, UpTo
<1> QED
  BY <1>3 DEF A

LEMMA Pow2Recursion ==
  Pow2 = [n \in Nat |-> IF n = 0 THEN 1 ELSE 2 * Pow2[n - 1]]
<1> DEFINE G(n) == CHOOSE g : IsPow2(g, n)
           h    == [n \in Nat |-> G(n)[n]]
<1>1. \A n \in Nat : IsPow2(G(n), n)
  BY IsPow2Exists
<1> HIDE DEF G
<1>2. ASSUME NEW n \in Nat PROVE h[n] = IF n = 0 THEN 1 ELSE 2 * h[n - 1]
  <2>1. CASE n = 0
    BY <1>1, <2>1 DEF IsPow2
  <2>2. CASE n # 0
    <3>1. n - 1 \in Nat /\ n \in 0 .. n /\ n - 1 <= n /\ n - 1 <= n - 1
      BY <2>2
    <3>2. G(n)[n] = 2 * G(n)[n - 1]
      BY <1>1, <2>2, <3>1 DEF IsPow2
    <3>3. G(n)[n - 1] = G(n - 1)[n - 1]
      BY <1>1, <3>1, IsPow2Agree
    <3> QED
      BY <2>2, <3>1, <3>2, <3>3
  <2> QED
    BY <2>1, <2>2
<1>3. h = [n \in Nat |-> IF n = 0 THEN 1 ELSE 2 * h[n - 1]]
  <2> HIDE DEF h
  <2>1. h = [n \in Nat |-> h[n]]
    BY DEF h
  <2> QED
    BY <1>2, <2>1
<1> HIDE DEF h
<1> QED
  BY <1>3, Zenon DEF Pow2

LEMMA Pow2Values ==
  /\ Pow2[0] = 1
  /\ \A n \in Nat : Pow2[n + 1] = 2 * Pow2[n]
  /\ \A n \in Nat : Pow2[n] \in Nat \ {0}
<1>1. Pow2[0] = 1
  BY Pow2Recursion
<1>2. ASSUME NEW n \in Nat PROVE Pow2[n + 1] = 2 * Pow2[n]
  <2>1. n + 1 \in Nat /\ n + 1 # 0 /\ n + 1 - 1 = n
    OBVIOUS
  <2> QED
    BY <2>1, Pow2Recursion
<1>3. ASSUME NEW n \in Nat PROVE Pow2[n] \in Nat \ {0}
  <2> DEFINE A == {k \in Nat : Pow2[k] \in Nat \ {0}}
  <2>1. 0 \in A /\ A \in SUBSET Nat
    BY <1>1
  <2>2. \A k \in A : k + 1 \in A
    BY <1>2
  <2> HIDE DEF A
  <2>3. n \in A
    BY <2>1, <2>2, UpTo
  <2> QED
    BY <2>3 DEF A
<1> QED
  BY <1>1, <1>2, <1>3

LEMMA Pow2Sum ==
  ASSUME NEW a \in Nat, NEW b \in Nat
  PROVE  Pow2[a + b] = Pow2[a] * Pow2[b]
<1> DEFINE A == {k \in Nat : Pow2[a + k] = Pow2[a] * Pow2[k]}
<1>1. 0 \in A /\ A \in SUBSET Nat
  BY Pow2Values
<1>2. ASSUME NEW k \in A PROVE k + 1 \in A
  <2>1. /\ Pow2[a + k + 1] = 2 * Pow2[a + k] /\ Pow2[k + 1] = 2 * Pow2[k]
        /\ a + k \in Nat /\ a + (k + 1) = a + k + 1
    BY Pow2Values
  <2>2. Pow2[a] \in Nat /\ Pow2[k] \in Nat
    BY Pow2Values
  <2>3. Pow2[a] * (2 * Pow2[k]) = 2 * (Pow2[a] * Pow2[k])
    BY <2>2
  <2> QED
    BY <2>1, <2>2, <2>3
<1> HIDE DEF A
<1>3. b \in A
  BY <1>1, <1>2, UpTo
<1> QED
  BY <1>3 DEF A

LEMMA Pow2Monotone ==
  ASSUME NEW a \in Nat, NEW b \in Nat, a <= b
  PROVE  Pow2[a] <= Pow2[b]
<1>1. PICK c \in Nat : b = a + c
  BY b - a \in Nat, b = a + (b - a)
<1>2. Pow2[b] = Pow2[a] * Pow2[c] /\ Pow2[a] \in Nat /\ Pow2[c] \in Nat \ {0} /\ Pow2[b] \in Nat
  BY <1>1, Pow2Sum, Pow2Values
<1>3. \A x \in Nat, y \in Nat \ {0} : x <= x * y
  <2> SUFFICES ASSUME NEW x \in Nat, NEW y \in Nat \ {0} PROVE x <= x * y
    OBVIOUS
  <2>1. PICK z \in Nat : y = z + 1
    BY y - 1 \in Nat, y = (y - 1) + 1
  <2>2. x * y = x * z + x /\ x * z \in Nat
    BY <2>1
  <2> QED
    BY <2>2
<1> QED
  BY <1>2, <1>3

LEMMA Pow2Split ==
  ASSUME NEW h \in Nat, NEW d \in 0 .. h
  PROVE  /\ h - d \in Nat /\ d \in Nat
         /\ Pow2[h] = Pow2[h - d] * Pow2[d]
         /\ Pow2[h] \in Nat \ {0} /\ Pow2[d] \in Nat \ {0} /\ Pow2[h - d] \in Nat \ {0}
<1>1. h - d \in Nat /\ d \in Nat /\ (h - d) + d = h
  OBVIOUS
<1>2. Pow2[(h - d) + d] = Pow2[h - d] * Pow2[d]
  BY <1>1, Pow2Sum, Zenon
<1> QED
  BY <1>1, <1>2, Pow2Values

(* Multiplication by a natural number, as the provers need it.               *)
LEMMA MulMonotone ==
  ASSUME NEW a \in Nat, NEW x \in Nat, NEW y \in Nat
  PROVE  /\ a * x \in Nat
         /\ x <= y => a * x <= a * y
         /\ x < y => a * x + a <= a * y
<1>1. a * x \in Nat
  OBVIOUS
<1>2. ASSUME x <= y PROVE a * x <= a * y
  <2>1. PICK d \in Nat : y = x + d
    BY <1>2, y - x \in Nat, y = x + (y - x)
  <2>2. a * y = a * x + a * d /\ a * d \in Nat
    BY <2>1
  <2> QED
    BY <1>1, <2>2
<1>3. ASSUME x < y PROVE a * x + a <= a * y
  <2>1. PICK d \in Nat : y = x + 1 + d
    BY <1>3, y - x - 1 \in Nat, y = x + 1 + (y - x - 1)
  <2>2. a * y = a * x + a + a * d /\ a * d \in Nat
    BY <2>1
  <2> QED
    BY <1>1, <2>2
<1> QED
  BY <1>1, <1>2, <1>3

(* A quotient and a remainder are unique.                                    *)
LEMMA MulAddInjective ==
  ASSUME NEW a \in Nat, NEW x \in Nat, NEW y \in Nat,
         NEW v \in Nat, NEW w \in Nat, v < a, w < a, a * x + v = a * y + w
  PROVE  x = y /\ v = w
<1>1. a * x \in Nat /\ a * y \in Nat
  BY MulMonotone
<1>2. ~(x < y) /\ ~(y < x)
  BY <1>1, MulMonotone
<1> QED
  BY <1>1, <1>2

(* Multiples of a number.                                                    *)
LEMMA Quotient ==
  ASSUME NEW c \in Nat \ {0}, NEW i \in Nat
  PROVE  /\ i \div c \in Nat
         /\ i % c = 0 => i = (i \div c) * c
         /\ \A q \in Nat : (q * c) % c = 0
<1> DEFINE q == i \div c
<1>1. q \in Nat /\ i = c * q + (i % c)
  OBVIOUS
<1>2. ASSUME i % c = 0 PROVE i = q * c
  <2> HIDE DEF q
  <2>1. c * q = q * c
    BY <1>1
  <2> QED
    BY <1>1, <1>2, <2>1
<1>3. ASSUME NEW p \in Nat PROVE (p * c) % c = 0
  <2> DEFINE n == p * c
             a == n \div c
             b == n % c
  <2>1. n \in Nat
    OBVIOUS
  <2>2. n = c * p + 0 /\ 0 < c
    OBVIOUS
  <2> HIDE DEF n
  <2>3. a \in Nat /\ b \in Nat /\ b < c /\ n = c * a + b
    BY <2>1
  <2> HIDE DEF a, b
  <2>4. c * a + b = c * p + 0
    BY <2>2, <2>3
  <2>5. b = 0
    BY <2>2, <2>3, <2>4, MulAddInjective, 0 \in Nat
  <2> QED
    BY <2>5 DEF b, n
<1> QED
  BY <1>1, <1>2, <1>3

LEMMA Multiples ==
  ASSUME NEW c \in Nat \ {0}, NEW i \in Nat, i % c = 0
  PROVE  /\ (i + c) % c = 0
         /\ \A t \in i .. i + c - 1 : t % c = t - i
<1> DEFINE q == i \div c
<1>1. q \in Nat /\ i = c * q + (i % c)
  OBVIOUS
<1> HIDE DEF q
<1>2. i = c * q /\ c * (q + 1) = c * q + c
  BY <1>1
<1>3. ASSUME NEW t \in Nat, NEW p \in Nat, NEW r \in 0 .. c - 1, t = c * p + r
      PROVE  t % c = r
  <2> DEFINE a == t \div c
             b == t % c
  <2>1. a \in Nat /\ b \in Nat /\ b < c /\ t = c * a + b
    OBVIOUS
  <2> HIDE DEF a, b
  <2>2. r \in Nat /\ r < c /\ c * a + b = c * p + r
    BY <1>3, <2>1
  <2>3. b = r
    BY <2>1, <2>2, MulAddInjective
  <2> QED
    BY <2>3 DEF b
<1>4. (i + c) % c = 0
  <2>1. i + c = c * (q + 1) + 0 /\ i + c \in Nat /\ q + 1 \in Nat /\ 0 \in 0 .. c - 1
    BY <1>1, <1>2
  <2> QED
    BY <2>1, <1>3
<1>5. ASSUME NEW t \in i .. i + c - 1 PROVE t % c = t - i
  <2>1. t \in Nat /\ t - i \in 0 .. c - 1 /\ t = c * q + (t - i)
    BY <1>1, <1>2
  <2> QED
    BY <1>1, <2>1, <1>3
<1> QED
  BY <1>4, <1>5

LEMMA NextMultiple ==
  ASSUME NEW c \in Nat \ {0}, NEW i \in Nat, i % c = 0
  PROVE  i + c \in Nat /\ (i + c) % c = 0
<1>1. i + c \in Nat
  OBVIOUS
<1>2. (i + c) % c = 0
  BY Multiples
<1> QED
  BY <1>1, <1>2

(* Halving a quotient.                                                       *)
LEMMA Halve ==
  ASSUME NEW p \in Nat \ {0}, NEW i \in Nat
  PROVE  /\ i \div p \in Nat /\ i \div (2 * p) \in Nat
         /\ i \div p = 2 * (i \div (2 * p)) + ((i \div p) % 2)
         /\ (i \div p) \div 2 = i \div (2 * p)
         /\ \A n \in Nat : i < n * p => i \div p < n
<1> DEFINE w == 2 * p
           a == i \div p
           b == i \div w
<1>1. w \in Nat \ {0} /\ w = p + p
  OBVIOUS
<1>2. a \in Nat /\ i % p \in 0 .. p - 1 /\ i = p * a + (i % p)
  OBVIOUS
<1>3. b \in Nat /\ i % w \in 0 .. w - 1 /\ i = w * b + (i % w)
  <2> HIDE DEF w
  <2> QED
    BY <1>1
<1> HIDE DEF a, b
<1>4. PICK r \in 0 .. p - 1 : i = p * a + r
  BY <1>2
<1>5. PICK s \in 0 .. w - 1 : i = w * b + s
  BY <1>3
<1>6. w * b = p * (2 * b) /\ p * (2 * b + 1) = p * (2 * b) + p /\ p * (2 * b) \in Nat
  BY <1>3
<1>7. a = 2 * b \/ a = 2 * b + 1
  <2>1. CASE s < p
    <3>1. p * a + r = p * (2 * b) + s /\ 2 * b \in Nat /\ s \in Nat
      BY <1>3, <1>4, <1>5, <1>6
    <3> DEFINE y == 2 * b
    <3>2. y \in Nat /\ r \in Nat /\ r < p /\ p * a + r = p * y + s
      BY <1>4, <3>1
    <3> HIDE DEF y, w
    <3>3. a = y
      BY <1>2, <2>1, <3>1, <3>2, MulAddInjective
    <3> QED
      BY <3>3 DEF y
  <2>2. CASE ~(s < p)
    <3>1. s - p \in Nat /\ s - p < p
      BY <1>1, <2>2
    <3>2. p * a + r = p * (2 * b + 1) + (s - p) /\ 2 * b + 1 \in Nat
      BY <1>3, <1>4, <1>5, <1>6, <3>1
    <3> DEFINE y == 2 * b + 1
               z == s - p
    <3>3. y \in Nat /\ z \in Nat /\ z < p /\ r \in Nat /\ r < p /\ p * a + r = p * y + z
      BY <1>4, <3>1, <3>2
    <3> HIDE DEF y, z, w
    <3>4. a = y
      BY <1>2, <3>3, MulAddInjective
    <3> QED
      BY <3>4 DEF y
  <2> QED
    BY <2>1, <2>2
<1>8. a = 2 * b + (a % 2) /\ a \div 2 = b
  BY <1>2, <1>3, <1>7
<1>9. ASSUME NEW n \in Nat, i < n * p PROVE a < n
  <2>1. SUFFICES ASSUME n <= a PROVE FALSE
    BY <1>2
  <2>2. p * n <= p * a /\ p * n \in Nat /\ p * a \in Nat /\ p * n = n * p
    BY <1>2, <2>1, MulMonotone
  <2> QED
    BY <1>4, <1>9, <2>2
<1> QED
  BY <1>2, <1>3, <1>8, <1>9 DEF a, b

(* A quotient is what it is by its remainder.                                *)
LEMMA QuotientUnique ==
  ASSUME NEW p \in Nat \ {0}, NEW q \in Nat, NEW r \in 0 .. p - 1
  PROVE  /\ p * q + r \in Nat
         /\ (p * q + r) \div p = q
         /\ (p * q + r) % p = r
<1> DEFINE n == p * q + r
           a == n \div p
           b == n % p
<1>1. n \in Nat
  OBVIOUS
<1>2. n = p * q + r
  OBVIOUS
<1> HIDE DEF n
<1>3. a \in Nat /\ b \in Nat /\ b < p /\ n = p * a + b
  BY <1>1
<1> HIDE DEF a, b
<1>4. r \in Nat /\ r < p /\ p * a + b = p * q + r
  BY <1>2, <1>3
<1>5. a = q /\ b = r
  BY <1>3, <1>4, MulAddInjective
<1> QED
  BY <1>1, <1>5 DEF a, b, n

---------------------------------------------------------------------------
(* The bits of a number.                                                     *)
LEMMA Bits ==
  ASSUME NEW x \in Nat, NEW b \in Nat
  PROVE  /\ x \div Pow2[b] \in Nat
         /\ x \div Pow2[b + 1] = (x \div Pow2[b]) \div 2
         /\ x \div Pow2[b] = 2 * (x \div Pow2[b + 1]) + (IF Bit(x, b) THEN 1 ELSE 0)
<1> DEFINE p == Pow2[b]
           a == x \div p
           c == x \div (2 * p)
<1>1. p \in Nat \ {0} /\ Pow2[b + 1] = 2 * p
  BY Pow2Values
<1>2. Bit(x, b) <=> a % 2 = 1
  BY DEF Bit
<1> HIDE DEF p
<1>3. a \in Nat /\ c \in Nat /\ a = 2 * c + (a % 2) /\ a \div 2 = c
  BY <1>1, Halve
<1> HIDE DEF a, c
<1>4. a % 2 \in {0, 1}
  BY <1>3
<1>5. a = 2 * c + (IF Bit(x, b) THEN 1 ELSE 0)
  BY <1>2, <1>3, <1>4
<1> QED
  BY <1>1, <1>3, <1>5 DEF a, c, p

(* A number below 2^k has no bits from k on.                                 *)
LEMMA NoBits ==
  ASSUME NEW x \in Nat, NEW k \in Nat, x < Pow2[k], NEW b \in Nat, k <= b
  PROVE  x \div Pow2[b] = 0 /\ ~Bit(x, b)
<1>1. Pow2[b] \in Nat \ {0} /\ Pow2[k] \in Nat /\ Pow2[k] <= Pow2[b]
  BY Pow2Values, Pow2Monotone
<1> DEFINE p == Pow2[b]
<1>2. p \in Nat \ {0} /\ x < 1 * p
  BY <1>1
<1> HIDE DEF p
<1>3. x \div p \in Nat /\ x \div p < 1
  BY <1>2, Halve
<1>4. x \div p = 0
  BY <1>3
<1> QED
  BY <1>4 DEF p, Bit

LEMMA BelowPower ==
  ASSUME NEW x \in Nat, NEW k \in Nat, x \div Pow2[k] = 0
  PROVE  x < Pow2[k]
<1> DEFINE p == Pow2[k]
<1>1. p \in Nat \ {0} /\ x \div p = 0
  BY Pow2Values
<1> HIDE DEF p
<1>2. x % p < p /\ x = p * (x \div p) + (x % p)
  BY <1>1
<1>3. x < p
  BY <1>1, <1>2
<1> QED
  BY <1>3 DEF p

(* What two numbers have in common above a bit, and the bits down to c.      *)
LEMMA HighBits ==
  ASSUME NEW x \in Nat, NEW y \in Nat, NEW m \in Nat, NEW c \in Nat, c <= m,
         x \div Pow2[m] = y \div Pow2[m],
         \A b \in c .. m - 1 : Bit(x, b) <=> Bit(y, b)
  PROVE  x \div Pow2[c] = y \div Pow2[c]
<1> DEFINE A == {j \in Nat : j <= m - c => x \div Pow2[m - j] = y \div Pow2[m - j]}
<1>1. 0 \in A /\ A \in SUBSET Nat
  OBVIOUS
<1>2. ASSUME NEW j \in A PROVE j + 1 \in A
  <2> SUFFICES ASSUME j + 1 <= m - c
               PROVE  x \div Pow2[m - (j + 1)] = y \div Pow2[m - (j + 1)]
    OBVIOUS
  <2> DEFINE b == m - (j + 1)
  <2>1. b \in Nat /\ b \in c .. m - 1 /\ b + 1 = m - j /\ j <= m - c
    OBVIOUS
  <2>2. x \div Pow2[m - j] = y \div Pow2[m - j]
    BY <2>1
  <2> HIDE DEF b
  <2>3. Bit(x, b) <=> Bit(y, b)
    BY <2>1
  <2>4. /\ x \div Pow2[b] = 2 * (x \div Pow2[b + 1]) + (IF Bit(x, b) THEN 1 ELSE 0)
        /\ y \div Pow2[b] = 2 * (y \div Pow2[b + 1]) + (IF Bit(y, b) THEN 1 ELSE 0)
    BY <2>1, Bits
  <2>5. x \div Pow2[b + 1] = y \div Pow2[b + 1]
    BY <2>1, <2>2, Zenon
  <2>6. x \div Pow2[b] = y \div Pow2[b]
    BY <2>3, <2>4, <2>5, Zenon
  <2> QED
    BY <2>6 DEF b
<1> HIDE DEF A
<1>3. m - c \in A
  BY <1>1, <1>2, UpTo, m - c \in Nat
<1>4. m - (m - c) = c
  OBVIOUS
<1> QED
  BY <1>3, <1>4 DEF A

(* Numbers with the same quotient by 2^s have the same bits from s on.       *)
LEMMA SameQuotient ==
  ASSUME NEW x \in Nat, NEW y \in Nat, NEW s \in Nat, NEW b \in Nat, s <= b,
         x \div Pow2[s] = y \div Pow2[s]
  PROVE  x \div Pow2[b] = y \div Pow2[b] /\ (Bit(x, b) <=> Bit(y, b))
<1> DEFINE A == {j \in Nat : x \div Pow2[s + j] = y \div Pow2[s + j]}
<1>1. 0 \in A /\ A \in SUBSET Nat
  OBVIOUS
<1>2. ASSUME NEW j \in A PROVE j + 1 \in A
  <2>1. s + j \in Nat /\ s + (j + 1) = (s + j) + 1
    OBVIOUS
  <2> QED
    BY <2>1, Bits
<1> HIDE DEF A
<1>3. b - s \in A
  BY <1>1, <1>2, UpTo, b - s \in Nat
<1>4. s + (b - s) = b
  OBVIOUS
<1>5. x \div Pow2[b] = y \div Pow2[b]
  BY <1>3, <1>4 DEF A
<1> QED
  BY <1>5 DEF Bit

(* Shifting by one takes each bit one down.                                  *)
LEMMA ShiftedBits ==
  ASSUME NEW x \in Nat, NEW b \in Nat
  PROVE  (x \div 2) \div Pow2[b] = x \div Pow2[b + 1] /\ (Bit(x \div 2, b) <=> Bit(x, b + 1))
<1> DEFINE h == x \div 2
           A == {j \in Nat : h \div Pow2[j] = x \div Pow2[j + 1]}
<1>1. h \in Nat
  OBVIOUS
<1>2. 0 \in A /\ A \in SUBSET Nat
  <2>1. Pow2[0] = 1 /\ Pow2[0 + 1] = 2 /\ h \div 1 = h
    BY <1>1, Pow2Values
  <2> QED
    BY <2>1
<1> HIDE DEF h
<1>3. ASSUME NEW j \in A PROVE j + 1 \in A
  BY <1>1, Bits
<1> HIDE DEF A
<1>4. b \in A
  BY <1>2, <1>3, UpTo
<1>5. h \div Pow2[b] = x \div Pow2[b + 1]
  BY <1>4 DEF A
<1> QED
  BY <1>5 DEF Bit, h

(* A multiple of 2^s without bits below c is a multiple of 2^c.              *)
LEMMA MultipleBits ==
  ASSUME NEW m \in Nat, NEW s \in Nat, NEW c \in Nat, s <= c, m % Pow2[s] = 0,
         \A b \in s .. c - 1 : ~Bit(m, b)
  PROVE  m = Pow2[c] * (m \div Pow2[c])
<1> DEFINE A == {j \in Nat : j <= c - s => m = Pow2[s + j] * (m \div Pow2[s + j])}
<1>1. 0 \in A /\ A \in SUBSET Nat
  <2> DEFINE p == Pow2[s]
  <2>1. p \in Nat \ {0} /\ m % p = 0 /\ s + 0 = s
    BY Pow2Values
  <2> HIDE DEF p
  <2>2. m = p * (m \div p)
    BY <2>1
  <2> QED
    BY <2>1, <2>2 DEF p
<1>2. ASSUME NEW j \in A PROVE j + 1 \in A
  <2> SUFFICES ASSUME j + 1 <= c - s PROVE m = Pow2[s + (j + 1)] * (m \div Pow2[s + (j + 1)])
    OBVIOUS
  <2> DEFINE b == s + j
  <2>1. b \in Nat /\ b \in s .. c - 1 /\ b + 1 = s + (j + 1)
    OBVIOUS
  <2>2. m = Pow2[b] * (m \div Pow2[b])
    OBVIOUS
  <2> HIDE DEF b
  <2> DEFINE p == Pow2[b]
             q == m \div Pow2[b + 1]
  <2>3. m \div p = 2 * q /\ q \in Nat /\ p \in Nat /\ Pow2[b + 1] = 2 * p
    <3>1. ~Bit(m, b)
      BY <2>1
    <3>2. m \div Pow2[b] = 2 * (m \div Pow2[b + 1]) + 0
      BY <2>1, <3>1, Bits
    <3>3. m \div Pow2[b + 1] \in Nat
      BY <2>1, Bits, b + 1 \in Nat
    <3> QED
      BY <2>1, <3>2, <3>3, Pow2Values
  <2>4. m = p * (2 * q)
    BY <2>2, <2>3
  <2> HIDE DEF p, q
  <2>5. m = (2 * p) * q
    BY <2>3, <2>4
  <2> QED
    BY <2>1, <2>3, <2>5 DEF q
<1> HIDE DEF A
<1>3. c - s \in A
  BY <1>1, <1>2, UpTo, c - s \in Nat
<1>4. s + (c - s) = c
  OBVIOUS
<1> QED
  BY <1>3, <1>4 DEF A

(* A position inside a chunk of 2^s has the low bits, its chunk the others.  *)
LEMMA ChunkBits ==
  ASSUME NEW s \in Nat, NEW i \in Nat, i % Pow2[s] = 0, NEW p \in 0 .. Pow2[s] - 1, NEW b \in Nat
  PROVE  /\ b < s => (Bit(i + p, b) <=> Bit(p, b))
         /\ b >= s => (Bit(i + p, b) <=> Bit(i, b))
         /\ (i + p) \div Pow2[s] = i \div Pow2[s]
<1> DEFINE w == Pow2[s]
           q == i \div w
<1>1. w \in Nat \ {0} /\ p \in 0 .. w - 1 /\ p \in Nat /\ i % w = 0
  BY Pow2Values
<1>2. i = w * q /\ q \in Nat
  <2> HIDE DEF w
  <2> QED
    BY <1>1
<1>3. (i + p) \div w = q
  <2> HIDE DEF w, q
  <2> QED
    BY <1>1, <1>2, QuotientUnique
<1>4. ASSUME b >= s PROVE Bit(i + p, b) <=> Bit(i, b)
  BY <1>1, <1>3, <1>4, SameQuotient, i + p \in Nat
<1>5. ASSUME b < s PROVE Bit(i + p, b) <=> Bit(p, b)
  <2> DEFINE t == Pow2[b]
             h == Pow2[s - (b + 1)]
             a == p \div t
             r == p % t
  <2>1. t \in Nat \ {0} /\ h \in Nat /\ w = h * (2 * t)
    <3>1. b + 1 \in 0 .. s
      BY <1>5
    <3>2. w = h * Pow2[b + 1] /\ h \in Nat
      BY <3>1, Pow2Split
    <3> QED
      BY <3>2, Pow2Values
  <2> HIDE DEF t, h, w, q
  <2>2. a \in Nat /\ r \in 0 .. t - 1 /\ p = t * a + r
    BY <1>1, <2>1
  <2> HIDE DEF a, r
  <2> DEFINE z == h * q
  <2>3. z \in Nat /\ i = t * (2 * z)
    <3>1. z \in Nat
      BY <1>2, <2>1
    <3>2. (h * (2 * t)) * q = t * (2 * (h * q))
      BY <1>2, <2>1
    <3> QED
      BY <1>2, <2>1, <3>1, <3>2
  <2> HIDE DEF z
  <2> DEFINE e == 2 * z + a
  <2>4. e \in Nat /\ i + p = t * e + r
    <3>1. t * (2 * z) + t * a = t * e
      BY <2>1, <2>2, <2>3
    <3>2. e \in Nat /\ t * (2 * z) \in Nat /\ t * a \in Nat
      BY <2>1, <2>2, <2>3
    <3> HIDE DEF e
    <3> QED
      BY <2>2, <2>3, <3>1, <3>2
  <2>5. (i + p) \div t = e
    <3> HIDE DEF e
    <3>1. (t * e + r) \div t = e
      BY <2>1, <2>2, <2>4, QuotientUnique
    <3> QED
      BY <2>4, <3>1
  <2>6. e % 2 = a % 2
    BY <2>2, <2>3
  <2> QED
    BY <2>5, <2>6 DEF Bit, t, a
<1> QED
  BY <1>3, <1>4, <1>5

(* What is one to one on the first 2^n numbers is onto them.                 *)
LEMMA OneToOneOnto ==
  ASSUME NEW n \in Nat, NEW f \in [0 .. Pow2[n] - 1 -> 0 .. Pow2[n] - 1],
         \A x, y \in 0 .. Pow2[n] - 1 : f[x] = f[y] => x = y
  PROVE  \A y \in 0 .. Pow2[n] - 1 : \E x \in 0 .. Pow2[n] - 1 : f[x] = y
<1> DEFINE I == 0 .. Pow2[n] - 1
           image == {f[x] : x \in I}
<1>1. IsFiniteSet(I)
  <2>1. 0 \in Int /\ Pow2[n] - 1 \in Int
    BY Pow2Values
  <2> QED
    BY <2>1, FS_Interval
<1>2. f \in Surjection(I, image) /\ f \in Injection(I, image)
  <2>1. f \in [I -> image]
    OBVIOUS
  <2>2. \A t \in image : \E s \in I : f[s] = t
    OBVIOUS
  <2> HIDE DEF I, image
  <2>3. \A x, y \in I : f[x] = f[y] => x = y
    BY DEF I
  <2>4. f \in Surjection(I, image)
    BY <2>1, <2>2, Zenon DEF Surjection
  <2>5. f \in Injection(I, image)
    <3>1. f \in {g \in [I -> image] : \A a, b \in DOMAIN g : g[a] = g[b] => a = b}
      BY <2>1, <2>3
    <3> QED
      BY <3>1, Zenon DEF Injection, IsInjective
  <2> QED
    BY <2>4, <2>5
<1>3. image \in SUBSET I
  OBVIOUS
<1> HIDE DEF I, image
<1>4. Cardinality(image) = Cardinality(I)
  BY <1>1, <1>2, FS_Surjection
<1>5. image = I
  BY <1>1, <1>3, <1>4, FS_Subset
<1> QED
  BY <1>5 DEF I, image
============================================================================
