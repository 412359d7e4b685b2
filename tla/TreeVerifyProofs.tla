-------------------------- MODULE TreeVerifyProofs --------------------------
(***************************************************************************)
(* The verifier of the one-tree-per-vector commitment, for every number and  *)
(* length of vectors and every chunk size.  In four parts: where its outputs *)
(* and its chunks go; one call of its subtree expansion, then its loop over  *)
(* the vectors and their subtrees; it reads only memory somebody wrote; and  *)
(* both sides together implement the abstract vector commitment.             *)
(***************************************************************************)
EXTENDS TreeVCProofs

---------------------------------------------------------------------------
(* The operators of TreeExpand are those of TreeLayout for the verifier too. *)
LEMMA SamePow2V == V!Pow2 = Pow2
BY DEF Pow2, V!Pow2

LEMMA SameLayoutV ==
  /\ V!TREE_CHUNK_SIZE = TREE_CHUNK_SIZE
  /\ V!MAX_CHUNK_SIZE = MAX_CHUNK_SIZE
  /\ \A x : V!FIRST_CHILD(x, TRUE) = FIRST_CHILD(x, TRUE)
  /\ \A x, d : V!FIRST_DESCENDENT_DEPTH(x, d, TRUE) = FIRST_DESCENDENT_DEPTH(x, d, TRUE)
  /\ \A x, b : V!Prg(x, b) = Prg(x, b)
  /\ \A x : V!LeafPrg(x) = LeafPrg(x)
<1> USE SamePow2V
<1>1. V!TREE_CHUNK_SIZE = TREE_CHUNK_SIZE /\ V!MAX_CHUNK_SIZE = MAX_CHUNK_SIZE
  BY DEF TREE_CHUNK_SIZE, V!TREE_CHUNK_SIZE, LEAF_CHUNK_SIZE, V!LEAF_CHUNK_SIZE,
         MAX_CHUNK_SIZE, V!MAX_CHUNK_SIZE
<1>2. NONZERO_BITS_IN_CHALLENGE_3 = V!NONZERO_BITS_IN_CHALLENGE_3
  BY DEF NONZERO_BITS_IN_CHALLENGE_3, V!NONZERO_BITS_IN_CHALLENGE_3, VOLES_MIN_K,
         V!VOLES_MIN_K, VOLE_MAX_K, V!VOLE_MAX_K
<1>3. \A x : V!FIRST_CHILD(x, TRUE) = FIRST_CHILD(x, TRUE)
             /\ V!FIRST_CHILD(x, FALSE) = FIRST_CHILD(x, FALSE)
  BY <1>2 DEF FIRST_CHILD, V!FIRST_CHILD, TREES_IN_FOREST, V!TREES_IN_FOREST
<1>4. \A x, d : V!FIRST_DESCENDENT_DEPTH(x, d, TRUE) = FIRST_DESCENDENT_DEPTH(x, d, TRUE)
  BY <1>2 DEF FIRST_DESCENDENT_DEPTH, V!FIRST_DESCENDENT_DEPTH, TREES_IN_FOREST, V!TREES_IN_FOREST
<1>5. \A x, b : V!Prg(x, b) = Prg(x, b)
  BY <1>3 DEF Prg, V!Prg, Uninit, V!Uninit, Junk, V!Junk
<1>6. \A x : V!LeafPrg(x) = LeafPrg(x)
  BY DEF LeafPrg, V!LeafPrg, Zero, V!Zero, Junk, V!Junk
<1> QED
  BY <1>1, <1>3, <1>4, <1>5, <1>6

(* The subtrees of the verifier.                                             *)
T == NONZERO_BITS_IN_CHALLENGE_3
VD(x, d) == FIRST_DESCENDENT_DEPTH(x, d, TRUE)

LEMMA SubtreeCount ==
  /\ T = BITS_PER_WITNESS * VOLE_MIN_K + VOLES_MAX_K
  /\ T \in Nat \ {0}
  /\ T <= VOLE_MAX_K * BITS_PER_WITNESS
<1> DEFINE t == BITS_PER_WITNESS
           m == VOLES_MAX_K
           n == VOLE_MIN_K
<1>1. t \in Nat \ {0} /\ m \in Nat /\ m < t /\ n \in Nat \ {0}
  BY TreeSizes
<1>2. T = t * n + m
  <2>1. CASE m = 0
    BY <1>1, <2>1, TreeSizes DEF T, NONZERO_BITS_IN_CHALLENGE_3, VOLES_MIN_K
  <2>2. CASE m # 0
    <3>1. T = m * (n + 1) + (t - m) * n
      BY <2>2, TreeSizes DEF T, NONZERO_BITS_IN_CHALLENGE_3, VOLES_MIN_K
    <3>2. m * (n + 1) + (t - m) * n = t * n + m
      BY <1>1
    <3> QED
      BY <3>1, <3>2
  <2> QED
    BY <2>1, <2>2
<1>3. t * n \in Nat /\ t <= t * n
  <2>1. t * 1 <= t * n /\ t * n \in Nat
    BY <1>1, MulMonotone
  <2> QED
    BY <1>1, <2>1
<1>4. T \in Nat \ {0}
  BY <1>1, <1>2, <1>3
<1>5. T <= VOLE_MAX_K * t
  <2>1. CASE m = 0
    <3>1. VOLE_MAX_K = n /\ n * t = t * n
      BY <1>1, <2>1, TreeSizes
    <3> QED
      BY <1>1, <1>2, <1>3, <2>1, <3>1
  <2>2. CASE m # 0
    <3>1. VOLE_MAX_K = n + 1 /\ (n + 1) * t = t * n + t
      BY <1>1, <2>2, TreeSizes
    <3> QED
      BY <1>1, <1>2, <1>3, <3>1
  <2> QED
    BY <2>1, <2>2
<1> QED
  BY <1>2, <1>4, <1>5

(* Where the descendants of a subtree begin.                                *)
LEMMA VShape ==
  ASSUME NEW x \in Nat, NEW d \in Nat
  PROVE  /\ VD(x, d) \in Nat
         /\ VD(x, d) = (x + T) * Pow2[d] - T
         /\ VD(x, d) = VD(0, d) + x * Pow2[d]
         /\ VD(x, 0) = x
         /\ FIRST_CHILD(x, TRUE) = 2 * x + T
         /\ VD(x, d + 1) = 2 * VD(x, d) + T
         /\ VD(0, d) = T * Pow2[d] - T
         /\ VD(0, d + 1) = VD(0, d) + T * Pow2[d]
<1> DEFINE p == Pow2[d]
<1>1. T \in Nat /\ p \in Nat \ {0} /\ Pow2[0] = 1 /\ Pow2[d + 1] = 2 * p
  BY SubtreeCount, Pow2Values
<1>2. \A y, e : VD(y, e) = (y + T) * Pow2[e] - T
  BY DEF VD, FIRST_DESCENDENT_DEPTH, TREES_IN_FOREST, T
<1>3. FIRST_CHILD(x, TRUE) = 2 * x + T
  BY DEF FIRST_CHILD, TREES_IN_FOREST, T
<1>4. VD(x, d) = (x + T) * p - T /\ VD(0, d) = (0 + T) * p - T
  BY <1>2
<1>5. VD(x, d + 1) = (x + T) * (2 * p) - T /\ VD(0, d + 1) = (0 + T) * (2 * p) - T
  BY <1>1, <1>2
<1>6. VD(x, 0) = (x + T) * 1 - T
  BY <1>1, <1>2
<1> HIDE DEF p
<1>7. (x + T) * p = x * p + T * p /\ (x + T) * (2 * p) = 2 * (x * p) + 2 * (T * p)
      /\ (0 + T) * p = T * p /\ (0 + T) * (2 * p) = 2 * (T * p)
      /\ x * p \in Nat /\ T * p \in Nat
  BY <1>1
<1>8. T <= T * p
  <2>1. T * 1 <= T * p
    BY <1>1, MulMonotone
  <2> QED
    BY <1>1, <2>1
<1> DEFINE a == x * p
           b == T * p
<1>9. /\ a \in Nat /\ b \in Nat /\ T <= b /\ VD(x, d) = a + b - T /\ VD(0, d) = b - T
      /\ VD(x, d + 1) = 2 * a + 2 * b - T /\ VD(0, d + 1) = 2 * b - T
  BY <1>1, <1>4, <1>5, <1>7, <1>8
<1> HIDE DEF a, b
<1>10. /\ VD(x, d) \in Nat /\ VD(x, d) = VD(0, d) + a /\ VD(x, d + 1) = 2 * VD(x, d) + T
       /\ VD(0, d + 1) = VD(0, d) + b
  BY <1>1, <1>9
<1>11. VD(x, 0) = x
  BY <1>1, <1>6
<1> QED
  BY <1>3, <1>4, <1>7, <1>9, <1>10, <1>11 DEF a, b, p

LEMMA VNat ==
  \A x, d \in Nat : VD(x, d) \in Nat
BY VShape

LEMMA VAdd ==
  ASSUME NEW x \in Nat, NEW n \in Nat, NEW d \in Nat
  PROVE  VD(x + n, d) = VD(x, d) + n * Pow2[d] /\ n * Pow2[d] \in Nat
<1> DEFINE p == Pow2[d]
<1>1. p \in Nat /\ x + n \in Nat
  BY Pow2Values
<1>2. VD(x + n, d) = VD(0, d) + (x + n) * p /\ VD(x, d) = VD(0, d) + x * p /\ VD(0, d) \in Nat
  BY <1>1, VShape, VNat, 0 \in Nat
<1> HIDE DEF p
<1>3. (x + n) * p = x * p + n * p /\ x * p \in Nat /\ n * p \in Nat
  BY <1>1
<1> DEFINE a == VD(0, d)
           b == x * p
           c == n * p
<1>4. a \in Nat /\ b \in Nat /\ c \in Nat /\ VD(x + n, d) = a + (b + c) /\ VD(x, d) = a + b
  BY <1>2, <1>3
<1> HIDE DEF a, b, c
<1>5. VD(x + n, d) = VD(x, d) + c
  BY <1>4
<1> QED
  BY <1>3, <1>5 DEF c, p

(* The descendants of descendants are descendants.                          *)
LEMMA VFirstFirst ==
  ASSUME NEW x \in Nat, NEW a \in Nat, NEW b \in Nat
  PROVE  VD(VD(x, a), b) = VD(x, a + b)
<1> DEFINE y == VD(x, a)
           p == Pow2[a]
           q == Pow2[b]
<1>1. T \in Nat /\ p \in Nat /\ q \in Nat /\ Pow2[a + b] = p * q
  BY SubtreeCount, Pow2Values, Pow2Sum
<1>2. y \in Nat /\ y + T = (x + T) * p
  <2>1. y \in Nat /\ y = (x + T) * p - T
    BY VShape
  <2> DEFINE z == (x + T) * p
  <2>2. z \in Nat /\ y = z - T
    BY <1>1, <2>1
  <2> HIDE DEF y, z
  <2>3. y + T = z
    BY <1>1, <2>1, <2>2
  <2> QED
    BY <2>1, <2>3 DEF z
<1>3. VD(y, b) = (y + T) * q - T
  BY <1>2, VShape
<1>4. VD(x, a + b) = (x + T) * (p * q) - T
  <2>1. \A d \in Nat : VD(x, d) = (x + T) * Pow2[d] - T
    BY VShape
  <2>2. VD(x, a + b) = (x + T) * Pow2[a + b] - T
    BY <2>1, a + b \in Nat
  <2> QED
    BY <1>1, <2>2, Zenon
<1> HIDE DEF y, p, q
<1>5. ((x + T) * p) * q = (x + T) * (p * q)
  BY <1>1
<1> QED
  BY <1>2, <1>3, <1>4, <1>5 DEF y

---------------------------------------------------------------------------
(* The roots of the subtrees, and the keys of the opening they start from.   *)
(* The subtree of height h beside the path of vector u.                      *)
SubRoot(u, h) == IF h = VOLE_MIN_K THEN u ELSE Limit(h + 1) + u

(* How many subtrees are at least of a height.                               *)
LEMMA LimitValues ==
  ASSUME NEW d \in Nat, d <= VOLE_MIN_K
  PROVE  /\ Limit(d) = BITS_PER_WITNESS * (VOLE_MIN_K - d) + VOLES_MAX_K
         /\ Limit(d) \in Nat /\ Limit(d) <= T
         /\ Limit(d) = Limit(d + 1) + BITS_PER_WITNESS
         /\ BITS_PER_WITNESS * (VOLE_MIN_K - d) \in Nat
<1> DEFINE t == BITS_PER_WITNESS
           n == VOLE_MIN_K
           m == VOLES_MAX_K
<1>1. t \in Nat \ {0} /\ n \in Nat /\ m \in Nat /\ n - d \in Nat /\ T = t * n + m /\ T \in Nat
  BY TreeSizes, SubtreeCount
<1>2. d * t = t * d /\ t * (n - d) = t * n - t * d /\ t * n \in Nat /\ t * d \in Nat
      /\ t * (n - d) \in Nat
  BY <1>1
<1> DEFINE a == t * n
           b == t * d
           c == t * (n - d)
<1>3. a \in Nat /\ b \in Nat /\ c \in Nat /\ c = a - b /\ T = a + m /\ Limit(d) = T - b
  BY <1>1, <1>2 DEF Limit, T
<1> HIDE DEF a, b, c
<1>4. Limit(d) = c + m /\ Limit(d) \in Nat /\ Limit(d) <= T
  BY <1>1, <1>3
<1>5. Limit(d) = Limit(d + 1) + t
  BY Limits
<1> QED
  BY <1>3, <1>4, <1>5 DEF c

(* Each subtree has its root among the first T nodes, by height.            *)
LEMMA RootPlace ==
  ASSUME NEW u \in Vec, NEW h \in 0 .. Depth(u) - 1
  PROVE  /\ h \in Nat /\ h <= VOLE_MIN_K
         /\ SubRoot(u, h) \in Nat /\ SubRoot(u, h) < Limit(h) /\ SubRoot(u, h) < T
         /\ h # VOLE_MIN_K =>
              SubRoot(u, h) = BITS_PER_WITNESS * (VOLE_MIN_K - 1 - h) + u + VOLES_MAX_K
         /\ h = VOLE_MIN_K => u < VOLES_MAX_K /\ VOLE_MAX_K = VOLE_MIN_K + 1
<1> DEFINE t == BITS_PER_WITNESS
           n == VOLE_MIN_K
           m == VOLES_MAX_K
<1>1. /\ t \in Nat \ {0} /\ n \in Nat \ {0} /\ m \in Nat /\ m < t /\ u \in Nat /\ u < t
      /\ Depth(u) \in Nat \ {0} /\ Depth(u) <= n + 1 /\ (u < m <=> Depth(u) = n + 1)
  BY TreeSizes, DepthRange
<1>2. h \in Nat /\ h <= n
  BY <1>1
<1>3. Limit(h) \in Nat /\ Limit(h) <= T /\ T \in Nat
  BY <1>2, LimitValues, SubtreeCount
<1>4. CASE h = n
  <2>1. u < m
    BY <1>1, <1>4
  <2>2. Limit(n) = m
    <3>1. t * (n - n) = 0
      BY <1>1
    <3>2. Limit(n) = t * (n - n) + m
      BY <1>1, LimitValues, n <= n
    <3> QED
      BY <1>1, <3>1, <3>2
  <2> QED
    BY <1>1, <1>2, <1>3, <1>4, <2>1, <2>2, TreeSizes DEF SubRoot
<1>5. CASE h # n
  <2>1. h + 1 \in Nat /\ h + 1 <= n /\ n - (h + 1) = n - 1 - h
    BY <1>1, <1>2, <1>5
  <2>2. Limit(h + 1) = t * (n - (h + 1)) + m /\ Limit(h + 1) \in Nat
        /\ t * (n - (h + 1)) \in Nat
    BY <2>1, LimitValues
  <2>3. Limit(h) = Limit(h + 1) + t
    BY <1>2, LimitValues
  <2>4. SubRoot(u, h) = Limit(h + 1) + u
    BY <1>5 DEF SubRoot
  <2>5. t * (n - (h + 1)) = t * (n - 1 - h)
    BY <2>1
  <2> DEFINE a == t * (n - 1 - h)
  <2>6. a \in Nat /\ Limit(h + 1) = a + m
    BY <2>2, <2>5
  <2> HIDE DEF a
  <2>7. SubRoot(u, h) \in Nat /\ SubRoot(u, h) < Limit(h) /\ SubRoot(u, h) < T
        /\ SubRoot(u, h) = a + u + m
    BY <1>1, <1>3, <2>2, <2>3, <2>4, <2>6
  <2> QED
    BY <1>2, <1>5, <2>7 DEF a
<1> QED
  BY <1>4, <1>5

(* reorder_verifier_keys puts the key of each level at the root of the        *)
(* subtree beside the path.                                                  *)
LEMMA RootKey ==
  ASSUME NEW u \in Vec, NEW h \in 0 .. Depth(u) - 1
  PROVE  ReorderedKeys[SubRoot(u, h)] = OpeningStart(u) + (Depth(u) - 1 - h)
<1> DEFINE t == BITS_PER_WITNESS
           n == VOLE_MIN_K
           m == VOLES_MAX_K
           x == SubRoot(u, h)
           ahead == VOLE_MAX_K - VOLE_MIN_K
           y == IF x < ahead * m THEN x ELSE x + ahead * VOLES_MIN_K
           i == VOLE_MAX_K - 1 - h
           j == Depth(u) - 1 - h
<1>1. /\ t \in Nat \ {0} /\ n \in Nat \ {0} /\ m \in Nat /\ m < t /\ u \in Nat /\ u < t
      /\ VOLE_MAX_K = (IF m = 0 THEN n ELSE n + 1) /\ VOLES_MIN_K = t - m
      /\ Depth(u) = (IF u < m THEN n + 1 ELSE n)
  BY TreeSizes, DepthRange DEF VOLES_MIN_K, Depth
<1>2. /\ h \in Nat /\ h <= n /\ x \in Nat /\ x < T
      /\ h # n => x = t * (n - 1 - h) + u + m
      /\ h = n => u < m /\ VOLE_MAX_K = n + 1
  BY RootPlace
<1>3. ReorderedKeys[x] = KeyPlace(y \div t, y % t)
  <2>1. x \in 0 .. T - 1
    BY <1>2, SubtreeCount
  <2> HIDE DEF x
  <2> QED
    BY <2>1 DEF ReorderedKeys, T, y, ahead
<1>4. i \in Nat /\ y = t * i + u
  <2>1. CASE m = 0
    <3>1. ahead = 0 /\ h # n /\ n - 1 - h = i /\ i \in Nat
      BY <1>1, <1>2, <2>1
    <3>2. x = t * i + u /\ t * i \in Nat
      <4>1. x = t * i + u + m /\ t * i \in Nat
        BY <1>1, <1>2, <3>1
      <4> QED
        BY <1>1, <2>1, <4>1
    <3>3. ahead * m = 0 /\ ahead * VOLES_MIN_K = 0
      BY <1>1, <3>1
    <3>4. y = x
      <4> HIDE DEF x, ahead
      <4> QED
        BY <1>2, <3>3
    <3> QED
      BY <3>1, <3>2, <3>4
  <2>2. CASE m # 0
    <3>1. ahead = 1 /\ i = n - h /\ i \in Nat /\ ahead * m = m /\ ahead * VOLES_MIN_K = t - m
      BY <1>1, <1>2, <2>2
    <3>2. CASE h = n
      <4>1. x = u /\ x < m /\ t * i = 0
        BY <1>1, <1>2, <3>1, <3>2 DEF SubRoot
      <4> HIDE DEF x, ahead
      <4> QED
        BY <1>1, <3>1, <4>1
    <3>3. CASE h # n
      <4>1. t * i = t * (n - 1 - h) + t /\ t * (n - 1 - h) \in Nat
        BY <1>1, <1>2, <3>1, <3>3
      <4> DEFINE a == t * (n - 1 - h)
      <4>2. a \in Nat /\ x = a + u + m /\ t * i = a + t
        BY <1>2, <3>3, <4>1
      <4> HIDE DEF x, ahead, a, i
      <4> QED
        BY <1>1, <3>1, <4>2
    <3> QED
      BY <3>2, <3>3
  <2> QED
    BY <2>1, <2>2
<1>5. y \div t = i /\ y % t = u
  <2>1. u \in 0 .. t - 1
    BY <1>1
  <2> HIDE DEF y, i
  <2> QED
    BY <1>1, <1>4, <2>1, QuotientUnique
<1>6. KeyPlace(i, u) = OpeningStart(u) + j
  <2>1. CASE u < m
    <3>1. i = j /\ VOLE_MAX_K = n + 1
      BY <1>1, <2>1
    <3>2. KeyPlace(i, u) = i + u * (VOLE_MAX_K + 2) /\ OpeningStart(u) = u * (n + 2) + u
      BY <2>1 DEF KeyPlace, OpeningStart
    <3>3. u * (n + 3) = u * (n + 2) + u /\ u * (n + 2) \in Nat /\ VOLE_MAX_K + 2 = n + 3
      BY <1>1, <3>1
    <3>4. i \in Int
      BY <1>4
    <3> HIDE DEF i, j
    <3> QED
      BY <1>1, <3>1, <3>2, <3>3, <3>4
  <2>2. CASE ~(u < m)
    <3>1. KeyPlace(i, u) = i + m * (VOLE_MAX_K + 2) - (VOLE_MAX_K - n) + (u - m) * (n + 2)
          /\ OpeningStart(u) = u * (n + 2) + m
      BY <2>2 DEF KeyPlace, OpeningStart
    <3>2. /\ m * (VOLE_MAX_K + 2) = m * (n + 2) + m /\ i - (VOLE_MAX_K - n) = j
          /\ (u - m) * (n + 2) = u * (n + 2) - m * (n + 2)
          /\ m * (n + 2) \in Nat /\ u * (n + 2) \in Nat
      BY <1>1, <1>2, <2>2
    <3> DEFINE a == m * (n + 2)
               b == u * (n + 2)
    <3>3. /\ a \in Nat /\ b \in Nat /\ OpeningStart(u) = b + m
          /\ KeyPlace(i, u) = i + (a + m) - (VOLE_MAX_K - n) + (b - a)
      BY <3>1, <3>2
    <3>4. i \in Nat /\ j = i - (VOLE_MAX_K - n) /\ VOLE_MAX_K \in Nat
      BY <1>4, <3>2, TreeSizes
    <3> HIDE DEF i, j, a, b
    <3> QED
      BY <1>1, <3>3, <3>4
  <2> QED
    BY <2>1, <2>2
<1> QED
  BY <1>3, <1>5, <1>6

(* Each of the first T nodes is the root of a subtree of some vector.       *)
LEMMA EveryRoot ==
  ASSUME NEW x \in 0 .. T - 1
  PROVE  \E u \in Vec : \E h \in 0 .. Depth(u) - 1 : x = SubRoot(u, h)
<1> DEFINE t == BITS_PER_WITNESS
           n == VOLE_MIN_K
           m == VOLES_MAX_K
<1>1. /\ t \in Nat \ {0} /\ n \in Nat \ {0} /\ m \in Nat /\ m < t /\ T \in Nat /\ T = t * n + m
      /\ x \in Nat /\ x < T /\ Vec = 0 .. t - 1
  BY TreeSizes, SubtreeCount DEF Vec
<1>2. CASE x < m
  <2>1. x \in Vec
    BY <1>1, <1>2
  <2>2. n \in 0 .. Depth(x) - 1
    BY <1>1, <1>2, <2>1, DepthRange
  <2>3. x = SubRoot(x, n)
    BY DEF SubRoot
  <2> QED
    BY <2>1, <2>2, <2>3
<1>3. CASE ~(x < m)
  <2> DEFINE y == x - m
             q == y \div t
             u == y % t
             h == n - 1 - q
  <2>1. y \in Nat /\ y = t * q + u /\ q \in Nat /\ u \in 0 .. t - 1
    BY <1>1, <1>3
  <2>2. q < n
    <3>1. y < t * n /\ t * n \in Nat
      <4> DEFINE a == t * n
      <4>1. a \in Nat /\ T = a + m
        BY <1>1
      <4> HIDE DEF a
      <4> QED
        BY <1>1, <1>3, <4>1 DEF a
    <3> HIDE DEF q, u, y
    <3>2. ~(n <= q)
      <4>1. SUFFICES ASSUME n <= q PROVE FALSE
        OBVIOUS
      <4>2. t * n <= t * q /\ t * q \in Nat
        BY <1>1, <2>1, <4>1, MulMonotone
      <4> QED
        BY <1>1, <2>1, <3>1, <4>2
    <3> QED
      BY <1>1, <2>1, <3>2
  <2> HIDE DEF q, u, y
  <2>3. h \in Nat /\ h < n /\ n - 1 - h = q /\ u \in Vec
    BY <1>1, <2>1, <2>2
  <2>4. h \in 0 .. Depth(u) - 1
    BY <1>1, <2>3, DepthRange
  <2>5. SubRoot(u, h) = t * q + u + m
    <3> HIDE DEF h
    <3>1. SubRoot(u, h) = t * (n - 1 - h) + u + m
      BY <1>1, <2>3, <2>4, RootPlace
    <3> QED
      BY <2>3, <3>1, Zenon
  <2>6. t * q \in Nat
    BY <1>1, <2>1
  <2> DEFINE a == t * q
  <2>7. x = a + u + m
    <3>1. a \in Nat /\ y = a + u
      BY <2>1, <2>6
    <3> HIDE DEF a
    <3> QED
      BY <1>1, <1>3, <2>1, <3>1 DEF y
  <2> QED
    BY <2>3, <2>4, <2>5, <2>7
<1> QED
  BY <1>2, <1>3

(* reorder_verifier_keys takes every key from a slot of the opening.        *)
LEMMA KeysFromOpening ==
  \A r \in 0 .. T - 1 : ReorderedKeys[r] \in OpeningSlot
<1> SUFFICES ASSUME NEW r \in 0 .. T - 1 PROVE ReorderedKeys[r] \in OpeningSlot
  OBVIOUS
<1>0. PICK u \in Vec : \E h \in 0 .. Depth(u) - 1 : r = SubRoot(u, h)
  BY EveryRoot
<1>1. PICK h \in 0 .. Depth(u) - 1 : r = SubRoot(u, h)
  BY <1>0
<1>2. ReorderedKeys[r] = OpeningStart(u) + (Depth(u) - 1 - h)
  BY <1>1, RootKey
<1>3. Depth(u) - 1 - h \in 0 .. Depth(u) - 1
  BY DepthRange
<1> QED
  BY <1>2, <1>3, SeedPlace

---------------------------------------------------------------------------
(* What the verifier derives.  Seed j of the 2^n seeds that are n levels      *)
(* below one, and what node x of the subtrees is to hold.                    *)
Derive(b, n, j) == IF b \in Nat THEN FD(b, n) + j
                   ELSE IF n = 0 \/ b = Uninit THEN b ELSE Junk

Derived(o, x, b) ==
  \A r \in 0 .. T - 1, n \in Nat : \A j \in 0 .. Pow2[n] - 1 :
    x = VD(r, n) + j => b = Derive(o[ReorderedKeys[r]], n, j)

VKnown(o, f, nodes) == \A x \in nodes : x \in V!Node /\ Derived(o, x, f[x])

VGrows(o, f, g) == \A x \in V!Node : Derived(o, x, f[x]) => Derived(o, x, g[x])

IsOpening(o) == \A s \in OpeningSlot : o[s] \in Block

LEMMA DeriveChild ==
  ASSUME NEW b \in Block, NEW n \in Nat, NEW i \in Nat, NEW e \in 0 .. 1
  PROVE  Prg(Derive(b, n, i), e) = Derive(b, n + 1, 2 * i + e)
<1>1. Uninit \notin Nat /\ Zero \notin Nat /\ Junk \notin Nat /\ Uninit = -1 /\ Zero = -2 /\ Junk = -3
  BY DEF Uninit, Zero, Junk
<1>2. CASE b \in Nat
  <2>1. FD(b, n) \in Nat /\ FD(b, n + 1) = 2 * FD(b, n) + BITS_PER_WITNESS
    BY <1>2, FirstValue
  <2> DEFINE a == FD(b, n)
             y == a + i
  <2>2. y \in Nat /\ Derive(b, n, i) = y /\ Derive(b, n + 1, 2 * i + e) = FD(b, n + 1) + (2 * i + e)
    BY <1>2, <2>1 DEF Derive
  <2>3. FIRST_CHILD(y, FALSE) = 2 * y + BITS_PER_WITNESS
    BY <2>2, FirstValue, 0 \in Nat
  <2>4. Prg(y, e) = FIRST_CHILD(y, FALSE) + e
    <3> HIDE DEF y
    <3> QED
      BY <2>2 DEF Prg
  <2>5. a \in Nat /\ BITS_PER_WITNESS \in Nat /\ FD(b, n + 1) = 2 * a + BITS_PER_WITNESS
    BY <2>1, TreeSizes
  <2>6. 2 * y + BITS_PER_WITNESS + e = FD(b, n + 1) + (2 * i + e)
    <3> HIDE DEF a
    <3> QED
      BY <2>5
  <2> QED
    BY <2>2, <2>3, <2>4, <2>6, Zenon
<1>3. CASE b \notin Nat
  <2>1. b \in {Uninit, Zero, Junk}
    BY <1>3 DEF Block
  <2>2. Derive(b, n, i) = (IF b = Uninit THEN Uninit ELSE IF n = 0 THEN b ELSE Junk)
    BY <1>3 DEF Derive
  <2>3. Derive(b, n + 1, 2 * i + e) = (IF b = Uninit THEN Uninit ELSE Junk)
    BY <1>3 DEF Derive
  <2>4. Prg(Uninit, e) = Uninit /\ Prg(Zero, e) = Junk /\ Prg(Junk, e) = Junk
    BY <1>1 DEF Prg
  <2> QED
    BY <1>1, <2>1, <2>2, <2>3, <2>4
<1> QED
  BY <1>2, <1>3

(* Where a node with a parent is.                                            *)
LEMMA ParentOf ==
  ASSUME NEW y \in Nat, NEW e \in 0 .. 1, NEW r \in 0 .. T - 1, NEW n \in Nat,
         NEW j \in 0 .. Pow2[n] - 1, 2 * y + T + e = VD(r, n) + j
  PROVE  /\ n # 0 /\ n - 1 \in Nat /\ j \div 2 \in 0 .. Pow2[n - 1] - 1
         /\ y = VD(r, n - 1) + j \div 2 /\ e = j % 2
<1>1. T \in Nat /\ r \in Nat /\ r < T
  BY SubtreeCount
<1>2. n # 0
  <2>1. SUFFICES ASSUME n = 0 PROVE FALSE
    OBVIOUS
  <2>2. VD(r, 0) = r /\ Pow2[0] = 1
    BY <1>1, VShape, Pow2Values, 0 \in Nat
  <2> QED
    BY <1>1, <2>1, <2>2
<1> DEFINE m == n - 1
<1>3. m \in Nat /\ n = m + 1
  BY <1>2
<1> HIDE DEF m
<1>4. VD(r, n) = 2 * VD(r, m) + T /\ VD(r, m) \in Nat /\ Pow2[n] = 2 * Pow2[m] /\ Pow2[m] \in Nat
  BY <1>1, <1>3, VShape, Pow2Values
<1>5. j \in Nat /\ j < 2 * Pow2[m]
  BY <1>4
<1> DEFINE a == VD(r, m)
           p == Pow2[m]
<1>6. /\ 2 * y + T + e = 2 * a + T + j /\ a \in Nat /\ p \in Nat /\ j < 2 * p
  BY <1>4, <1>5
<1> HIDE DEF a, p
<1>7. j \div 2 \in 0 .. p - 1 /\ y = a + j \div 2 /\ e = j % 2
  BY <1>1, <1>5, <1>6
<1> QED
  BY <1>2, <1>3, <1>7 DEF a, p, m

(* A node that derives from its subtree's key has children that do.         *)
LEMMA DerivedChild ==
  ASSUME NEW o, IsOpening(o), NEW y \in Nat, NEW b, Derived(o, y, b), NEW e \in 0 .. 1
  PROVE  Derived(o, 2 * y + T + e, Prg(b, e))
<1> SUFFICES ASSUME NEW r \in 0 .. T - 1, NEW n \in Nat, NEW j \in 0 .. Pow2[n] - 1,
                    2 * y + T + e = VD(r, n) + j
             PROVE  Prg(b, e) = Derive(o[ReorderedKeys[r]], n, j)
  BY DEF Derived
<1> DEFINE m == n - 1
           i == j \div 2
           k == o[ReorderedKeys[r]]
<1>1. n # 0 /\ m \in Nat /\ i \in 0 .. Pow2[m] - 1 /\ y = VD(r, m) + i /\ e = j % 2
  BY ParentOf
<1>2. j \in Nat /\ i \in Nat /\ j = 2 * i + (j % 2) /\ m + 1 = n
  <2>1. Pow2[n] \in Nat
    BY Pow2Values
  <2> QED
    BY <1>1, <2>1
<1> HIDE DEF m, i
<1>3. b = Derive(k, m, i)
  BY <1>1 DEF Derived
<1>4. k \in Block
  BY KeysFromOpening DEF IsOpening
<1> HIDE DEF k
<1>5. Prg(Derive(k, m, i), e) = Derive(k, m + 1, 2 * i + e)
  <2>1. m \in Nat /\ i \in Nat /\ k \in Block
    BY <1>1, <1>2, <1>4
  <2> QED
    BY <2>1, DeriveChild, Zenon
<1> QED
  BY <1>1, <1>2, <1>3, <1>5, Zenon DEF k

LEMMA DerivedRoot ==
  ASSUME NEW o, IsOpening(o), NEW x \in 0 .. T - 1
  PROVE  Derived(o, x, o[ReorderedKeys[x]])
<1> SUFFICES ASSUME NEW r \in 0 .. T - 1, NEW n \in Nat, NEW j \in 0 .. Pow2[n] - 1,
                    x = VD(r, n) + j
             PROVE  o[ReorderedKeys[x]] = Derive(o[ReorderedKeys[r]], n, j)
  BY DEF Derived
<1>1. T \in Nat /\ r \in Nat /\ x \in Nat /\ x < T /\ Pow2[0] = 1 /\ VD(r, 0) = r
  <2>1. T \in Nat /\ Pow2[0] = 1 /\ 0 \in Nat
    BY SubtreeCount, Pow2Values
  <2>2. r \in Nat /\ x \in Nat /\ x < T
    BY <2>1
  <2>3. VD(r, 0) = r
    BY <2>1, <2>2, VShape, Zenon
  <2> QED
    BY <2>1, <2>2, <2>3
<1>2. n = 0
  <2>1. SUFFICES ASSUME n # 0 PROVE FALSE
    OBVIOUS
  <2> DEFINE m == n - 1
  <2>2. m \in Nat /\ n = m + 1
    BY <2>1
  <2> HIDE DEF m
  <2>3. VD(r, n) = 2 * VD(r, m) + T /\ VD(r, m) \in Nat /\ Pow2[n] \in Nat
    BY <1>1, <2>2, VShape, Pow2Values, ZenonT(60)
  <2>4. j \in Nat
    BY <2>3
  <2> QED
    BY <1>1, <2>3, <2>4
<1>3. j = 0 /\ x = r
  BY <1>1, <1>2
<1>4. o[ReorderedKeys[r]] \in Block
  BY KeysFromOpening DEF IsOpening
<1>5. \A b \in Block : Derive(b, 0, 0) = b
  <2> SUFFICES ASSUME NEW b \in Block PROVE Derive(b, 0, 0) = b
    OBVIOUS
  <2>1. b \in Nat => FD(b, 0) = b
    BY FirstValue, 0 \in Nat
  <2>2. b \in Nat => b + 0 = b
    OBVIOUS
  <2> QED
    BY <2>1, <2>2 DEF Derive
<1> QED
  BY <1>2, <1>3, <1>4, <1>5

(* The subtrees take all the memory that is given to them.                   *)
LEMMA SubtreesEnd ==
  /\ ForestSize(TRUE) = VD(0, VOLE_MAX_K) /\ ForestSize(TRUE) \in Nat
  /\ V!Node = 0 .. VD(0, VOLE_MAX_K) - 1
<1>1. VOLE_MAX_K \in Nat /\ T \in Nat /\ Pow2[VOLE_MAX_K] \in Nat \ {0}
  BY TreeSizes, SubtreeCount, Pow2Values
<1> DEFINE p == Pow2[VOLE_MAX_K]
<1>2. VD(0, VOLE_MAX_K) = T * p - T /\ VD(0, VOLE_MAX_K) \in Nat
  BY <1>1, VShape, 0 \in Nat
<1>3. ForestSize(TRUE) = T * (p - 1)
  BY DEF ForestSize, T
<1>4. T * (p - 1) = T * p - T
  <2> HIDE DEF p
  <2> QED
    BY <1>1 DEF p
<1>5. V!ForestSize(TRUE) = ForestSize(TRUE)
  BY SamePow2V DEF ForestSize, V!ForestSize, NONZERO_BITS_IN_CHALLENGE_3,
     V!NONZERO_BITS_IN_CHALLENGE_3, VOLES_MIN_K, V!VOLES_MIN_K, VOLE_MAX_K, V!VOLE_MAX_K
<1> QED
  BY <1>2, <1>3, <1>4, <1>5 DEF V!Node

(* A node of a subtree that is at least n levels high has its memory.         *)
LEMMA VInForest ==
  ASSUME NEW r \in 0 .. T - 1, NEW n \in Nat, n <= VOLE_MIN_K, r < Limit(n)
  PROVE  /\ VD(r + 1, n) <= ForestSize(TRUE)
         /\ VD(r, n) \in Nat /\ VD(r + 1, n) = VD(r, n) + Pow2[n]
<1>1. /\ n \in Nat /\ r \in Nat /\ r + 1 \in Nat /\ Pow2[n] \in Nat \ {0} /\ T \in Nat
      /\ VD(0, n) \in Nat
  BY SubtreeCount, Pow2Values, VNat, 0 \in Nat
<1> DEFINE p == Pow2[n]
<1>2. /\ VD(r, n) = VD(0, n) + r * p /\ VD(r + 1, n) = VD(0, n) + (r + 1) * p
      /\ VD(r, n) \in Nat /\ VD(0, n + 1) = VD(0, n) + T * p
  <2>1. \A z \in Nat : VD(z, n) = VD(0, n) + z * p
    BY VShape
  <2>2. VD(0, n + 1) = VD(0, n) + T * p
    BY VShape, 0 \in Nat
  <2> QED
    BY <1>1, <2>1, <2>2, VNat
<1>3. (r + 1) * p = r * p + p /\ r * p \in Nat
  BY <1>1
<1>4. VD(r + 1, n) = VD(r, n) + p
  <2> DEFINE a == VD(0, n)
             b == r * p
  <2>1. a \in Nat /\ b \in Nat /\ VD(r, n) = a + b /\ VD(r + 1, n) = a + (b + p)
    BY <1>1, <1>2, <1>3
  <2> HIDE DEF a, b, p
  <2> QED
    BY <1>1, <2>1 DEF p
<1>5. CASE n + 1 <= VOLE_MAX_K
  <2>1. p * (r + 1) <= p * T /\ p * (r + 1) = (r + 1) * p /\ p * T = T * p /\ (r + 1) * p \in Nat
        /\ T * p \in Nat
    BY <1>1, MulMonotone
  <2>2. VD(0, n + 1) <= VD(0, VOLE_MAX_K)
    <3> DEFINE k == VOLE_MAX_K
    <3>1. k \in Nat /\ n + 1 \in Nat
      BY TreeSizes
    <3>2. Pow2[n + 1] <= Pow2[k] /\ Pow2[n + 1] \in Nat /\ Pow2[k] \in Nat
      BY <1>5, <3>1, Pow2Monotone, Pow2Values
    <3>3. T * Pow2[n + 1] <= T * Pow2[k] /\ T * Pow2[n + 1] \in Nat /\ T * Pow2[k] \in Nat
      BY <1>1, <3>2, MulMonotone
    <3>4. VD(0, n + 1) = T * Pow2[n + 1] - T /\ VD(0, k) = T * Pow2[k] - T
      <4>1. \A d \in Nat : VD(0, d) = T * Pow2[d] - T
        BY VShape, 0 \in Nat
      <4> QED
        BY <3>1, <4>1
    <3> DEFINE a == T * Pow2[n + 1]
               b == T * Pow2[k]
    <3> HIDE DEF k
    <3>5. a \in Nat /\ b \in Nat /\ a <= b /\ VD(0, n + 1) = a - T /\ VD(0, k) = b - T
      BY <3>3, <3>4
    <3> HIDE DEF a, b
    <3>6. VD(0, n + 1) <= VD(0, k)
      BY <1>1, <3>5
    <3> QED
      BY <3>6 DEF k
  <2> DEFINE a == VD(0, n)
             b == (r + 1) * p
             c == T * p
             z == VD(0, VOLE_MAX_K)
             y == VD(r + 1, n)
  <2>3. /\ a \in Nat /\ b \in Nat /\ c \in Nat /\ b <= c /\ VD(r + 1, n) = a + b
        /\ VD(0, n + 1) = a + c /\ a + c <= z /\ z \in Nat /\ ForestSize(TRUE) = z
    BY <1>1, <1>2, <2>1, <2>2, SubtreesEnd
  <2>4. y <= z
    <3>1. /\ a \in Nat /\ b \in Nat /\ c \in Nat /\ b <= c /\ y = a + b
          /\ a + c <= z /\ z \in Nat
      BY <2>3
    <3> HIDE DEF a, b, c, z, y
    <3> QED
      BY <3>1
  <2> QED
    BY <1>2, <1>4, <2>3, <2>4
<1>6. CASE ~(n + 1 <= VOLE_MAX_K)
  <2>1. n = VOLE_MIN_K /\ VOLES_MAX_K = 0
    BY <1>1, <1>6, TreeSizes
  <2>2. Limit(n) = 0
    <3>1. Limit(n) = BITS_PER_WITNESS * (VOLE_MIN_K - n) + VOLES_MAX_K
      BY LimitValues
    <3>2. BITS_PER_WITNESS * 0 = 0 /\ VOLE_MIN_K - n = 0
      BY <2>1, TreeSizes
    <3> QED
      BY <2>1, <3>1, <3>2
  <2> QED
    BY <1>1, <2>2
<1> QED
  BY <1>5, <1>6

(* expand_chunk derives the children of known nodes.                         *)
LEMMA VExpandKnown ==
  ASSUME NEW o, IsOpening(o), NEW from \in Nat, NEW n \in Nat,
         VKnown(o, v_forest, from .. from + n - 1), 2 * (from + n) + T <= ForestSize(TRUE)
  PROVE  /\ VGrows(o, v_forest, V!ExpandChunk(from, n))
         /\ VKnown(o, V!ExpandChunk(from, n), 2 * from + T .. 2 * from + T + 2 * n - 1)
<1> DEFINE to  == 2 * from + T
           g   == V!ExpandChunk(from, n)
           new == to .. to + 2 * n - 1
<1>1. T \in Nat /\ to \in Nat
  BY SubtreeCount
<1>2. FIRST_CHILD(from, TRUE) = to
  BY VShape, 0 \in Nat
<1>3. V!Node = 0 .. ForestSize(TRUE) - 1 /\ ForestSize(TRUE) \in Nat
  BY SubtreesEnd
<1>4. new \subseteq V!Node
  <2> DEFINE size == ForestSize(TRUE)
  <2>1. size \in Nat /\ V!Node = 0 .. size - 1 /\ 2 * (from + n) + T <= size
    BY <1>3
  <2> HIDE DEF size
  <2> SUFFICES ASSUME NEW x \in new PROVE x \in V!Node
    OBVIOUS
  <2>2. x \in Nat /\ x < size
    BY <1>1, <2>1
  <2> QED
    BY <2>1, <2>2
<1>5. g = [x \in V!Node |-> IF x \in new THEN Prg(v_forest[from + (x - to) \div 2], (x - to) % 2)
                                         ELSE v_forest[x]]
  BY <1>2, SameLayoutV, Zenon DEF V!ExpandChunk
<1>6. ASSUME NEW x \in new PROVE Derived(o, x, g[x])
  <2> DEFINE p == from + (x - to) \div 2
             b == (x - to) % 2
  <2>1. p \in from .. from + n - 1 /\ 2 * p + T + b = x /\ p \in Nat /\ b \in 0 .. 1
    BY <1>1
  <2>2. Derived(o, p, v_forest[p])
    BY <2>1 DEF VKnown
  <2>3. g[x] = Prg(v_forest[p], b)
    BY <1>4, <1>5
  <2> HIDE DEF p, b
  <2>4. Derived(o, 2 * p + T + b, Prg(v_forest[p], b))
    BY <2>1, <2>2, DerivedChild
  <2> QED
    BY <2>1, <2>3, <2>4
<1>7. ASSUME NEW x \in V!Node, x \notin new PROVE g[x] = v_forest[x]
  BY <1>5, <1>7
<1> HIDE DEF g, new, to
<1>8. VGrows(o, v_forest, g)
  BY <1>6, <1>7 DEF VGrows
<1>9. VKnown(o, g, new)
  BY <1>4, <1>6 DEF VKnown
<1> QED
  BY <1>8, <1>9 DEF g, new, to

(* What is known stays known while the forest grows.                        *)
LEMMA VKnownGrows ==
  ASSUME NEW o, NEW f, NEW g, VGrows(o, f, g)
  PROVE  \A nodes : VKnown(o, f, nodes) => VKnown(o, g, nodes)
BY DEF VGrows, VKnown

---------------------------------------------------------------------------
(* The first levels of the subtrees.  A node of a level is known, or a call   *)
(* accounts for it, or it comes after those that calls were made for.        *)
Under(c, n, x) == c.n < n /\ x \div Pow2[n - c.n] \in c.i .. c.i + TREE_CHUNK_SIZE - 1

Live(n) == 0 .. Limit(n) * Pow2[n] - 1

CallKnows(o, f, c) ==
  /\ c.node = VD(0, c.n) + c.i
  /\ ~NothingToDo(c) => VKnown(o, f, c.node .. c.node + SizeExpanded(c) - 1)

Grown(o, f, cs, i) ==
  /\ VKnown(o, f, 0 .. T - 1)
  /\ \A m \in DOMAIN cs : CallKnows(o, f, cs[m])
  /\ \A n \in 1 .. TREE_CHUNK_SIZE_SHIFT : \A x \in Live(n) :
       \/ VKnown(o, f, {VD(0, n) + x})
       \/ \E m \in DOMAIN cs : Under(cs[m], n, x)
       \/ x >= i * Pow2[n]

(* The limit of a level, by the number of subtrees that go on below it.     *)
LEMMA LiveLevel ==
  ASSUME NEW n \in 1 .. TREE_CHUNK_SIZE_SHIFT
  PROVE  /\ n \in Nat /\ n - 1 \in Nat /\ n <= VOLE_MIN_K
         /\ Limit(n) \in Nat /\ Pow2[n] \in Nat \ {0}
         /\ Limit(n) * Pow2[n] = 2 * LevelLimit(n - 1)
         /\ LevelLimit(n - 1) = Limit(n) * Pow2[n - 1]
         /\ LevelLimit(n - 1) \in Nat
<1>1. n \in Nat /\ n - 1 \in Nat /\ n <= VOLE_MIN_K /\ n - 1 + 1 = n /\ n \in 0 .. TREE_CHUNK_SIZE_SHIFT
  BY TreeSizes
<1>2. Limit(n) \in Nat /\ Pow2[n] \in Nat \ {0} /\ Pow2[n - 1] \in Nat \ {0}
  BY <1>1, LimitValues, Pow2Values
<1>3. Pow2[n] = 2 * Pow2[n - 1]
  <2>1. \A m \in Nat : Pow2[m + 1] = 2 * Pow2[m]
    BY Pow2Values
  <2>2. Pow2[(n - 1) + 1] = 2 * Pow2[n - 1]
    BY <1>1, <2>1, Zenon
  <2> QED
    BY <1>1, <2>2
<1>4. LevelLimit(n - 1) = Limit(n) * Pow2[n - 1]
  BY <1>1 DEF LevelLimit, Limit
<1> DEFINE a == Limit(n)
           p == Pow2[n - 1]
<1>5. a * (2 * p) = 2 * (a * p) /\ a * p \in Nat
  <2>1. a \in Nat /\ p \in Nat
    BY <1>2
  <2> HIDE DEF a, p
  <2> QED
    BY <2>1
<1> QED
  BY <1>1, <1>2, <1>3, <1>4, <1>5

(* The ancestor of a live node at a level above it is live.                   *)
LEMMA LiveAncestor ==
  ASSUME NEW n \in 1 .. TREE_CHUNK_SIZE_SHIFT, NEW x \in Live(n), NEW k \in Nat, k < n
  PROVE  /\ x \in Nat /\ n - k \in Nat /\ n - k - 1 \in Nat
         /\ x \div Pow2[n - k] \in Nat /\ x \div Pow2[n - k - 1] \in Nat
         /\ (x \div Pow2[n - k - 1]) \div 2 = x \div Pow2[n - k]
         /\ x \div Pow2[n - k] < LevelLimit(k) /\ LevelLimit(k) \in Nat
         /\ x \div Pow2[n - k - 1] < 2 * LevelLimit(k)
<1>1. /\ n \in Nat /\ Limit(n) \in Nat /\ Pow2[n] \in Nat \ {0} /\ n <= VOLE_MIN_K
      /\ n <= TREE_CHUNK_SIZE_SHIFT /\ TREE_CHUNK_SIZE_SHIFT \in Nat
  BY LiveLevel, TreeSizes
<1>2. k + 1 \in 1 .. TREE_CHUNK_SIZE_SHIFT /\ (k + 1) - 1 = k
  BY <1>1
<1>3. Limit(k + 1) \in Nat /\ LevelLimit(k) \in Nat /\ LevelLimit(k) = Limit(k + 1) * Pow2[k]
  <2> DEFINE m == k + 1
  <2>1. m \in 1 .. TREE_CHUNK_SIZE_SHIFT /\ m - 1 = k
    BY <1>2
  <2> HIDE DEF m
  <2>2. Limit(m) \in Nat /\ LevelLimit(m - 1) \in Nat /\ LevelLimit(m - 1) = Limit(m) * Pow2[m - 1]
    BY <2>1, LiveLevel
  <2> QED
    BY <2>1, <2>2 DEF m
<1> DEFINE d == n - k - 1
<1>4. d \in Nat /\ n - k = d + 1 /\ n = (n - k) + k /\ n - k \in Nat
  BY <1>1
<1>5. x \in Nat /\ x < Limit(n) * Pow2[n]
  <2>1. Limit(n) * Pow2[n] \in Nat
    BY <1>1
  <2> QED
    BY <2>1 DEF Live
<1>6. x \div Pow2[d] \in Nat /\ x \div Pow2[d + 1] \in Nat
      /\ x \div Pow2[d + 1] = (x \div Pow2[d]) \div 2
  <2>1. d + 1 \in Nat
    BY <1>4
  <2> HIDE DEF d
  <2> QED
    BY <1>4, <1>5, <2>1, Bits
<1>7. Limit(n) <= Limit(k + 1)
  <2>1. BITS_PER_WITNESS * (k + 1) <= BITS_PER_WITNESS * n /\ BITS_PER_WITNESS * n \in Nat
        /\ BITS_PER_WITNESS * (k + 1) \in Nat /\ BITS_PER_WITNESS \in Nat /\ T \in Nat
    BY <1>1, <1>2, MulMonotone, TreeSizes, SubtreeCount
  <2>2. BITS_PER_WITNESS * (k + 1) = (k + 1) * BITS_PER_WITNESS /\ BITS_PER_WITNESS * n = n * BITS_PER_WITNESS
    BY <1>1, TreeSizes
  <2>3. Limit(n) = T - n * BITS_PER_WITNESS /\ Limit(k + 1) = T - (k + 1) * BITS_PER_WITNESS
    BY DEF Limit, T
  <2> DEFINE a == (k + 1) * BITS_PER_WITNESS
             b == n * BITS_PER_WITNESS
  <2>4. a \in Nat /\ b \in Nat /\ a <= b /\ Limit(n) = T - b /\ Limit(k + 1) = T - a
    BY <2>1, <2>2, <2>3
  <2> HIDE DEF a, b
  <2> QED
    BY <2>1, <2>4
<1>8. Pow2[n] = Pow2[n - k] * Pow2[k] /\ Pow2[n - k] \in Nat \ {0} /\ Pow2[k] \in Nat \ {0}
  <2>1. k \in 0 .. n
    BY <1>1
  <2> QED
    BY <1>1, <2>1, Pow2Split
<1>9. x < (Limit(k + 1) * Pow2[k]) * Pow2[n - k]
  <2> DEFINE a == Limit(n)
             b == Limit(k + 1)
             p == Pow2[k]
             q == Pow2[n - k]
             w == p * q
  <2>1. a \in Nat /\ b \in Nat /\ a <= b /\ p \in Nat /\ q \in Nat /\ Pow2[n] = q * p
    BY <1>1, <1>3, <1>7, <1>8
  <2> HIDE DEF a, b, p, q
  <2>2. w \in Nat /\ q * p = w /\ (b * p) * q = b * w /\ a * w = w * a /\ b * w = w * b
    BY <2>1
  <2>3. w * a <= w * b
    <3> HIDE DEF w
    <3> QED
      BY <2>1, <2>2, MulMonotone
  <2>4. x < w * a
    BY <1>5, <2>1, <2>2 DEF a
  <2>5. w * a \in Nat /\ w * b \in Nat
    BY <2>1, <2>2
  <2> QED
    BY <1>5, <2>2, <2>3, <2>4, <2>5 DEF b, p, q
<1>10. x \div Pow2[n - k] < LevelLimit(k)
  <2> DEFINE m == Limit(k + 1) * Pow2[k]
             p == Pow2[n - k]
  <2>1. m \in Nat /\ p \in Nat \ {0} /\ x < m * p /\ m = LevelLimit(k)
    BY <1>3, <1>8, <1>9
  <2> HIDE DEF m, p
  <2>2. x \div p < m
    BY <1>5, <2>1, Halve
  <2> QED
    BY <2>1, <2>2 DEF p
<1>11. x \div Pow2[d] < 2 * LevelLimit(k)
  <2> DEFINE y == x \div Pow2[d]
  <2>1. y \in Nat /\ y \div 2 < LevelLimit(k)
    BY <1>4, <1>6, <1>10
  <2> HIDE DEF y, d
  <2> QED
    BY <1>3, <2>1 DEF y
<1> QED
  BY <1>3, <1>4, <1>5, <1>6, <1>10, <1>11

(* The nodes a call expands have memory for their children.                  *)
LEMMA CallFits ==
  ASSUME NEW c \in GoodCall, ~NothingToDo(c), c.node = VD(0, c.n) + c.i
  PROVE  /\ c.n \in Nat /\ c.i \in Nat /\ c.node \in Nat /\ SizeExpanded(c) \in Nat
         /\ c.n + 1 \in 1 .. TREE_CHUNK_SIZE_SHIFT
         /\ c.i + SizeExpanded(c) <= LevelLimit(c.n) /\ LevelLimit(c.n) \in Nat
         /\ 2 * c.node + T = VD(0, c.n + 1) + 2 * c.i
         /\ 2 * (c.node + SizeExpanded(c)) + T <= ForestSize(TRUE)
<1> DEFINE n == c.n
           i == c.i
           s == SizeExpanded(c)
           w == TREE_CHUNK_SIZE
           l == LevelLimit(n)
<1>1. /\ n \in Nat /\ i \in Nat /\ c.node \in Nat /\ c.size = w
      /\ s \in 1 .. w /\ w \in Nat /\ (Crosses(c) => s = l - i) /\ (~Crosses(c) => s = w)
  BY GoodSize, SubtreeSizes
<1>2. n < TREE_CHUNK_SIZE_SHIFT /\ l \in Nat /\ i < l
  <2>1. l \in Int
    BY <1>1, LevelLimits
  <2>2. ~(n >= TREE_CHUNK_SIZE_SHIFT) /\ ~(i >= l)
    BY DEF NothingToDo
  <2>3. n < TREE_CHUNK_SIZE_SHIFT
    BY <1>1, <2>2, SubtreeSizes
  <2>4. l \in Nat
    BY <1>1, <2>3, LevelLimits
  <2> HIDE DEF l, i
  <2> QED
    BY <1>1, <2>2, <2>3, <2>4
<1>3. i + s <= l
  <2>1. Crosses(c) <=> i + w > l
    BY <1>1 DEF Crosses
  <2> HIDE DEF i, s, l, w
  <2> QED
    BY <1>1, <1>2, <2>1
<1> DEFINE m == n + 1
<1>4. m \in 1 .. TREE_CHUNK_SIZE_SHIFT /\ m - 1 = n /\ m \in Nat
  BY <1>1, <1>2, TreeSizes
<1> HIDE DEF m
<1>5. /\ m <= VOLE_MIN_K /\ Limit(m) \in Nat /\ Limit(m) * Pow2[m] = 2 * l
      /\ Pow2[m] \in Nat \ {0}
  <2>1. /\ m <= VOLE_MIN_K /\ Limit(m) \in Nat /\ Limit(m) * Pow2[m] = 2 * LevelLimit(m - 1)
        /\ Pow2[m] \in Nat \ {0}
    BY <1>4, LiveLevel
  <2> QED
    BY <1>4, <2>1
<1>6. VD(0, m) = 2 * VD(0, n) + T /\ VD(0, n) \in Nat /\ VD(0, m) \in Nat /\ T \in Nat
  <2>1. VD(0, n + 1) = 2 * VD(0, n) + T
    BY <1>1, VShape, 0 \in Nat, Zenon
  <2> QED
    BY <1>1, <1>4, <2>1, VNat, SubtreeCount, 0 \in Nat DEF m
<1>7. VD(0, m) + 2 * l <= ForestSize(TRUE) /\ ForestSize(TRUE) \in Nat
  <2> DEFINE r == Limit(m) - 1
             p == Pow2[m]
  <2>1. Limit(m) # 0
    <3>1. SUFFICES ASSUME Limit(m) = 0 PROVE FALSE
      OBVIOUS
    <3>2. 0 * Pow2[m] = 0
      BY <1>5
    <3>3. 2 * l = 0
      BY <1>5, <3>1, <3>2
    <3> HIDE DEF l
    <3> QED
      BY <1>1, <1>2, <3>3
  <2>2. r \in Nat /\ r + 1 = Limit(m) /\ r < Limit(m)
    BY <1>5, <2>1
  <2>3. r \in 0 .. T - 1
    <3>1. Limit(m) <= T
      BY <1>4, <1>5, LimitValues
    <3> HIDE DEF r
    <3> QED
      BY <1>5, <1>6, <2>2, <3>1
  <2> HIDE DEF r
  <2>4. VD(r + 1, m) <= ForestSize(TRUE)
    BY <1>4, <1>5, <2>2, <2>3, VInForest
  <2>5. VD(Limit(m), m) = VD(0, m) + Limit(m) * Pow2[m]
    BY <1>4, <1>5, VShape
  <2> QED
    BY <1>5, <2>2, <2>4, <2>5, SubtreesEnd
<1>8. 2 * c.node + T = VD(0, m) + 2 * i
  <2> DEFINE a == VD(0, n)
  <2>1. a \in Nat /\ c.node = a + i /\ VD(0, m) = 2 * a + T
    BY <1>6
  <2> HIDE DEF a, i
  <2> QED
    BY <1>1, <1>6, <2>1
<1>9. 2 * (c.node + s) + T <= ForestSize(TRUE)
  <2> DEFINE a == VD(0, m)
             z == ForestSize(TRUE)
             x == c.node
  <2>1. a \in Nat /\ z \in Nat /\ x \in Nat /\ 2 * x + T = a + 2 * i /\ a + 2 * l <= z
    BY <1>1, <1>6, <1>7, <1>8
  <2>2. s \in Nat
    BY <1>1
  <2> HIDE DEF a, z, x, s, i, l
  <2>3. 2 * (x + s) + T <= z
    BY <1>1, <1>2, <1>3, <1>6, <2>1, <2>2
  <2> QED
    BY <2>3 DEF x, z
<1>10. s \in Nat /\ c.n + 1 \in 1 .. TREE_CHUNK_SIZE_SHIFT
  BY <1>1, <1>4 DEF m
<1> QED
  BY <1>1, <1>2, <1>3, <1>8, <1>9, <1>10, Zenon DEF m

(* The calls for the children of the nodes that a call expands.              *)
LEMMA NextCalls ==
  ASSUME NEW c \in GoodCall, ~NothingToDo(c)
  PROVE  LET w     == TREE_CHUNK_SIZE
             child == FIRST_CHILD(c.node, TRUE)
             out   == 2 * SizeExpanded(c)
         IN /\ ~Crosses(c) =>
                 NextSubtrees(c) = <<Child(c.n + 1, w, 2 * c.i, child),
                                     Child(c.n + 1, w, 2 * c.i + w, child + w)>>
            /\ Crosses(c) /\ out >= w =>
                 NextSubtrees(c) = <<Child(c.n + 1, w, 2 * c.i, child),
                                     Child(c.n + 1, out - w, 2 * c.i + w, child + w)>>
            /\ Crosses(c) /\ ~(out >= w) =>
                 NextSubtrees(c) = <<Child(c.n + 1, out, 2 * c.i, child)>>
<1> DEFINE w == TREE_CHUNK_SIZE
           n == c.n + 1
           i == 2 * c.i
           child == FIRST_CHILD(c.node, TRUE)
           output == 2 * SizeExpanded(c)
<1>1. [Child(n, w, i, child) EXCEPT !.size = output] = Child(n, output, i, child)
  <2> HIDE DEF n, w, i, child, output
  <2>1. PICK r : r = Child(n, w, i, child)
    OBVIOUS
  <2>2. r = [n |-> n, size |-> w, i |-> i, node |-> child]
    BY <2>1 DEF Child
  <2>3. [r EXCEPT !.size = output] = [n |-> n, size |-> output, i |-> i, node |-> child]
    BY <2>2
  <2> QED
    BY <2>1, <2>3, Zenon DEF Child
<1> QED
  BY <1>1, Zenon DEF NextSubtrees, Child

(* Some part of what a call expands.                                         *)
LEMMA CallGrows ==
  ASSUME NEW o, IsOpening(o), NEW c \in GoodCall, ~NothingToDo(c), CallKnows(o, v_forest, c)
  PROVE  LET g == V!ExpandChunk(c.node, SizeExpanded(c))
         IN /\ VGrows(o, v_forest, g)
            /\ \A m \in DOMAIN NextSubtrees(c) : CallKnows(o, g, NextSubtrees(c)[m])
            /\ \A n \in 1 .. TREE_CHUNK_SIZE_SHIFT : \A x \in Live(n) :
                 Under(c, n, x) =>
                   \/ VKnown(o, g, {VD(0, n) + x})
                   \/ \E m \in DOMAIN NextSubtrees(c) : Under(NextSubtrees(c)[m], n, x)
<1> DEFINE w == TREE_CHUNK_SIZE
           s == SizeExpanded(c)
           g == V!ExpandChunk(c.node, s)
           to == 2 * c.node + T
           k == c.n
           i == c.i
           child == FIRST_CHILD(c.node, TRUE)
           out == 2 * s
           next == NextSubtrees(c)
<1>1. /\ k \in Nat /\ i \in Nat /\ c.node \in Nat /\ s \in Nat /\ c.node = VD(0, k) + i
      /\ k + 1 \in 1 .. TREE_CHUNK_SIZE_SHIFT
      /\ i + s <= LevelLimit(k) /\ LevelLimit(k) \in Nat
      /\ to = VD(0, k + 1) + 2 * i /\ 2 * (c.node + s) + T <= ForestSize(TRUE)
      /\ VKnown(o, v_forest, c.node .. c.node + s - 1)
  BY CallFits DEF CallKnows
<1>2. /\ w \in Nat \ {0} /\ s \in 1 .. w
      /\ Crosses(c) => s = LevelLimit(k) - i /\ 2 * i >= LevelLimit(k + 1)
      /\ ~Crosses(c) => s = w
  BY GoodSize, SubtreeSizes
<1>3. child = to /\ T \in Nat /\ to \in Nat /\ VD(0, k + 1) \in Nat /\ out \in Nat
  <2>1. child = to
    BY <1>1, VShape, 0 \in Nat
  <2>2. k + 1 \in Nat
    BY <1>1
  <2>3. T \in Nat /\ VD(0, k + 1) \in Nat
    BY <2>2, VNat, SubtreeCount, 0 \in Nat
  <2>4. \A x, y \in Nat : 2 * x + y \in Nat /\ 2 * x \in Nat
    OBVIOUS
  <2>5. c.node \in Nat /\ s \in Nat
    BY <1>1
  <2>6. to \in Nat /\ out \in Nat
    BY <2>3, <2>4, <2>5, Zenon
  <2> QED
    BY <2>1, <2>3, <2>6
<1>4. VGrows(o, v_forest, g) /\ VKnown(o, g, to .. to + out - 1)
  BY <1>1, VExpandKnown
<1>5. \A n2, size2, i2, x2 :
        /\ Child(n2, size2, i2, x2).n = n2 /\ Child(n2, size2, i2, x2).size = size2
        /\ Child(n2, size2, i2, x2).i = i2 /\ Child(n2, size2, i2, x2).node = x2
  BY DEF Child
<1>6. next \in Seq(GoodCall)
  BY GoodNext
<1>7. /\ ~Crosses(c) => next = <<Child(k + 1, w, 2 * i, child), Child(k + 1, w, 2 * i + w, child + w)>>
      /\ Crosses(c) /\ out >= w =>
           next = <<Child(k + 1, w, 2 * i, child), Child(k + 1, out - w, 2 * i + w, child + w)>>
      /\ Crosses(c) /\ ~(out >= w) => next = <<Child(k + 1, out, 2 * i, child)>>
  BY NextCalls
<1> HIDE DEF w, s, g, to, k, i, child, out, next
<1>8. ASSUME NEW m \in DOMAIN next
      PROVE  CallKnows(o, g, next[m])
  <2>1. next[m] \in GoodCall
    BY <1>6
  <2>2. /\ next[m].n = k + 1
        /\ \/ m = 1 /\ next[m].i = 2 * i /\ next[m].node = child
           \/ m = 2 /\ next[m].i = 2 * i + w /\ next[m].node = child + w
    BY <1>5, <1>7
  <2>3. next[m].node = VD(0, next[m].n) + next[m].i
    <3> DEFINE a == VD(0, k + 1)
    <3>1. a \in Nat /\ child = a + 2 * i
      BY <1>1, <1>3
    <3> HIDE DEF a
    <3>2. next[m].node = a + next[m].i
      BY <1>1, <1>2, <2>2, <3>1
    <3> QED
      BY <2>2, <3>2 DEF a
  <2>4. ASSUME ~NothingToDo(next[m])
        PROVE  VKnown(o, g, next[m].node .. next[m].node + SizeExpanded(next[m]) - 1)
    <3>1. ~Crosses(c)
      <4>1. SUFFICES ASSUME Crosses(c) PROVE FALSE
        OBVIOUS
      <4>2. 2 * i >= LevelLimit(k + 1) /\ LevelLimit(k + 1) \in Int
        BY <1>1, <1>2, <4>1, LevelLimits, k + 1 \in Nat
      <4>3. next[m].i >= LevelLimit(next[m].n)
        BY <1>1, <1>2, <2>2, <4>2
      <4> QED
        BY <2>4, <4>3 DEF NothingToDo
    <3>2. SizeExpanded(next[m]) \in 1 .. w
      BY <2>1, <2>4, GoodSize DEF w
    <3>3. out = 2 * w
      BY <1>2, <3>1 DEF out
    <3> DEFINE x == next[m].node
               y == SizeExpanded(next[m])
    <3>4. x .. x + y - 1 \subseteq to .. to + out - 1
      <4>1. x \in {to, to + w} /\ y \in 1 .. w
        BY <1>3, <2>2, <3>2
      <4> HIDE DEF x, y
      <4> QED
        BY <1>2, <1>3, <3>3, <4>1
    <3> QED
      BY <1>4, <3>4 DEF VKnown
  <2> QED
    BY <2>3, <2>4 DEF CallKnows
<1>9. ASSUME NEW n \in 1 .. TREE_CHUNK_SIZE_SHIFT, NEW x \in Live(n), Under(c, n, x)
      PROVE  \/ VKnown(o, g, {VD(0, n) + x})
             \/ \E m \in DOMAIN next : Under(next[m], n, x)
  <2>1. k < n /\ x \div Pow2[n - k] \in i .. i + w - 1
    BY <1>9 DEF Under, k, i, w
  <2> DEFINE z == x \div Pow2[n - k]
             y == x \div Pow2[n - k - 1]
  <2>2. /\ x \in Nat /\ n - k \in Nat /\ n - k - 1 \in Nat /\ z \in Nat /\ y \in Nat
        /\ y \div 2 = z /\ z < LevelLimit(k) /\ y < 2 * LevelLimit(k)
    <3>1. k \in Nat /\ k < n
      BY <1>1, <2>1
    <3> QED
      BY <3>1, LiveAncestor
  <2>3. n \in Nat
    BY TreeSizes
  <2> DEFINE e == n - k - 1
  <2>4. e \in Nat /\ e = n - (k + 1)
    BY <1>1, <2>2, <2>3
  <2> HIDE DEF z
  <2>5. CASE e = 0
    <3>1. n = k + 1 /\ y = x
      <4>1. Pow2[0] = 1 /\ x \div 1 = x
        BY <2>2, Pow2Values
      <4> QED
        BY <1>1, <2>3, <2>4, <2>5, <4>1
    <3>2. x \div 2 = z /\ z \in i .. i + s - 1
      <4>1. z \in i .. i + w - 1
        BY <2>1 DEF z
      <4>2. z < LevelLimit(k) /\ y \div 2 = z
        BY <2>2
      <4> HIDE DEF y
      <4> QED
        BY <1>1, <1>2, <2>2, <3>1, <4>1, <4>2
    <3>3. x \in 2 * i .. 2 * i + out - 1
      <4>1. x \in Nat /\ z \in Nat
        BY <2>2
      <4> QED
        BY <1>1, <3>2, <4>1 DEF out
    <3>4. VD(0, n) + x \in to .. to + out - 1
      <4> DEFINE a == VD(0, n)
      <4>1. a \in Nat /\ to = a + 2 * i
        BY <1>1, <1>3, <3>1
      <4> HIDE DEF a
      <4>2. a + x \in to .. to + out - 1
        <5>1. i \in Nat /\ x \in Nat /\ out \in Nat /\ x >= 2 * i /\ x <= 2 * i + out - 1
          BY <1>1, <1>3, <2>2, <3>3
        <5> QED
          BY <4>1, <5>1
      <4> QED
        BY <4>2 DEF a
    <3> QED
      BY <1>4, <3>4 DEF VKnown
  <2>6. CASE e # 0
    <3>1. k + 1 < n /\ x \div Pow2[n - (k + 1)] = y
      BY <1>1, <2>3, <2>4, <2>6
    <3> HIDE DEF y, e
    <3>2. y \in 2 * i .. 2 * i + 2 * w - 1
      BY <1>1, <1>2, <2>1, <2>2, SMTT(30) DEF z
    <3>3. DOMAIN next = 1 .. Len(next)
      BY <1>6
    <3>4. CASE Crosses(c) /\ ~(out >= w)
      <4>1. y \in 2 * i .. 2 * i + w - 1
        <5>1. out = 2 * (LevelLimit(k) - i) /\ out < w
          BY <1>2, <1>3, <3>4 DEF out
        <5>2. y < 2 * LevelLimit(k) /\ LevelLimit(k) \in Nat
          BY <1>1, <2>2
        <5> DEFINE l == LevelLimit(k)
        <5> HIDE DEF l
        <5>3. out = 2 * (l - i) /\ y < 2 * l /\ l \in Nat
          BY <5>1, <5>2 DEF l
        <5> QED
          BY <1>1, <1>2, <3>2, <5>1, <5>3
      <4>2. next = <<Child(k + 1, out, 2 * i, child)>>
        BY <1>7, <3>4
      <4>3. 1 \in DOMAIN next /\ next[1] = Child(k + 1, out, 2 * i, child)
        BY <4>2
      <4>4. Under(next[1], n, x)
        BY <1>5, <3>1, <4>1, <4>3 DEF Under, w
      <4> QED
        BY <4>3, <4>4
    <3>5. CASE ~(Crosses(c) /\ ~(out >= w))
      <4>1. PICK size : next = <<Child(k + 1, w, 2 * i, child), Child(k + 1, size, 2 * i + w, child + w)>>
        BY <1>7, <3>5
      <4>2. /\ 1 \in DOMAIN next /\ next[1] = Child(k + 1, w, 2 * i, child)
            /\ 2 \in DOMAIN next /\ next[2] = Child(k + 1, size, 2 * i + w, child + w)
        BY <4>1
      <4>3. y \in 2 * i .. 2 * i + w - 1 \/ y \in 2 * i + w .. 2 * i + w + w - 1
        BY <1>1, <1>2, <3>2
      <4>4. y \in 2 * i .. 2 * i + w - 1 => Under(next[1], n, x)
        BY <1>5, <3>1, <4>2 DEF Under, w
      <4>5. y \in 2 * i + w .. 2 * i + w + w - 1 => Under(next[2], n, x)
        BY <1>5, <3>1, <4>2 DEF Under, w
      <4> QED
        BY <4>2, <4>3, <4>4, <4>5
    <3> QED
      BY <3>4, <3>5
  <2> QED
    BY <2>5, <2>6
<1> QED
  BY <1>4, <1>8, <1>9 DEF g, s, next

(* A pending call is not disturbed by what others write.                    *)
LEMMA GrownKeeps ==
  ASSUME NEW o, NEW f, NEW g, VGrows(o, f, g), NEW c, CallKnows(o, f, c)
  PROVE  CallKnows(o, g, c)
BY VKnownGrows DEF CallKnows

(* A step of the recursion takes care of what the call was to derive.       *)
LEMMA GrownExpand ==
  ASSUME NEW o, IsOpening(o), v_calls \in Seq(GoodCall), v_calls # <<>>, NEW i,
         Grown(o, v_forest, v_calls, i), ExpandSubtrees
  PROVE  Grown(o, v_forest', v_calls', i)
<1> DEFINE c == Head(v_calls)
           rest == Tail(v_calls)
<1>1. /\ c \in GoodCall /\ rest \in Seq(GoodCall) /\ c = v_calls[1] /\ 1 \in DOMAIN v_calls
      /\ \A m \in DOMAIN rest : m + 1 \in DOMAIN v_calls /\ rest[m] = v_calls[m + 1]
      /\ \A m \in DOMAIN v_calls : m # 1 => m - 1 \in DOMAIN rest /\ rest[m - 1] = v_calls[m]
  BY HeadTailProperties
<1>2. CASE NothingToDo(c)
  <2>1. v_calls' = rest /\ v_forest' = v_forest
    BY <1>2 DEF ExpandSubtrees
  <2>2. ASSUME NEW n \in 1 .. TREE_CHUNK_SIZE_SHIFT, NEW x \in Live(n), Under(c, n, x)
        PROVE  FALSE
    <3>1. c.n \in Nat /\ c.i \in Nat /\ TREE_CHUNK_SIZE \in Nat
      BY <1>1, SubtreeSizes DEF GoodCall
    <3>2. c.n < n /\ x \div Pow2[n - c.n] \in c.i .. c.i + TREE_CHUNK_SIZE - 1
      BY <2>2 DEF Under
    <3>3. x \div Pow2[n - c.n] \in Nat /\ x \div Pow2[n - c.n] < LevelLimit(c.n)
          /\ LevelLimit(c.n) \in Nat
      BY <3>1, <3>2, LiveAncestor
    <3>4. c.n < TREE_CHUNK_SIZE_SHIFT
      BY <3>1, <3>2, TreeSizes
    <3>5. c.i < LevelLimit(c.n)
      BY <3>1, <3>2, <3>3
    <3> QED
      BY <1>2, <3>1, <3>3, <3>4, <3>5, TreeSizes DEF NothingToDo
  <2> HIDE DEF c, rest
  <2>3. ASSUME NEW n \in 1 .. TREE_CHUNK_SIZE_SHIFT, NEW x \in Live(n),
               NEW m \in DOMAIN v_calls, Under(v_calls[m], n, x)
        PROVE  \E k \in DOMAIN rest : Under(rest[k], n, x)
    <3>1. m # 1
      BY <1>1, <2>2, <2>3
    <3> QED
      BY <1>1, <2>3, <3>1
  <2> QED
    BY <1>1, <2>1, <2>3 DEF Grown
<1>3. CASE ~NothingToDo(c)
  <2> DEFINE g == V!ExpandChunk(c.node, SizeExpanded(c))
             next == NextSubtrees(c)
             cs == next \o rest
  <2>1. v_calls' = cs /\ v_forest' = g
    BY <1>3 DEF ExpandSubtrees
  <2>2. CallKnows(o, v_forest, c)
    BY <1>1 DEF Grown
  <2>3. /\ VGrows(o, v_forest, g)
        /\ \A m \in DOMAIN next : CallKnows(o, g, next[m])
        /\ \A n \in 1 .. TREE_CHUNK_SIZE_SHIFT : \A x \in Live(n) :
             Under(c, n, x) => \/ VKnown(o, g, {VD(0, n) + x})
                               \/ \E m \in DOMAIN next : Under(next[m], n, x)
    BY <1>1, <1>3, <2>2, CallGrows
  <2>4. next \in Seq(GoodCall)
    BY <1>1, <1>3, GoodNext
  <2> HIDE DEF g, next, c, rest
  <2>5. /\ \A m \in DOMAIN next : m \in DOMAIN cs /\ cs[m] = next[m]
        /\ \A m \in DOMAIN rest : m + Len(next) \in DOMAIN cs /\ cs[m + Len(next)] = rest[m]
        /\ \A m \in DOMAIN cs : m \in DOMAIN next
                                \/ (m - Len(next) \in DOMAIN rest /\ cs[m] = rest[m - Len(next)])
    BY <1>1, <2>4
  <2> HIDE DEF cs
  <2>6. ASSUME NEW m \in DOMAIN cs PROVE CallKnows(o, g, cs[m])
    <3>1. CASE m \in DOMAIN next
      BY <2>3, <2>5, <3>1
    <3>2. CASE m \notin DOMAIN next
      <4>1. m - Len(next) \in DOMAIN rest /\ cs[m] = rest[m - Len(next)]
        BY <2>5, <3>2
      <4>2. \E k \in DOMAIN v_calls : cs[m] = v_calls[k]
        BY <1>1, <4>1
      <4>3. CallKnows(o, v_forest, cs[m])
        BY <4>2 DEF Grown
      <4> QED
        BY <2>3, <4>3, GrownKeeps
    <3> QED
      BY <3>1, <3>2
  <2>7. ASSUME NEW n \in 1 .. TREE_CHUNK_SIZE_SHIFT, NEW x \in Live(n)
        PROVE  \/ VKnown(o, g, {VD(0, n) + x})
               \/ \E m \in DOMAIN cs : Under(cs[m], n, x)
               \/ x >= i * Pow2[n]
    <3>1. CASE VKnown(o, v_forest, {VD(0, n) + x})
      BY <2>3, <3>1, VKnownGrows
    <3>2. CASE x >= i * Pow2[n]
      BY <3>2
    <3>3. ASSUME NEW m \in DOMAIN v_calls, Under(v_calls[m], n, x)
          PROVE  \/ VKnown(o, g, {VD(0, n) + x})
                 \/ \E k \in DOMAIN cs : Under(cs[k], n, x)
      <4>1. CASE m = 1
        <5>1. Under(c, n, x)
          BY <1>1, <3>3, <4>1
        <5>2. \/ VKnown(o, g, {VD(0, n) + x})
              \/ \E k \in DOMAIN next : Under(next[k], n, x)
          BY <2>3, <5>1
        <5> QED
          BY <2>5, <5>2
      <4>2. CASE m # 1
        <5>1. m - 1 \in DOMAIN rest /\ Under(rest[m - 1], n, x)
          BY <1>1, <3>3, <4>2
        <5>2. \E k \in DOMAIN rest : Under(rest[k], n, x)
          BY <5>1
        <5>3. PICK k \in DOMAIN rest : Under(rest[k], n, x)
          BY <5>2
        <5> QED
          BY <2>5, <5>3
      <4> QED
        BY <4>1, <4>2
    <3> QED
      BY <3>1, <3>2, <3>3 DEF Grown
  <2>8. VKnown(o, g, 0 .. T - 1)
    BY <2>3, VKnownGrows DEF Grown
  <2> QED
    BY <2>1, <2>6, <2>7, <2>8 DEF Grown
<1> QED
  BY <1>2, <1>3

(* A call for the next chunk of roots, all of which are known.               *)
LEMMA GrownCall ==
  ASSUME NEW o, NEW f, NEW i \in Nat, i % TREE_CHUNK_SIZE = 0, Grown(o, f, <<>>, i)
  PROVE  Grown(o, f, <<Call(i)>>, i + TREE_CHUNK_SIZE)
<1> DEFINE w == TREE_CHUNK_SIZE
           c == Call(i)
<1>1. c.n = 0 /\ c.size = w /\ c.i = i /\ c.node = i
  BY DEF Call
<1>2. c \in GoodCall
  <2>1. c \in [n : Nat, size : Nat, i : Nat, node : Nat]
    <3>1. w \in Nat /\ 0 \in Nat
      BY SubtreeSizes
    <3> QED
      BY <3>1 DEF Call
  <2> QED
    BY <1>1, <2>1 DEF GoodCall
<1> HIDE DEF c
<1>3. CallKnows(o, f, c)
  <2>1. VD(0, 0) = 0
    BY VShape, 0 \in Nat
  <2>2. c.node = VD(0, c.n) + c.i
    BY <1>1, <2>1
  <2>3. ASSUME ~NothingToDo(c)
        PROVE  VKnown(o, f, c.node .. c.node + SizeExpanded(c) - 1)
    <3>1. /\ i + SizeExpanded(c) <= LevelLimit(0) /\ SizeExpanded(c) \in Nat
          /\ 1 \in 1 .. TREE_CHUNK_SIZE_SHIFT
      <4>1. 0 + 1 = 1
        OBVIOUS
      <4> QED
        BY <1>1, <1>2, <2>2, <2>3, <4>1, CallFits
    <3>2. LevelLimit(0) <= T /\ LevelLimit(0) \in Nat /\ T \in Nat
      <4>1. LevelLimit(0) = Limit(1) * 1
        <5>1. LevelLimit(0) = Limit(0 + 1) * Pow2[0]
          BY DEF LevelLimit, Limit
        <5> QED
          BY <5>1, Pow2Values
      <4>2. Limit(1) \in Nat /\ Limit(1) <= T
        BY TreeSizes, LimitValues, 1 \in Nat
      <4> QED
        BY <4>1, <4>2, SubtreeCount
    <3> DEFINE s == SizeExpanded(c)
               l == LevelLimit(0)
    <3>3. i + s <= l /\ s \in Nat /\ l \in Nat /\ l <= T /\ T \in Nat
      BY <3>1, <3>2
    <3> HIDE DEF s, l
    <3>4. i .. i + s - 1 \subseteq 0 .. T - 1
      BY <3>3
    <3> QED
      BY <1>1, <3>4 DEF Grown, VKnown, s
  <2> QED
    BY <2>2, <2>3 DEF CallKnows
<1>4. ASSUME NEW n \in 1 .. TREE_CHUNK_SIZE_SHIFT, NEW x \in Live(n), x >= i * Pow2[n]
      PROVE  Under(c, n, x) \/ x >= (i + w) * Pow2[n]
  <2>1. n \in Nat /\ Pow2[n] \in Nat \ {0} /\ x \in Nat /\ w \in Nat
    <3>1. n \in Nat /\ 0 \in Nat /\ 0 < n
      BY TreeSizes
    <3> QED
      BY <3>1, LiveLevel, LiveAncestor, SubtreeSizes
  <2> DEFINE p == Pow2[n]
             z == x \div p
  <2>2. z \in Nat /\ (x < (i + w) * p => z < i + w)
    <3>1. i + w \in Nat /\ p \in Nat \ {0}
      BY <2>1
    <3> HIDE DEF p
    <3> QED
      BY <2>1, <3>1, Halve
  <2>3. i <= z
    <3>1. x = p * z + (x % p) /\ x % p \in 0 .. p - 1 /\ i * p = p * i
      BY <2>1, SMTT(30)
    <3> HIDE DEF z
    <3>2. ~(z < i)
      <4>1. SUFFICES ASSUME z < i PROVE FALSE
        OBVIOUS
      <4>2. p * z + p <= p * i /\ p * z \in Nat /\ p * i \in Nat
        BY <2>1, <2>2, <4>1, MulMonotone
      <4> DEFINE a == p * z
                 b == p * i
                 r == x % p
      <4>3. a + p <= b /\ x >= b /\ x = a + r /\ r \in 0 .. p - 1 /\ a \in Nat /\ b \in Nat
        BY <1>4, <3>1, <4>2
      <4> HIDE DEF a, b, r, p
      <4> QED
        BY <2>1, <4>3 DEF p
    <3> QED
      BY <2>2, <3>2
  <2>4. (i + w) * p \in Nat
    BY <2>1
  <2>5. c.n < n /\ n - c.n = n
    BY <1>1, TreeSizes
  <2>6. z \in i .. i + w - 1 \/ x >= (i + w) * p
    <3> DEFINE m == (i + w) * p
    <3>1. m \in Nat /\ (x < m => z < i + w)
      BY <2>2, <2>4
    <3> HIDE DEF m, z
    <3>2. ~(x < m) => x >= m
      BY <2>1, <3>1
    <3> QED
      BY <2>1, <2>2, <2>3, <3>1, <3>2 DEF m
  <2> QED
    BY <1>1, <2>5, <2>6 DEF Under
<1>5. \A m \in DOMAIN <<c>> : <<c>>[m] = c
  OBVIOUS
<1>6. 1 \in DOMAIN <<c>> /\ <<c>>[1] = c /\ DOMAIN <<>> = {}
  OBVIOUS
<1>7. VKnown(o, f, 0 .. T - 1)
      /\ \A n \in 1 .. TREE_CHUNK_SIZE_SHIFT : \A x \in Live(n) :
           VKnown(o, f, {VD(0, n) + x}) \/ x >= i * Pow2[n]
  BY <1>6 DEF Grown
<1> DEFINE cs == <<c>>
<1> HIDE DEF cs
<1>8. Grown(o, f, cs, i + w)
  <2>1. \A m \in DOMAIN cs : CallKnows(o, f, cs[m])
    BY <1>3, <1>5 DEF cs
  <2>2. \E m \in DOMAIN cs : cs[m] = c
    BY <1>6 DEF cs
  <2> QED
    BY <1>4, <1>7, <2>1, <2>2 DEF Grown
<1> QED
  BY <1>8 DEF cs, c

(* What the verifier knows when all subtrees have grown to a chunk each.      *)
TopsKnown(o, f) ==
  \A n \in 0 .. TREE_CHUNK_SIZE_SHIFT : \A r \in Nat :
    r < Limit(n) => VKnown(o, f, VD(r, n) .. VD(r + 1, n) - 1)

(* When the last subtree has its call, the top levels of all are known.     *)
LEMMA GrownAll ==
  ASSUME NEW o, NEW f, NEW i \in Nat, Grown(o, f, <<>>, i),
         0 < TREE_CHUNK_SIZE_SHIFT => i >= Limit(1)
  PROVE  TopsKnown(o, f)
<1> SUFFICES ASSUME NEW n \in 0 .. TREE_CHUNK_SIZE_SHIFT, NEW r \in Nat, r < Limit(n)
             PROVE  VKnown(o, f, VD(r, n) .. VD(r + 1, n) - 1)
  BY DEF TopsKnown
<1>0. n \in Nat /\ n <= VOLE_MIN_K /\ T \in Nat /\ Limit(n) \in Nat /\ Limit(n) <= T
  <2>1. n \in Nat /\ n <= VOLE_MIN_K
    BY TreeSizes
  <2> QED
    BY <2>1, SubtreeCount, LimitValues
<1>1. VKnown(o, f, 0 .. T - 1)
  BY DEF Grown
<1>2. CASE n = 0
  <2>1. VD(r, n) = r /\ VD(r + 1, n) = r + 1
    BY <1>2, VShape, r + 1 \in Nat, 0 \in Nat
  <2>2. r .. r + 1 - 1 \subseteq 0 .. T - 1
    BY <1>0
  <2> QED
    BY <1>1, <2>1, <2>2 DEF VKnown
<1>3. CASE n # 0
  <2>1. n \in 1 .. TREE_CHUNK_SIZE_SHIFT
    BY <1>3, TreeSizes
  <2> DEFINE p == Pow2[n]
             a == VD(0, n)
             u == r * p
             l == Limit(n) * p
  <2>2. p \in Nat \ {0} /\ a \in Nat
    BY <1>0, Pow2Values, VNat, 0 \in Nat
  <2>3. VD(r, n) = a + u /\ VD(r + 1, n) = a + (u + p) /\ u \in Nat
    <3>1. VD(r, n) = VD(0, n) + r * p /\ VD(r + 1, n) = VD(0, n) + (r + 1) * p
      BY <1>0, VShape, r + 1 \in Nat
    <3>2. (r + 1) * p = r * p + p /\ r * p \in Nat
      BY <2>2
    <3> QED
      BY <3>1, <3>2
  <2>4. u + p <= l /\ l \in Nat
    <3>1. p * r + p <= p * Limit(n) /\ p * r = r * p /\ p * Limit(n) = Limit(n) * p
          /\ p * Limit(n) \in Nat
      BY <1>0, <2>2, MulMonotone
    <3> QED
      BY <3>1
  <2> HIDE DEF a, u, l
  <2> SUFFICES ASSUME NEW y \in VD(r, n) .. VD(r + 1, n) - 1
               PROVE  y \in V!Node /\ Derived(o, y, f[y])
    BY DEF VKnown
  <2>5. y - a \in u .. u + p - 1 /\ y = a + (y - a) /\ y - a \in 0 .. l - 1
    BY <2>2, <2>3, <2>4
  <2> DEFINE x == y - a
  <2>6. x \in Live(n) /\ y = VD(0, n) + x /\ x \in Nat
    BY <2>5 DEF Live, l, a
  <2>7. ~(x >= i * p)
    <3>1. Limit(n) <= Limit(1) /\ Limit(1) \in Nat
      <4>1. n >= 1 /\ n \in Nat /\ BITS_PER_WITNESS \in Nat /\ 1 <= VOLE_MIN_K
        BY <1>0, <2>1, TreeSizes
      <4>2. Limit(1) \in Nat
        BY <4>1, LimitValues, 1 \in Nat
      <4>3. BITS_PER_WITNESS * 1 <= BITS_PER_WITNESS * n /\ BITS_PER_WITNESS * n = n * BITS_PER_WITNESS
            /\ BITS_PER_WITNESS * n \in Nat
        BY <4>1, MulMonotone
      <4> DEFINE b == n * BITS_PER_WITNESS
      <4>4. Limit(n) = T - b /\ Limit(1) = T - BITS_PER_WITNESS /\ BITS_PER_WITNESS <= b /\ b \in Nat
        BY <4>1, <4>3 DEF Limit, T
      <4> HIDE DEF b
      <4> QED
        BY <1>0, <4>1, <4>2, <4>4
    <3>2. Limit(n) <= i
      BY <1>0, <2>1, <3>1, TreeSizes
    <3>3. p * Limit(n) <= p * i /\ p * i \in Nat /\ p * Limit(n) \in Nat
      BY <1>0, <2>2, <3>2, MulMonotone
    <3>4. p * Limit(n) = l /\ p * i = i * p
      BY <1>0, <2>2 DEF l
    <3>5. x < l
      BY <2>4, <2>5
    <3> HIDE DEF x, p
    <3> DEFINE m == i * p
    <3>6. m \in Nat /\ l <= m
      BY <3>3, <3>4
    <3> HIDE DEF m
    <3>7. ~(x >= m)
      BY <2>4, <2>6, <3>5, <3>6
    <3> QED
      BY <3>7 DEF m
  <2>8. DOMAIN <<>> = {}
    OBVIOUS
  <2>9. VKnown(o, f, {VD(0, n) + x})
    BY <2>1, <2>6, <2>7, <2>8 DEF Grown
  <2> QED
    BY <2>6, <2>9 DEF VKnown
<1> QED
  BY <1>2, <1>3

---------------------------------------------------------------------------
(* The walk of expand_tree through a subtree of the verifier.                *)
VSpan(x, m, d) == VD(x, d) .. VD(x + m, d) - 1

VChunkAt(root, e, q) == VD(root, TREE_CHUNK_SIZE_SHIFT + e) + TREE_CHUNK_SIZE * q

(* The subtree reaches n levels below those that have grown together.        *)
Walkable(root, n) ==
  /\ TREE_CHUNK_SIZE_SHIFT + n <= VOLE_MIN_K
  /\ root < Limit(TREE_CHUNK_SIZE_SHIFT + n)

VChunkKnown(o, f, root) ==
  VKnown(o, f, VChunkAt(root, 0, 0) .. VChunkAt(root, 0, 0) + TREE_CHUNK_SIZE - 1)

VExpanded(fr, n, e, q) ==
  /\ q * Pow2[n - e] < fr.i
  /\ q * Pow2[n - e] = fr.i - 1 => e < n - fr.d

VWalkInv(o, f, fr, root, n) ==
  /\ fr.height = n /\ fr.root = VD(root, TREE_CHUNK_SIZE_SHIFT)
  /\ fr.i \in 0 .. Pow2[n] /\ fr.d \in 0 .. n
  /\ fr.chunk \in 0 .. fr.i /\ fr.i <= fr.chunk + V!Ratio /\ fr.chunk < Pow2[n]
  /\ fr.d > 0 => fr.i > 0
  /\ \A e \in 0 .. n - 1 : \A q \in 0 .. Pow2[e] - 1 :
       VExpanded(fr, n, e, q) => VKnown(o, f, VSpan(VChunkAt(root, e, q), TREE_CHUNK_SIZE, 1))
  /\ fr.i > 0 =>
       \E q \in 0 .. Pow2[n - fr.d] - 1 :
         /\ fr.i - 1 = q * Pow2[fr.d]
         /\ fr.ancestor = VChunkAt(root, n - fr.d, q)
         /\ VKnown(o, f, fr.ancestor .. fr.ancestor + TREE_CHUNK_SIZE - 1)

LEMMA VWalkRatio == V!Ratio \in Nat \ {0}
<1>1. V!Ratio = S!Ratio
  BY SameLayout, SameLayoutV DEF V!Ratio, S!Ratio
<1> QED
  BY <1>1, WalkRatio

LEMMA VWalkSizes ==
  TREE_CHUNK_SIZE_SHIFT \in Nat /\ TREE_CHUNK_SIZE \in Nat \ {0}
  /\ TREE_CHUNK_SIZE = Pow2[TREE_CHUNK_SIZE_SHIFT] /\ T \in Nat
BY TreeSizes, SubtreeCount

LEMMA VChunkShape ==
  ASSUME NEW root \in Nat, NEW e \in Nat, NEW q \in Nat
  PROVE  /\ VChunkAt(root, e, q) \in Nat
         /\ VChunkAt(root, e, q) + TREE_CHUNK_SIZE = VChunkAt(root, e, q + 1)
         /\ FIRST_CHILD(VChunkAt(root, e, q), TRUE) = VChunkAt(root, e + 1, 2 * q)
         /\ VD(VChunkAt(root, e, q), 1) = VChunkAt(root, e + 1, 2 * q)
<1> DEFINE k == TREE_CHUNK_SIZE_SHIFT
           c == TREE_CHUNK_SIZE
           from == VD(root, k + e)
<1>0. k \in Nat /\ c \in Nat \ {0} /\ T \in Nat
  BY VWalkSizes
<1>1. k + e \in Nat /\ from \in Nat /\ k + (e + 1) = (k + e) + 1
  <2>1. k + e \in Nat /\ k + (e + 1) = (k + e) + 1
    BY <1>0
  <2>2. from \in Nat
    BY <1>0, <2>1, VNat, Zenon
  <2> QED
    BY <2>1, <2>2
<1>2. c * q \in Nat /\ c * (q + 1) = c * q + c /\ c * (2 * q) = 2 * (c * q)
  BY <1>0
<1>3. VD(root, (k + e) + 1) = 2 * from + T
  BY <1>0, <1>1, VShape, Zenon
<1> HIDE DEF from, k
<1>4. VChunkAt(root, e, q) = from + c * q /\ VChunkAt(root, e, q) \in Nat
  BY <1>1, <1>2 DEF VChunkAt, from, k
<1>5. VChunkAt(root, e, q) + c = VChunkAt(root, e, q + 1)
  BY <1>0, <1>1, <1>2, <1>4 DEF VChunkAt, from, k
<1>6. VChunkAt(root, e + 1, 2 * q) = 2 * from + T + 2 * (c * q)
  BY <1>1, <1>2, <1>3 DEF VChunkAt, k
<1>7. FIRST_CHILD(VChunkAt(root, e, q), TRUE) = 2 * VChunkAt(root, e, q) + T
      /\ VD(VChunkAt(root, e, q), 1) = 2 * VChunkAt(root, e, q) + T
  <2>1. \A y \in Nat : FIRST_CHILD(y, TRUE) = 2 * y + T /\ VD(y, 1) = 2 * y + T
    <3> SUFFICES ASSUME NEW y \in Nat
                 PROVE  FIRST_CHILD(y, TRUE) = 2 * y + T /\ VD(y, 1) = 2 * y + T
      OBVIOUS
    <3>1. 0 + 1 = 1
      OBVIOUS
    <3>2. VD(y, 0 + 1) = 2 * VD(y, 0) + T /\ VD(y, 0) = y /\ FIRST_CHILD(y, TRUE) = 2 * y + T
      BY VShape, 0 \in Nat
    <3> QED
      BY <3>1, <3>2
  <2> QED
    BY <1>4, <2>1
<1>8. 2 * VChunkAt(root, e, q) + T = 2 * from + T + 2 * (c * q)
  BY <1>0, <1>1, <1>2, <1>4
<1> QED
  BY <1>4, <1>5, <1>6, <1>7, <1>8

LEMMA VChunkChildren ==
  ASSUME NEW root \in Nat, NEW e \in Nat, NEW q \in Nat
  PROVE  /\ VSpan(VChunkAt(root, e, q), TREE_CHUNK_SIZE, 1)
              = VChunkAt(root, e + 1, 2 * q) .. VChunkAt(root, e + 1, 2 * q + 2) - 1
         /\ VD(VChunkAt(root, e, q) + TREE_CHUNK_SIZE, 1) = VChunkAt(root, e + 1, 2 * q + 2)
<1>1. VChunkAt(root, e, q) + TREE_CHUNK_SIZE = VChunkAt(root, e, q + 1)
      /\ VD(VChunkAt(root, e, q), 1) = VChunkAt(root, e + 1, 2 * q)
  BY VChunkShape
<1>2. q + 1 \in Nat /\ 2 * (q + 1) = 2 * q + 2
  OBVIOUS
<1>3. VD(VChunkAt(root, e, q + 1), 1) = VChunkAt(root, e + 1, 2 * (q + 1))
  BY <1>2, VChunkShape
<1> QED
  BY <1>1, <1>2, <1>3 DEF VSpan

(* The higher a level, the fewer subtrees reach it.                         *)
LEMMA LimitsFall ==
  ASSUME NEW a \in Nat, NEW b \in Nat, a <= b, b <= VOLE_MIN_K
  PROVE  Limit(b) <= Limit(a) /\ Limit(a) \in Nat /\ Limit(b) \in Nat /\ Limit(a) <= T
<1>1. BITS_PER_WITNESS \in Nat /\ T \in Nat /\ VOLE_MIN_K \in Nat /\ a <= VOLE_MIN_K
  BY TreeSizes, SubtreeCount
<1>2. Limit(a) \in Nat /\ Limit(b) \in Nat /\ Limit(a) <= T
  BY <1>1, LimitValues
<1>3. BITS_PER_WITNESS * a <= BITS_PER_WITNESS * b /\ BITS_PER_WITNESS * b = b * BITS_PER_WITNESS
      /\ BITS_PER_WITNESS * a = a * BITS_PER_WITNESS
      /\ BITS_PER_WITNESS * b \in Nat /\ BITS_PER_WITNESS * a \in Nat
  BY <1>1, MulMonotone
<1> DEFINE x == a * BITS_PER_WITNESS
           y == b * BITS_PER_WITNESS
<1>4. Limit(a) = T - x /\ Limit(b) = T - y /\ x \in Nat /\ y \in Nat /\ x <= y
  BY <1>3 DEF Limit, T
<1> HIDE DEF x, y
<1> QED
  BY <1>1, <1>2, <1>4

(* A chunk of a subtree that is walked lies inside the forest.              *)
LEMMA VChunkInTree ==
  ASSUME NEW root \in Nat, NEW n \in Nat, Walkable(root, n), NEW e \in 0 .. n,
         NEW q \in Nat, q <= Pow2[e]
  PROVE  VChunkAt(root, e, q) <= ForestSize(TRUE)
<1> DEFINE k == TREE_CHUNK_SIZE_SHIFT
           c == TREE_CHUNK_SIZE
           d == k + e
<1>1. /\ k \in Nat /\ c = Pow2[k] /\ c \in Nat \ {0} /\ e \in Nat /\ d \in Nat
      /\ d <= k + n /\ k + n \in Nat /\ k + n <= VOLE_MIN_K /\ d <= VOLE_MIN_K
      /\ T \in Nat
  BY VWalkSizes, TreeSizes DEF Walkable
<1>2. Pow2[d] = c * Pow2[e] /\ Pow2[e] \in Nat
  BY <1>1, Pow2Sum, Pow2Values
<1>3. root < Limit(d) /\ root \in 0 .. T - 1
  <2>1. Limit(k + n) <= Limit(d) /\ Limit(d) \in Nat /\ Limit(k + n) \in Nat /\ Limit(d) <= T
    BY <1>1, LimitsFall
  <2>2. root < Limit(k + n)
    BY DEF Walkable
  <2> HIDE DEF d, k
  <2> QED
    BY <1>1, <2>1, <2>2
<1> HIDE DEF d
<1>4. VD(root + 1, d) <= ForestSize(TRUE) /\ VD(root, d) \in Nat
      /\ VD(root + 1, d) = VD(root, d) + Pow2[d]
  BY <1>1, <1>3, VInForest
<1>5. c * q <= c * Pow2[e] /\ c * q \in Nat /\ c * Pow2[e] \in Nat
  BY <1>1, <1>2, MulMonotone
<1>6. VChunkAt(root, e, q) = VD(root, d) + c * q
  BY DEF VChunkAt, d
<1> DEFINE a == VD(root, d)
           x == c * q
           y == c * Pow2[e]
           z == ForestSize(TRUE)
<1>7. a \in Nat /\ x \in Nat /\ y \in Nat /\ x <= y /\ z \in Nat /\ a + y <= z
      /\ VChunkAt(root, e, q) = a + x
  BY <1>2, <1>4, <1>5, <1>6, SubtreesEnd
<1> HIDE DEF a, x, y, z
<1>8. VChunkAt(root, e, q) <= z
  BY <1>7
<1> QED
  BY <1>8 DEF z

(* The chunk at which a path starts is known.                               *)
LEMMA VStartKnown ==
  ASSUME NEW o, NEW f, NEW fr, NEW root \in Nat, NEW n \in Nat, Walkable(root, n),
         VChunkKnown(o, f, root), VWalkInv(o, f, fr, root, n), fr.d = 0,
         fr.i < Pow2[n],
         NEW h \in 0 .. n, fr.i % Pow2[h] = 0,
         \A g \in h + 1 .. n : fr.i % Pow2[g] # 0,
         NEW q \in Nat, fr.i = q * Pow2[h]
  PROVE  /\ q \in 0 .. Pow2[n - h] - 1
         /\ LET a == VChunkAt(root, n - h, q)
            IN VKnown(o, f, a .. a + TREE_CHUNK_SIZE - 1)
<1> DEFINE e == n - h
           p == Pow2[h]
           i == fr.i
<1>1. /\ n \in Nat /\ e \in 0 .. n /\ e \in Nat /\ h \in Nat /\ p \in Nat \ {0}
      /\ Pow2[e] \in Nat \ {0} /\ Pow2[n] = Pow2[e] * p
  BY VWalkSizes, Pow2Split
<1>2. i \in Nat /\ i = q * p
  BY VWalkSizes, Pow2Values DEF VWalkInv
<1>3. q \in 0 .. Pow2[e] - 1
  <2> DEFINE pe == Pow2[e]
  <2>1. ~(pe <= q)
    <3>1. SUFFICES ASSUME pe <= q PROVE FALSE
      OBVIOUS
    <3>2. pe \in Nat /\ p \in Nat /\ q * p < pe * p
      BY <1>1, <1>2
    <3> HIDE DEF pe, p
    <3>3. p * pe <= p * q
      BY <3>1, <3>2, MulMonotone
    <3> QED
      BY <3>2, <3>3
  <2> HIDE DEF pe, p
  <2> QED
    BY <1>1, <2>1 DEF pe
<1>4. CASE e = 0
  <2>1. q = 0
    BY <1>3, <1>4, Pow2Values
  <2> QED
    BY <1>3, <1>4, <2>1 DEF VChunkKnown
<1>5. CASE e # 0
  <2>1. e - 1 \in 0 .. n - 1 /\ e - 1 \in Nat /\ e - 1 + 1 = e /\ n - (e - 1) = h + 1
        /\ h + 1 \in h + 1 .. n
    BY <1>1, <1>5
  <2>2. Pow2[h + 1] = 2 * p /\ Pow2[e] = 2 * Pow2[e - 1] /\ Pow2[e - 1] \in Nat
    <3>1. Pow2[e - 1 + 1] = 2 * Pow2[e - 1]
      BY <2>1, Pow2Values, Zenon
    <3> QED
      BY <1>1, <2>1, <3>1, Pow2Values
  <2>3. PICK r \in Nat : q = 2 * r + 1
    <3>1. q % 2 \in 0 .. 1 /\ q \div 2 \in Nat /\ q = 2 * (q \div 2) + (q % 2)
      OBVIOUS
    <3>2. CASE q % 2 = 0
      <4> DEFINE r == q \div 2
      <4>1. r \in Nat /\ q = 2 * r
        BY <3>1, <3>2
      <4> HIDE DEF r
      <4>2. i = r * (2 * p)
        BY <1>1, <1>2, <4>1
      <4>3. (r * (2 * p)) % (2 * p) = 0
        <5> DEFINE c == 2 * p
        <5>1. c \in Nat \ {0}
          BY <1>1
        <5> HIDE DEF c
        <5>2. (r * c) % c = 0
          BY <4>1, <5>1, 0 \in Nat, Quotient
        <5> QED
          BY <5>2 DEF c
      <4>4. fr.i % Pow2[h + 1] # 0
        BY <2>1
      <4> QED
        BY <2>2, <4>2, <4>3, <4>4
    <3>3. CASE q % 2 = 1
      BY <3>1, <3>3
    <3> QED
      BY <3>1, <3>2, <3>3
  <2>4. r \in 0 .. Pow2[e - 1] - 1
    BY <1>3, <2>2, <2>3
  <2>5. VExpanded(fr, n, e - 1, r)
    <3>1. r * Pow2[n - (e - 1)] < i
      <4>1. r * (2 * p) + p = q * p
        BY <1>1, <2>3
      <4>2. r * (2 * p) \in Nat
        BY <1>1
      <4>3. r * (2 * p) < i
        BY <1>1, <1>2, <4>1, <4>2
      <4> QED
        BY <2>1, <2>2, <4>3
    <3>2. e - 1 < n - fr.d
      BY <1>1, <1>5
    <3> QED
      BY <3>1, <3>2 DEF VExpanded
  <2>6. VKnown(o, f, VSpan(VChunkAt(root, e - 1, r), TREE_CHUNK_SIZE, 1))
    BY <2>1, <2>4, <2>5 DEF VWalkInv
  <2>7. VSpan(VChunkAt(root, e - 1, r), TREE_CHUNK_SIZE, 1)
          = VChunkAt(root, e, 2 * r) .. VChunkAt(root, e, 2 * r + 2) - 1
    <3>1. VSpan(VChunkAt(root, e - 1, r), TREE_CHUNK_SIZE, 1)
            = VChunkAt(root, e - 1 + 1, 2 * r) .. VChunkAt(root, e - 1 + 1, 2 * r + 2) - 1
      BY <2>1, VChunkChildren
    <3> QED
      BY <2>1, <3>1
  <2>8. /\ VChunkAt(root, e, 2 * r) \in Nat
        /\ VChunkAt(root, e, 2 * r) + TREE_CHUNK_SIZE = VChunkAt(root, e, q)
        /\ VChunkAt(root, e, q) + TREE_CHUNK_SIZE = VChunkAt(root, e, 2 * r + 2)
    <3>1. 2 * r \in Nat /\ 2 * r + 1 = q /\ q + 1 = 2 * r + 2
      BY <2>3
    <3>2. /\ VChunkAt(root, e, 2 * r) \in Nat
          /\ VChunkAt(root, e, 2 * r) + TREE_CHUNK_SIZE = VChunkAt(root, e, 2 * r + 1)
      <4> DEFINE m == 2 * r
      <4>1. m \in Nat /\ e \in Nat
        BY <1>1, <3>1
      <4> HIDE DEF e, m, p, i
      <4>2. VChunkAt(root, e, m) \in Nat /\ VChunkAt(root, e, m) + TREE_CHUNK_SIZE = VChunkAt(root, e, m + 1)
        BY <4>1, VChunkShape, ZenonT(60)
      <4> QED
        BY <4>2 DEF m
    <3>3. VChunkAt(root, e, q) + TREE_CHUNK_SIZE = VChunkAt(root, e, q + 1)
      <4> HIDE DEF e
      <4> QED
        BY <1>1, VChunkShape, ZenonT(60)
    <3> QED
      BY <3>1, <3>2, <3>3
  <2> DEFINE a == VChunkAt(root, e, 2 * r)
             b == VChunkAt(root, e, q)
             d == VChunkAt(root, e, 2 * r + 2)
             c == TREE_CHUNK_SIZE
  <2>9. a \in Nat /\ b = a + c /\ d = b + c /\ c \in Nat /\ VKnown(o, f, a .. d - 1)
    BY <2>6, <2>7, <2>8, TreeSizes
  <2> HIDE DEF a, b, c, d
  <2>10. VKnown(o, f, b .. b + c - 1)
    BY <2>9 DEF VKnown
  <2> QED
    BY <1>3, <2>10 DEF b, c
<1> QED
  BY <1>4, <1>5

(* The ancestor that is picked is known (vector_com.c:277).                 *)
LEMMA VPickKeeps ==
  ASSUME NEW o, NEW root \in Nat, NEW n \in Nat, Walkable(root, n),
         VChunkKnown(o, v_forest, root), IsFrame(v_frame), VWalkInv(o, v_forest, v_frame, root, n),
         V!PickAncestor
  PROVE  /\ IsFrame(v_frame') /\ v_frame'.busy = v_frame.busy
         /\ VWalkInv(o, v_forest, v_frame', root, n) /\ v_forest' = v_forest
<1> DEFINE fr == v_frame'
           i  == v_frame.i
           h  == V!AncestorHeight
           q  == i \div Pow2[h]
           a  == VChunkAt(root, n - h, q)
<1>1. /\ v_frame.d = 0 /\ i < v_frame.chunk + V!Ratio /\ i < Pow2[n] /\ v_forest' = v_forest
      /\ v_frame.height = n /\ v_frame.root = VD(root, TREE_CHUNK_SIZE_SHIFT)
      /\ v_frame' = [v_frame EXCEPT
           !.ancestor = V!FIRST_DESCENDENT_DEPTH(v_frame.root, v_frame.height - h, TRUE)
                          + V!TREE_CHUNK_SIZE * (i \div V!Pow2[h]),
           !.d = h, !.i = v_frame.i + 1]
  BY SamePow2V DEF V!PickAncestor, V!MorePaths, VWalkInv
<1>2. n \in Nat /\ root \in Nat /\ i \in Nat /\ v_frame.chunk \in Nat /\ v_frame.chunk <= i
      /\ i \in 0 .. Pow2[n] /\ Pow2[n] \in Nat /\ V!Ratio \in Nat /\ v_frame.chunk < Pow2[n]
      /\ TREE_CHUNK_SIZE_SHIFT \in Nat
  <2>1. n \in Nat /\ root \in Nat /\ Pow2[n] \in Nat /\ V!Ratio \in Nat /\ TREE_CHUNK_SIZE_SHIFT \in Nat
    BY VWalkSizes, VWalkRatio, Pow2Values
  <2> QED
    BY <2>1 DEF VWalkInv
<1>3. /\ h \in 0 .. n /\ i % Pow2[h] = 0
      /\ \A g \in h + 1 .. n : i % Pow2[g] # 0
  <2>1. \E x \in 0 .. n : i % Pow2[x] = 0 /\ \A g \in x + 1 .. n : i % Pow2[g] # 0
    BY <1>2, AncestorExists, Zenon
  <2>2. h = CHOOSE x \in 0 .. n : i % Pow2[x] = 0 /\ \A g \in x + 1 .. n : i % Pow2[g] # 0
    BY <1>1, SamePow2V, Zenon DEF V!AncestorHeight
  <2> HIDE DEF h
  <2> QED
    BY <2>1, <2>2, Zenon
<1> HIDE DEF h
<1>4. q \in Nat /\ i = q * Pow2[h] /\ h \in Nat /\ n - h \in Nat
  <2>1. Pow2[h] \in Nat \ {0} /\ h \in Nat /\ n - h \in Nat
    BY <1>2, <1>3, Pow2Values
  <2> QED
    BY <1>2, <1>3, <2>1, Quotient
<1>5. v_frame.root = VD(root, TREE_CHUNK_SIZE_SHIFT)
      /\ V!FIRST_DESCENDENT_DEPTH(v_frame.root, n - h, TRUE) = VD(root, TREE_CHUNK_SIZE_SHIFT + (n - h))
  <2>1. VD(VD(root, TREE_CHUNK_SIZE_SHIFT), n - h) = VD(root, TREE_CHUNK_SIZE_SHIFT + (n - h))
    <3> DEFINE m == n - h
    <3>1. m \in Nat
      BY <1>4
    <3> HIDE DEF m
    <3>2. VD(VD(root, TREE_CHUNK_SIZE_SHIFT), m) = VD(root, TREE_CHUNK_SIZE_SHIFT + m)
      BY <1>2, <3>1, VFirstFirst
    <3> QED
      BY <3>2 DEF m
  <2> QED
    BY <1>1, <2>1, SameLayoutV, Zenon DEF VD
<1>6. fr = [v_frame EXCEPT !.ancestor = a, !.d = h, !.i = i + 1]
  BY <1>1, <1>5, SameLayoutV, SamePow2V, Zenon DEF VChunkAt
<1> HIDE DEF q, a
<1>7. fr = [busy |-> v_frame.busy, height |-> n, root |-> v_frame.root, base |-> v_frame.base,
            chunk |-> v_frame.chunk, i |-> i + 1, ancestor |-> a, d |-> h,
            start |-> v_frame.start, perm |-> v_frame.perm]
  <2> DEFINE j == i + 1
  <2>1. fr = [v_frame EXCEPT !.ancestor = a, !.d = h, !.i = j]
    BY <1>6
  <2> HIDE DEF j, i, fr
  <2>2. PICK r : r = fr
    OBVIOUS
  <2>3. r = [v_frame EXCEPT !.ancestor = a, !.d = h, !.i = j]
    BY <2>1, <2>2, Zenon
  <2>4. r = [busy |-> v_frame.busy, height |-> v_frame.height, root |-> v_frame.root,
             base |-> v_frame.base, chunk |-> v_frame.chunk, i |-> j, ancestor |-> a, d |-> h,
             start |-> v_frame.start, perm |-> v_frame.perm]
    BY <2>3 DEF IsFrame
  <2> QED
    BY <1>1, <2>2, <2>4, Zenon DEF j
<1>8. /\ fr.busy = v_frame.busy /\ fr.height = n /\ fr.root = v_frame.root /\ fr.chunk = v_frame.chunk
      /\ fr.i = i + 1 /\ fr.ancestor = a /\ fr.d = h /\ IsFrame(fr)
  BY <1>7 DEF IsFrame
<1> HIDE DEF fr
<1>9. q \in 0 .. Pow2[n - h] - 1 /\ VKnown(o, v_forest, a .. a + TREE_CHUNK_SIZE - 1)
  <2> HIDE DEF i
  <2> QED
    BY <1>1, <1>3, <1>4, VStartKnown DEF i, a
<1>10. ASSUME NEW e \in 0 .. n - 1, NEW r \in 0 .. Pow2[e] - 1, VExpanded(fr, n, e, r)
       PROVE  VKnown(o, v_forest, VSpan(VChunkAt(root, e, r), TREE_CHUNK_SIZE, 1))
  <2> DEFINE p == Pow2[n - e]
  <2>1. r * p < i + 1 /\ (r * p = i => e < n - h)
    BY <1>2, <1>8, <1>10 DEF VExpanded
  <2>2. p \in Nat \ {0} /\ r \in Nat /\ n - e \in Nat
    BY <1>2, Pow2Values
  <2>3. r * p # i
    <3>1. SUFFICES ASSUME r * p = i PROVE FALSE
      OBVIOUS
    <3>2. n - e \in h + 1 .. n
      BY <1>2, <1>3, <2>1, <3>1
    <3>3. (r * p) % p = 0
      BY <2>2, Quotient
    <3> QED
      BY <1>3, <3>1, <3>2, <3>3
  <2>4. VExpanded(v_frame, n, e, r)
    <3>1. r * p \in Nat
      BY <2>2
    <3>2. r * p < i
      BY <1>2, <2>1, <2>3, <3>1
    <3>3. e < n - v_frame.d
      BY <1>1, <1>2
    <3> QED
      BY <3>2, <3>3 DEF VExpanded
  <2> QED
    BY <2>4 DEF VWalkInv
<1>11. /\ fr.i \in 0 .. Pow2[n] /\ fr.d \in 0 .. n /\ fr.chunk \in 0 .. fr.i
       /\ fr.i <= fr.chunk + V!Ratio /\ fr.chunk < Pow2[n]
       /\ fr.d > 0 => fr.i > 0
  BY <1>1, <1>2, <1>3, <1>8
<1>12. /\ fr.i - 1 = q * Pow2[fr.d] /\ fr.ancestor = VChunkAt(root, n - fr.d, q)
       /\ q \in 0 .. Pow2[n - fr.d] - 1
       /\ VKnown(o, v_forest, fr.ancestor .. fr.ancestor + TREE_CHUNK_SIZE - 1)
  BY <1>2, <1>4, <1>8, <1>9 DEF a
<1>13. VWalkInv(o, v_forest, fr, root, n)
  BY <1>1, <1>8, <1>10, <1>11, <1>12 DEF VWalkInv
<1> QED
  BY <1>1, <1>8, <1>13 DEF fr

(* Each chunk on the way down is known once it is expanded.                 *)
LEMMA VDescendKeeps ==
  ASSUME NEW o, NEW root \in Nat, NEW n \in Nat, Walkable(root, n),
         IsOpening(o), IsFrame(v_frame), VWalkInv(o, v_forest, v_frame, root, n), V!Descend
  PROVE  /\ IsFrame(v_frame') /\ v_frame'.busy = v_frame.busy
         /\ VWalkInv(o, v_forest', v_frame', root, n)
         /\ VGrows(o, v_forest, v_forest')
<1> DEFINE fr == v_frame'
           d  == v_frame.d
           e  == n - d
           g  == V!ExpandChunk(v_frame.ancestor, TREE_CHUNK_SIZE)
<1>1. /\ d > 0 /\ v_forest' = g
      /\ v_frame' = [v_frame EXCEPT !.ancestor = FIRST_CHILD(v_frame.ancestor, TRUE), !.d = d - 1]
  BY SameLayoutV DEF V!Descend
<1>2. /\ n \in Nat /\ root \in Nat /\ TREE_CHUNK_SIZE \in Nat \ {0} /\ V!Ratio \in Nat
      /\ Pow2[n] \in Nat
  BY VWalkSizes, VWalkRatio, Pow2Values
<1>3. /\ v_frame.height = n /\ v_frame.root = VD(root, TREE_CHUNK_SIZE_SHIFT)
      /\ v_frame.i \in 0 .. Pow2[n] /\ d \in 1 .. n /\ v_frame.i > 0
      /\ v_frame.chunk \in 0 .. v_frame.i /\ v_frame.i <= v_frame.chunk + V!Ratio
      /\ v_frame.chunk < Pow2[n]
  BY <1>1, <1>2 DEF VWalkInv
<1>4. PICK q \in 0 .. Pow2[e] - 1 :
        /\ v_frame.i - 1 = q * Pow2[d]
        /\ v_frame.ancestor = VChunkAt(root, e, q)
        /\ VKnown(o, v_forest, v_frame.ancestor .. v_frame.ancestor + TREE_CHUNK_SIZE - 1)
  BY <1>3 DEF VWalkInv
<1>5. /\ d \in Nat /\ d - 1 \in 0 .. n - 1 /\ e \in Nat /\ e + 1 \in 0 .. n /\ e \in 0 .. n - 1
      /\ n - (d - 1) = e + 1 /\ q \in Nat /\ e + 1 \in Nat /\ e + 1 \in 0 .. n
  <2>1. e \in Nat
    BY <1>2, <1>3
  <2>2. Pow2[e] \in Nat
    BY <2>1, Pow2Values
  <2> QED
    BY <1>2, <1>3, <2>1, <2>2
<1>6. /\ Pow2[e] \in Nat \ {0} /\ Pow2[d] \in Nat \ {0}
      /\ Pow2[e + 1] = 2 * Pow2[e] /\ Pow2[d] = 2 * Pow2[d - 1] /\ Pow2[d - 1] \in Nat
  <2>1. d - 1 \in Nat /\ d - 1 + 1 = d
    BY <1>5
  <2>2. Pow2[d - 1 + 1] = 2 * Pow2[d - 1]
    BY <2>1, Pow2Values, Zenon
  <2> QED
    BY <1>5, <2>1, <2>2, Pow2Values
<1> DEFINE from == VChunkAt(root, e, q)
           to   == VChunkAt(root, e + 1, 2 * q)
           end  == VChunkAt(root, e + 1, 2 * q + 2)
<1>7. /\ from \in Nat /\ FIRST_CHILD(from, TRUE) = to
      /\ VSpan(from, TREE_CHUNK_SIZE, 1) = to .. end - 1
      /\ VD(from + TREE_CHUNK_SIZE, 1) = end
  <2>1. e \in Nat /\ q \in Nat
    BY <1>5
  <2> HIDE DEF e
  <2> QED
    BY <2>1, VChunkShape, VChunkChildren, ZenonT(60)
<1>8. end <= ForestSize(TRUE)
  <2> DEFINE r == 2 * q + 2
  <2>1. r \in Nat /\ r <= Pow2[e + 1]
    BY <1>5, <1>6
  <2>2. VChunkAt(root, e + 1, r) <= ForestSize(TRUE)
    <3> HIDE DEF r, e
    <3> QED
      BY <1>5, <2>1, VChunkInTree, Zenon
  <2> QED
    BY <2>2
<1>9. VGrows(o, v_forest, g) /\ VKnown(o, g, VSpan(from, TREE_CHUNK_SIZE, 1))
  <2> DEFINE c == TREE_CHUNK_SIZE
  <2>1. 2 * from + T = to /\ 2 * (from + c) + T = end /\ T \in Nat
    <3>1. \A y \in Nat : FIRST_CHILD(y, TRUE) = 2 * y + T /\ VD(y, 1) = 2 * y + T
      <4> SUFFICES ASSUME NEW y \in Nat
                   PROVE  FIRST_CHILD(y, TRUE) = 2 * y + T /\ VD(y, 1) = 2 * y + T
        OBVIOUS
      <4>1. 0 + 1 = 1
        OBVIOUS
      <4>2. VD(y, 0 + 1) = 2 * VD(y, 0) + T /\ VD(y, 0) = y /\ FIRST_CHILD(y, TRUE) = 2 * y + T
        BY VShape, 0 \in Nat
      <4> QED
        BY <4>1, <4>2
    <3>2. from + c \in Nat
      <4> HIDE DEF from
      <4> QED
        BY <1>2, <1>7
    <3> QED
      BY <1>7, <3>1, <3>2, SubtreeCount
  <2>2. g = V!ExpandChunk(from, c) /\ VKnown(o, v_forest, from .. from + c - 1)
    BY <1>4, Zenon
  <2>3. 2 * (from + c) + T <= ForestSize(TRUE)
    BY <1>8, <2>1
  <2>4. VSpan(from, c, 1) = 2 * from + T .. 2 * from + T + 2 * c - 1
    <3>0. c \in Nat
      BY <1>2
    <3> HIDE DEF from, to, end, c
    <3>1. end = 2 * from + T + 2 * c
      BY <1>7, <2>1, <3>0
    <3> QED
      BY <1>7, <2>1, <3>0, <3>1 DEF c
  <2>5. c \in Nat
    BY <1>2
  <2> HIDE DEF from, to, end, g, c
  <2>6. VGrows(o, v_forest, g) /\ VKnown(o, g, 2 * from + T .. 2 * from + T + 2 * c - 1)
    BY <1>7, <2>2, <2>3, <2>5, VExpandKnown
  <2> QED
    BY <2>4, <2>6 DEF c
<1>10. to + TREE_CHUNK_SIZE <= end /\ to \in Nat /\ end \in Nat
  <2> DEFINE r == 2 * q
  <2>1. r \in Nat /\ r + 1 \in Nat /\ r + 1 + 1 = 2 * q + 2
    BY <1>5
  <2> HIDE DEF r
  <2>2. /\ VChunkAt(root, e + 1, r) \in Nat
        /\ VChunkAt(root, e + 1, r) + TREE_CHUNK_SIZE = VChunkAt(root, e + 1, r + 1)
        /\ VChunkAt(root, e + 1, r + 1) + TREE_CHUNK_SIZE = VChunkAt(root, e + 1, r + 1 + 1)
    <3> DEFINE e1 == e + 1
    <3>1. e1 \in Nat
      BY <1>5
    <3> HIDE DEF e1
    <3>2. VChunkAt(root, e1, r) \in Nat /\ VChunkAt(root, e1, r) + TREE_CHUNK_SIZE = VChunkAt(root, e1, r + 1)
      BY <2>1, <3>1, VChunkShape
    <3>3. VChunkAt(root, e1, r + 1) + TREE_CHUNK_SIZE = VChunkAt(root, e1, r + 1 + 1)
      BY <2>1, <3>1, VChunkShape
    <3> QED
      BY <3>2, <3>3 DEF e1
  <2> DEFINE a == VChunkAt(root, e + 1, r)
             b == VChunkAt(root, e + 1, r + 1)
             c == VChunkAt(root, e + 1, r + 1 + 1)
  <2>3. a \in Nat /\ a + TREE_CHUNK_SIZE = b /\ b + TREE_CHUNK_SIZE = c /\ to = a /\ end = c
    BY <2>1, <2>2 DEF r
  <2> HIDE DEF a, b, c, to, end
  <2> QED
    BY <1>2, <2>3
<1>11. fr = [busy |-> v_frame.busy, height |-> n, root |-> v_frame.root, base |-> v_frame.base,
             chunk |-> v_frame.chunk, i |-> v_frame.i, ancestor |-> to, d |-> d - 1,
             start |-> v_frame.start, perm |-> v_frame.perm]
  <2> DEFINE j == d - 1
  <2>1. fr = [v_frame EXCEPT !.ancestor = to, !.d = j]
    BY <1>1, <1>4, <1>7
  <2> HIDE DEF j, d, fr, to
  <2>2. PICK r : r = fr
    OBVIOUS
  <2>3. r = [v_frame EXCEPT !.ancestor = to, !.d = j]
    BY <2>1, <2>2, Zenon
  <2>4. r = [busy |-> v_frame.busy, height |-> v_frame.height, root |-> v_frame.root,
             base |-> v_frame.base, chunk |-> v_frame.chunk, i |-> v_frame.i, ancestor |-> to, d |-> j,
             start |-> v_frame.start, perm |-> v_frame.perm]
    BY <2>3 DEF IsFrame
  <2> QED
    BY <1>3, <2>2, <2>4, Zenon DEF j
<1> HIDE DEF from, to, end, g
<1>12. /\ fr.busy = v_frame.busy /\ fr.height = n /\ fr.root = v_frame.root /\ fr.chunk = v_frame.chunk
       /\ fr.i = v_frame.i /\ fr.ancestor = to /\ fr.d = d - 1 /\ IsFrame(fr)
  BY <1>11 DEF IsFrame
<1> HIDE DEF fr
<1>13. ASSUME NEW e2 \in 0 .. n - 1, NEW r \in 0 .. Pow2[e2] - 1, VExpanded(fr, n, e2, r)
       PROVE  VKnown(o, g, VSpan(VChunkAt(root, e2, r), TREE_CHUNK_SIZE, 1))
  <2> DEFINE p == Pow2[n - e2]
  <2>1. r * p < v_frame.i /\ (r * p = v_frame.i - 1 => e2 < n - (d - 1))
    BY <1>12, <1>13 DEF VExpanded
  <2>2. e2 \in Nat
    BY <1>2
  <2>3. p \in Nat /\ r \in Nat /\ Pow2[e2] \in Nat
    BY <1>2, <2>2, Pow2Values
  <2>4. CASE e2 = e /\ r * p = v_frame.i - 1
    <3>1. n - e2 = d
      BY <1>2, <1>3, <2>4
    <3>2. r * Pow2[d] = q * Pow2[d]
      BY <1>4, <2>4, <3>1
    <3> DEFINE w == Pow2[d]
    <3>3. w \in Nat /\ 0 < w /\ w * r + 0 = w * q + 0
      <4>1. w \in Nat \ {0} /\ r * w = q * w
        BY <1>6, <3>2
      <4> HIDE DEF w
      <4> QED
        BY <1>5, <2>3, <4>1
    <3> HIDE DEF w
    <3>4. r = q
      BY <1>5, <2>3, <3>3, MulAddInjective, 0 \in Nat
    <3> QED
      BY <1>9, <2>4, <3>4 DEF from
  <2>5. CASE ~(e2 = e /\ r * p = v_frame.i - 1)
    <3>1. VExpanded(v_frame, n, e2, r)
      BY <1>2, <1>3, <2>1, <2>2, <2>5 DEF VExpanded
    <3>2. VKnown(o, v_forest, VSpan(VChunkAt(root, e2, r), TREE_CHUNK_SIZE, 1))
      BY <3>1 DEF VWalkInv
    <3> QED
      BY <1>9, <3>2, VKnownGrows
  <2> QED
    BY <2>4, <2>5
<1>14. /\ fr.i \in 0 .. Pow2[n] /\ fr.d \in 0 .. n /\ fr.chunk \in 0 .. fr.i
       /\ fr.i <= fr.chunk + V!Ratio /\ fr.chunk < Pow2[n]
       /\ fr.d > 0 => fr.i > 0
  BY <1>2, <1>3, <1>12
<1>15. /\ fr.i - 1 = (2 * q) * Pow2[fr.d] /\ fr.ancestor = VChunkAt(root, n - fr.d, 2 * q)
       /\ 2 * q \in 0 .. Pow2[n - fr.d] - 1
       /\ VKnown(o, g, fr.ancestor .. fr.ancestor + TREE_CHUNK_SIZE - 1)
  <2>1. fr.ancestor = VChunkAt(root, n - fr.d, 2 * q) /\ n - fr.d = e + 1
    BY <1>5, <1>12 DEF to
  <2>2. 2 * q \in 0 .. Pow2[n - fr.d] - 1
    BY <1>5, <1>6, <2>1
  <2>3. fr.i - 1 = (2 * q) * Pow2[fr.d]
    <3>1. q * (2 * Pow2[d - 1]) = (2 * q) * Pow2[d - 1]
      BY <1>5, <1>6
    <3> QED
      BY <1>4, <1>6, <1>12, <3>1
  <2>4. VKnown(o, g, to .. to + TREE_CHUNK_SIZE - 1)
    BY <1>2, <1>7, <1>9, <1>10 DEF VKnown
  <2> QED
    BY <1>12, <2>1, <2>2, <2>3, <2>4
<1>16. VWalkInv(o, g, fr, root, n)
  BY <1>3, <1>12, <1>13, <1>14, <1>15 DEF VWalkInv
<1> QED
  BY <1>1, <1>9, <1>12, <1>16 DEF fr, g

---------------------------------------------------------------------------
(* Where a leaf goes in the outputs of the verifier.                         *)
LPlace(index, u, x) == FirstLeaf(u) + PermuteInv(XorIndex(x, index[u]))
HPlace(u, x) == FirstLeaf(u) + x

(* The places of all leaves differ, in both outputs.                        *)
LEMMA VPlaces ==
  ASSUME NEW index, IsIndex(index), NEW u \in Vec, NEW x \in Leaf(u)
  PROVE  /\ LPlace(index, u, x) \in Slot /\ HPlace(u, x) \in Slot
         /\ \A v \in Vec : \A y \in Leaf(v) :
              /\ LPlace(index, u, x) = LPlace(index, v, y) => u = v /\ x = y
              /\ HPlace(u, x) = HPlace(v, y) => u = v /\ x = y
<1>1. ASSUME NEW v \in Vec, NEW y \in Leaf(v)
      PROVE  /\ index[v] \in Leaf(v) /\ XorIndex(y, index[v]) \in Leaf(v)
             /\ XorIndex(XorIndex(y, index[v]), index[v]) = y
             /\ PermuteInv(XorIndex(y, index[v])) \in Leaf(v)
  <2>1. index[v] \in Leaf(v)
    BY DEF IsIndex
  <2>2. XorIndex(y, index[v]) \in Leaf(v) /\ XorIndex(XorIndex(y, index[v]), index[v]) = y
    BY <2>1, XorLeaf
  <2> QED
    BY <2>1, <2>2, PermutationAssumption
<1>2. LPlace(index, u, x) \in Slot /\ HPlace(u, x) \in Slot
  BY <1>1, LeafPlaces DEF LPlace, HPlace
<1>3. ASSUME NEW v \in Vec, NEW y \in Leaf(v), LPlace(index, u, x) = LPlace(index, v, y)
      PROVE  u = v /\ x = y
  <2>1. u = v /\ PermuteInv(XorIndex(x, index[u])) = PermuteInv(XorIndex(y, index[v]))
    <3> DEFINE a == PermuteInv(XorIndex(x, index[u]))
               b == PermuteInv(XorIndex(y, index[v]))
    <3>1. a \in Leaf(u) /\ b \in Leaf(v) /\ FirstLeaf(u) + a = FirstLeaf(v) + b
      BY <1>1, <1>3 DEF LPlace
    <3> HIDE DEF a, b
    <3>2. u = v /\ a = b
      BY <3>1, LeafPlaces
    <3> QED
      BY <3>2 DEF a, b
  <2>2. XorIndex(x, index[u]) = XorIndex(y, index[u])
    BY <1>1, <2>1, PermutationAssumption
  <2> QED
    BY <1>1, <2>1, <2>2
<1>4. ASSUME NEW v \in Vec, NEW y \in Leaf(v), HPlace(u, x) = HPlace(v, y)
      PROVE  u = v /\ x = y
  BY <1>4, LeafPlaces DEF HPlace
<1> QED
  BY <1>2, <1>3, <1>4

(* What write_leaves of the verifier does, leaf after leaf.                  *)
LEMMA VWriteValue ==
  ASSUME NEW blocks, NEW start, NEW perm, NEW at
  PROVE  \E g : /\ IsWrite(g, MAX_CHUNK_SIZE, v_leaves, v_hashed, blocks, start, perm, at)
                /\ V!WriteLeaves(blocks, start, perm, at) = g[MAX_CHUNK_SIZE]
<1> DEFINE n == V!MAX_CHUNK_SIZE
           One(was, block, o) ==
             [leaves |-> [was.leaves EXCEPT ![at + was.perm] = V!LeafPrg(block)],
              hashed |-> [was.hashed EXCEPT ![at + start + o - 1] = V!LeafPrg(block)],
              perm   |-> V!NextPermuted(was.perm, start + o - 1)]
           Is(g) == g = [o \in 0 .. n |->
                           IF o = 0 THEN [leaves |-> v_leaves, hashed |-> v_hashed, perm |-> perm]
                           ELSE One(g[o - 1], blocks[o - 1], o)]
           G == CHOOSE g : Is(g)
<1>1. n = MAX_CHUNK_SIZE /\ n \in Nat
  BY SameLayoutV, TreeSizes
<1>2. \A was, block, o : One(was, block, o) = WriteOne(was, block, at, start, o)
  <2>1. \A x : V!LeafPrg(x) = S!LeafPrg(x)
    BY SameLayout, SameLayoutV
  <2> QED
    BY <2>1, Zenon DEF WriteOne, V!NextPermuted
<1>3. \A g : Is(g) <=> IsWrite(g, n, v_leaves, v_hashed, blocks, start, perm, at)
  <2> HIDE DEF One, n
  <2> QED
    BY <1>2, Zenon DEF IsWrite
<1>4. \E g : Is(g)
  <2> HIDE DEF Is, n
  <2>1. \E g : IsWrite(g, n, v_leaves, v_hashed, blocks, start, perm, at)
    BY <1>1, WriteExists
  <2> QED
    BY <1>3, <2>1
<1>5. Is(G)
  <2> HIDE DEF Is
  <2> QED
    BY <1>4
<1>6. V!WriteLeaves(blocks, start, perm, at) = G[n]
  BY DEF V!WriteLeaves
<1> HIDE DEF G, n, Is
<1> QED
  BY <1>1, <1>3, <1>5, <1>6

(* r is what the outputs become when the blocks of leaves start to x - 1 of    *)
(* vector u are written to l and h.                                          *)
VWrote(l, h, r, index, u, start, x, blocks) ==
  /\ r.leaves = [s \in Slot |-> r.leaves[s]]
  /\ r.hashed = [s \in Slot |-> r.hashed[s]]
  /\ x \in Leaf(u) => r.perm = PermuteInv(XorIndex(x, index[u]))
  /\ \A y \in start .. x - 1 :
       /\ r.leaves[LPlace(index, u, y)] = LeafPrg(blocks[y - start])
       /\ r.hashed[HPlace(u, y)] = LeafPrg(blocks[y - start])
  /\ \A v \in Vec : \A y \in Leaf(v) : v # u \/ y \notin start .. x - 1 =>
       /\ r.leaves[LPlace(index, v, y)] = l[LPlace(index, v, y)]
       /\ r.hashed[HPlace(v, y)] = h[HPlace(v, y)]

LEMMA VWriteStep ==
  ASSUME NEW index, IsIndex(index), NEW u \in Vec, NEW start \in Nat, NEW x \in Leaf(u),
         start <= x, NEW l, NEW h, NEW r, NEW blocks, NEW o \in Nat, start + o - 1 = x,
         VWrote(l, h, r, index, u, start, x, blocks)
  PROVE  VWrote(l, h, WriteOne(r, blocks[x - start], FirstLeaf(u), start, o), index, u,
                start, x + 1, blocks)
<1> DEFINE b == LeafPrg(blocks[x - start])
           a == LPlace(index, u, x)
           c == HPlace(u, x)
           w == WriteOne(r, blocks[x - start], FirstLeaf(u), start, o)
<1>1. x \in Nat /\ x + 1 \in Nat /\ start <= x + 1
  BY LeafRange
<1>2. FirstLeaf(u) + start + o - 1 = c
  <2>1. u \in Nat /\ u <= BITS_PER_WITNESS
    BY DepthRange, TreeSizes
  <2>2. FirstLeaf(u) \in Nat
    BY <2>1, LeafParts
  <2> QED
    BY <2>2 DEF HPlace
<1>3. r.perm = PermuteInv(XorIndex(x, index[u]))
  BY DEF VWrote
<1>4. w = [leaves |-> [r.leaves EXCEPT ![a] = b], hashed |-> [r.hashed EXCEPT ![c] = b],
           perm |-> XorIndex(PermuteInv(XorIndex(x, index[u])), PermuteIncrement(x))]
  <2>1. S!LeafPrg(blocks[x - start]) = b
    BY SameLayout
  <2> QED
    BY <1>2, <1>3, <2>1, Zenon DEF WriteOne, LPlace
<1>5. /\ w.leaves = [r.leaves EXCEPT ![a] = b]
      /\ w.hashed = [r.hashed EXCEPT ![c] = b]
      /\ w.perm = XorIndex(PermuteInv(XorIndex(x, index[u])), PermuteIncrement(x))
  BY <1>4
<1> HIDE DEF w, a, c
<1>6. x + 1 \in Leaf(u) => w.perm = PermuteInv(XorIndex(x + 1, index[u]))
  <2>1. index[u] \in Leaf(u)
    BY DEF IsIndex
  <2> QED
    BY <1>5, <2>1, PermutationAssumption
<1>7. /\ w.leaves = [s \in Slot |-> w.leaves[s]]
      /\ w.hashed = [s \in Slot |-> w.hashed[s]]
      /\ \A s \in Slot : w.leaves[s] = (IF s = a THEN b ELSE r.leaves[s])
      /\ \A s \in Slot : w.hashed[s] = (IF s = c THEN b ELSE r.hashed[s])
  <2> HIDE DEF b
  <2> QED
    BY <1>5 DEF VWrote
<1>8. ASSUME NEW v \in Vec, NEW y \in Leaf(v)
      PROVE  /\ LPlace(index, v, y) \in Slot /\ HPlace(v, y) \in Slot
             /\ LPlace(index, v, y) = a => u = v /\ x = y
             /\ HPlace(v, y) = c => u = v /\ x = y
  BY VPlaces DEF a, c
<1>9. a \in Slot /\ c \in Slot
  BY VPlaces DEF a, c
<1>10. ASSUME NEW y \in start .. (x + 1) - 1
       PROVE  /\ w.leaves[LPlace(index, u, y)] = LeafPrg(blocks[y - start])
              /\ w.hashed[HPlace(u, y)] = LeafPrg(blocks[y - start])
  <2>1. CASE y = x
    BY <1>7, <1>9, <2>1 DEF a, c
  <2>2. CASE y # x
    <3>1. y \in start .. x - 1
      BY <1>1, <1>10, <2>2
    <3>2. y \in Leaf(u)
      <4> DEFINE p == Pow2[Depth(u)]
      <4>1. Leaf(u) = 0 .. p - 1 /\ p \in Nat /\ x < p
        BY LeafRange
      <4> HIDE DEF p
      <4> QED
        BY <1>1, <3>1, <4>1
    <3>3. /\ r.leaves[LPlace(index, u, y)] = LeafPrg(blocks[y - start])
          /\ r.hashed[HPlace(u, y)] = LeafPrg(blocks[y - start])
      BY <3>1 DEF VWrote
    <3> QED
      BY <1>7, <1>8, <2>2, <3>2, <3>3
  <2> QED
    BY <2>1, <2>2
<1>11. ASSUME NEW v \in Vec, NEW y \in Leaf(v), v # u \/ y \notin start .. (x + 1) - 1
       PROVE  /\ w.leaves[LPlace(index, v, y)] = l[LPlace(index, v, y)]
              /\ w.hashed[HPlace(v, y)] = h[HPlace(v, y)]
  <2>1. v # u \/ (y \notin start .. x - 1 /\ y # x)
    <3>1. CASE v # u
      BY <3>1
    <3>2. CASE y \notin start .. (x + 1) - 1
      <4>1. x \in start .. (x + 1) - 1 /\ start .. x - 1 \subseteq start .. (x + 1) - 1
        BY <1>1
      <4> QED
        BY <3>2, <4>1
    <3> QED
      BY <1>11, <3>1, <3>2
  <2>2. /\ r.leaves[LPlace(index, v, y)] = l[LPlace(index, v, y)]
        /\ r.hashed[HPlace(v, y)] = h[HPlace(v, y)]
    BY <2>1 DEF VWrote
  <2> QED
    BY <1>7, <1>8, <2>1, <2>2
<1>12. VWrote(l, h, w, index, u, start, x + 1, blocks)
  <2>1. w.leaves = [s \in Slot |-> w.leaves[s]] /\ w.hashed = [s \in Slot |-> w.hashed[s]]
    BY <1>7
  <2> QED
    BY <1>6, <1>10, <1>11, <2>1, Zenon DEF VWrote
<1> QED
  BY <1>12 DEF w

(* A round of write_leaves puts each of its leaves in its place.            *)
LEMMA VWriteAll ==
  ASSUME NEW index, IsIndex(index), NEW u \in Vec, NEW n \in Nat, NEW start \in Leaf(u),
         start + n <= Pow2[Depth(u)], NEW l, NEW h, NEW blocks, NEW g,
         IsWrite(g, n, l, h, blocks, start, PermuteInv(XorIndex(start, index[u])), FirstLeaf(u)),
         l = [s \in Slot |-> l[s]], h = [s \in Slot |-> h[s]]
  PROVE  VWrote(l, h, g[n], index, u, start, start + n, blocks)
<1> DEFINE OK(k) == VWrote(l, h, g[k], index, u, start, start + k, blocks)
           A == {k \in Nat : OK(k)}
           first == [leaves |-> l, hashed |-> h, perm |-> PermuteInv(XorIndex(start, index[u]))]
           W(k) == WriteOne(g[k - 1], blocks[k - 1], FirstLeaf(u), start, k)
<1>0. start \in Nat
  BY LeafRange
<1>1. ASSUME NEW k \in 0 .. n PROVE g[k] = IF k = 0 THEN first ELSE W(k)
  <2> HIDE DEF first, W
  <2>1. g = [j \in 0 .. n |-> IF j = 0 THEN first ELSE W(j)]
    BY Zenon DEF IsWrite, first, W
  <2> QED
    BY <2>1
<1>2. 0 \in A
  <2>1. g[0] = first /\ 0 \in Nat /\ start + 0 = start
    BY <1>0, <1>1
  <2>2. first.leaves = l /\ first.hashed = h /\ first.perm = PermuteInv(XorIndex(start, index[u]))
    OBVIOUS
  <2> HIDE DEF first
  <2>3. start .. start - 1 = {}
    BY <1>0
  <2>4. VWrote(l, h, first, index, u, start, start, blocks)
    BY <2>2, <2>3 DEF VWrote
  <2>5. OK(0)
    BY <2>1, <2>4, Zenon
  <2> HIDE DEF OK
  <2> QED
    BY <2>5
<1>3. ASSUME NEW k \in A, k < n PROVE k + 1 \in A
  <2> DEFINE x == start + k
             j == k + 1
  <2>1. k \in Nat /\ VWrote(l, h, g[k], index, u, start, x, blocks)
    OBVIOUS
  <2>2. j \in Nat /\ j \in 0 .. n /\ j # 0 /\ j - 1 = k /\ start + j - 1 = x
        /\ start + j = x + 1 /\ start <= x /\ x - start = k
    BY <1>0, <1>3, <2>1
  <2>3. x \in Leaf(u)
    <3> DEFINE p == Pow2[Depth(u)]
    <3>1. p \in Nat /\ start + n <= p
      BY DepthRange, Pow2Values
    <3> HIDE DEF p
    <3>2. x \in 0 .. p - 1
      BY <1>0, <1>3, <2>1, <3>1
    <3> QED
      BY <3>2 DEF Leaf, p
  <2>4. g[j] = WriteOne(g[k], blocks[x - start], FirstLeaf(u), start, j)
    <3>1. g[j] = W(j)
      BY <1>1, <2>2
    <3> HIDE DEF j, x
    <3> QED
      BY <2>2, <3>1, Zenon
  <2> HIDE DEF x, j
  <2>5. VWrote(l, h, g[j], index, u, start, x + 1, blocks)
    <3> DEFINE f == g[k]
               w == WriteOne(f, blocks[x - start], FirstLeaf(u), start, j)
    <3>1. VWrote(l, h, f, index, u, start, x, blocks)
      BY <2>1
    <3> HIDE DEF f
    <3>2. VWrote(l, h, w, index, u, start, x + 1, blocks)
      BY <1>0, <2>2, <2>3, <3>1, VWriteStep
    <3> QED
      BY <2>4, <3>2, Zenon DEF f
  <2>6. OK(j)
    BY <2>2, <2>5, Zenon
  <2> HIDE DEF OK
  <2> QED
    BY <2>2, <2>6 DEF j
<1> HIDE DEF A
<1>4. A \in SUBSET Nat
  BY DEF A
<1>5. n \in A
  BY <1>2, <1>3, <1>4, UpTo
<1> QED
  BY <1>5 DEF A

---------------------------------------------------------------------------
(* The leaves of a subtree beside the path to the hidden leaf: those whose    *)
(* index has the bits of the hidden one above bit h, and the other bit h.    *)
Sub(index, u, h) ==
  {x \in Leaf(u) : /\ x \div Pow2[h + 1] = index[u] \div Pow2[h + 1]
                   /\ x \div Pow2[h] # index[u] \div Pow2[h]}

SubStart(index, u, h) == XorIndex(index[u] - (index[u] % Pow2[h]), Pow2[h])

(* A multiple of a power of two has no bits below it.                       *)
LEMMA ProductBits ==
  ASSUME NEW h \in Nat, NEW q \in Nat
  PROVE  /\ Pow2[h] * q \in Nat /\ (Pow2[h] * q) % Pow2[h] = 0 /\ (Pow2[h] * q) \div Pow2[h] = q
         /\ \A b \in Nat : b < h => ~Bit(Pow2[h] * q, b)
<1> DEFINE p == Pow2[h]
           y == p * q
<1>1. p \in Nat \ {0} /\ 0 \in 0 .. p - 1
  BY Pow2Values
<1>2. y + 0 = y /\ y \in Nat /\ y % p = 0 /\ y \div p = q
  <2>1. y \in Nat
    BY <1>1
  <2> HIDE DEF p
  <2>2. (p * q + 0) \div p = q /\ (p * q + 0) % p = 0
    BY <1>1, QuotientUnique
  <2>3. p * q + 0 = p * q
    BY <1>1
  <2> QED
    BY <2>1, <2>2, <2>3
<1>3. ASSUME NEW b \in Nat, b < h PROVE ~Bit(y, b)
  <2>1. Bit(y + 0, b) <=> Bit(0, b)
    <3> HIDE DEF y
    <3> QED
      BY <1>1, <1>2, <1>3, ChunkBits
  <2>2. ~Bit(0, b)
    <3>1. 0 < Pow2[0] /\ 0 <= b
      BY Pow2Values
    <3> QED
      BY <3>1, NoBits, 0 \in Nat
  <2> HIDE DEF y
  <2> QED
    BY <1>2, <2>1, <2>2
<1> QED
  BY <1>2, <1>3

(* The leaves of a subtree are consecutive and begin at SubStart.           *)
LEMMA SubLeaves ==
  ASSUME NEW index, IsIndex(index), NEW u \in Vec, NEW h \in 0 .. Depth(u) - 1
  PROVE  /\ h \in Nat /\ Pow2[h] \in Nat \ {0}
         /\ SubStart(index, u, h) \in Leaf(u) /\ SubStart(index, u, h) \in Nat
         /\ SubStart(index, u, h) + Pow2[h] <= Pow2[Depth(u)]
         /\ Sub(index, u, h) = SubStart(index, u, h) .. SubStart(index, u, h) + Pow2[h] - 1
         /\ \A x \in Sub(index, u, h) : x % Pow2[h] = x - SubStart(index, u, h)
         /\ \A x \in Nat : Pow2[h] * x <= SubStart(index, u, h) \/ Pow2[h] * x >= SubStart(index, u, h) + Pow2[h]
         /\ SubStart(index, u, h) % Pow2[h] = 0
<1> DEFINE n == Depth(u)
           p == Pow2[h]
           z == index[u]
           q == z \div p
           e == z \div Pow2[h + 1]
           f == IF Bit(z, h) THEN 1 ELSE 0
           r == 2 * e + (1 - f)
           y == p * r
           a == p * q
<1>1. /\ n \in 0 .. VOLE_MAX_K /\ n \in Nat /\ h \in Nat /\ h + 1 \in Nat /\ h <= n /\ h + 1 <= n
      /\ z \in Leaf(u) /\ z \in Nat /\ z < Pow2[n] /\ h \in 0 .. n - 1
      /\ VOLE_MAX_K \in Nat /\ n <= VOLE_MAX_K
  BY LeafRange, TreeSizes DEF IsIndex
<1>2. /\ p \in Nat \ {0} /\ Pow2[h + 1] = 2 * p /\ Pow2[n] \in Nat \ {0} /\ Pow2[h + 1] <= Pow2[n]
      /\ Pow2[VOLE_MAX_K] \in Nat /\ Pow2[n] <= Pow2[VOLE_MAX_K]
  BY <1>1, Pow2Values, Pow2Monotone
<1>3. q \in Nat /\ e \in Nat /\ q \div 2 = e /\ q = 2 * e + f /\ f \in 0 .. 1
  <2>1. f \in 0 .. 1
    OBVIOUS
  <2>2. q \in Nat /\ e = q \div 2 /\ q = 2 * e + f
    <3> HIDE DEF z
    <3> QED
      BY <1>1, Bits, Zenon
  <2>3. e \in Nat
    <3> DEFINE g == h + 1
    <3>1. g \in Nat /\ z \in Nat
      BY <1>1
    <3> HIDE DEF g, z
    <3>2. z \div Pow2[g] \in Nat
      BY <3>1, Bits
    <3> QED
      BY <3>2 DEF g
  <2> QED
    BY <2>1, <2>2, <2>3, Zenon
<1>4. r \in Nat /\ r # q /\ r \div 2 = e /\ r % 2 = 1 - f
  <2> HIDE DEF e, q, f
  <2> QED
    BY <1>3
<1>5. /\ y \in Nat /\ y % p = 0 /\ y \div p = r /\ a \in Nat /\ a % p = 0 /\ a \div p = q
      /\ \A b \in Nat : b < h => ~Bit(y, b) /\ ~Bit(a, b)
  <2> HIDE DEF r, q
  <2> QED
    BY <1>1, <1>3, <1>4, ProductBits
<1>6. z - (z % p) = a
  <2>1. z = p * (z \div p) + (z % p) /\ z % p \in Nat
    <3> HIDE DEF p, z
    <3> QED
      BY <1>1, <1>2
  <2> HIDE DEF z
  <2> QED
    BY <1>1, <1>2, <1>5, <2>1
<1>7. y \div Pow2[h + 1] = e
  <2>1. y \div Pow2[h + 1] = (y \div Pow2[h]) \div 2
    <3> HIDE DEF y
    <3> QED
      BY <1>1, <1>5, Bits
  <2> QED
    BY <1>4, <1>5, <2>1
<1>8. y < Pow2[n] /\ a < Pow2[n] /\ p < Pow2[n]
  <2>1. p < Pow2[n]
    BY <1>2
  <2>2. a <= z
    <3> DEFINE m == z % p
    <3>1. z - m = a /\ m \in Nat
      BY <1>1, <1>2, <1>6
    <3> HIDE DEF a, m, z
    <3> QED
      BY <1>1, <1>5, <3>1
  <2>3. y < Pow2[n]
    <3>1. y \div Pow2[n] = z \div Pow2[n]
      <4> DEFINE g == h + 1
      <4>1. g \in Nat /\ g <= n /\ y \div Pow2[g] = z \div Pow2[g]
        BY <1>1, <1>7
      <4> HIDE DEF g, y, z
      <4> QED
        BY <1>1, <1>5, <4>1, SameQuotient
    <3>2. z \div Pow2[n] = 0
      <4> HIDE DEF z
      <4> QED
        BY <1>1, NoBits, n <= n
    <3> HIDE DEF y
    <3> QED
      BY <1>1, <1>5, <3>1, <3>2, BelowPower
  <2> HIDE DEF a, y, z, p
  <2> QED
    BY <1>1, <1>2, <1>5, <2>1, <2>2, <2>3
<1>9. ASSUME NEW b \in 0 .. n - 1
      PROVE  Bit(y, b) <=> (Bit(a, b) # Bit(p, b))
  <2>0. b \in Nat
    BY <1>1
  <2>1. \A c, d : Bit(c, d) \in BOOLEAN
    BY DEF Bit
  <2>2. p * 1 = p /\ p \div p = 1 /\ (\A c \in Nat : c < h => ~Bit(p, c))
    <3>1. p * 1 = p
      BY <1>2
    <3>2. (p * 1) \div p = 1 /\ (\A c \in Nat : c < h => ~Bit(p * 1, c))
      BY <1>1, ProductBits, 1 \in Nat
    <3> QED
      BY <3>1, <3>2
  <2>3. CASE b < h
    <3>1. ~Bit(y, b) /\ ~Bit(a, b) /\ ~Bit(p, b)
      BY <1>5, <2>0, <2>2, <2>3
    <3> QED
      BY <2>1, <3>1, Zenon
  <2>4. CASE b = h
    <3>1. Bit(p, b)
      BY <2>2, <2>4 DEF Bit
    <3>2. Bit(a, b) <=> q % 2 = 1
      BY <1>5, <2>4 DEF Bit
    <3>3. Bit(y, b) <=> r % 2 = 1
      BY <1>5, <2>4 DEF Bit
    <3>4. q % 2 = f
      <4> HIDE DEF q, e, f
      <4> QED
        BY <1>3
    <3>5. Bit(y, b) <=> ~Bit(a, b)
      <4> HIDE DEF r, q, f, y, a
      <4> QED
        BY <1>3, <1>4, <3>2, <3>3, <3>4
    <3> HIDE DEF y, a, p
    <3> QED
      BY <2>1, <3>1, <3>5, Zenon
  <2>5. CASE b > h
    <3>1. h + 1 <= b /\ h <= b
      BY <1>1, <2>0, <2>5
    <3>2. ~Bit(p, b)
      <4>1. p < Pow2[h + 1]
        BY <1>2
      <4> HIDE DEF p
      <4> QED
        BY <1>1, <1>2, <2>0, <3>1, <4>1, NoBits
    <3>3. Bit(y, b) <=> Bit(z, b)
      <4> DEFINE g == h + 1
      <4>1. g \in Nat /\ g <= b /\ y \div Pow2[g] = z \div Pow2[g]
        BY <1>1, <1>7, <3>1
      <4> HIDE DEF g, y, z
      <4> QED
        BY <1>1, <1>5, <2>0, <4>1, SameQuotient
    <3>4. Bit(a, b) <=> Bit(z, b)
      <4>1. a \div Pow2[h] = z \div Pow2[h]
        BY <1>5
      <4> HIDE DEF a, z
      <4> QED
        BY <1>1, <1>5, <2>0, <3>1, <4>1, SameQuotient
    <3> HIDE DEF y, a, p, z
    <3> QED
      BY <2>1, <3>2, <3>3, <3>4, Zenon
  <2> QED
    BY <1>1, <2>0, <2>3, <2>4, <2>5
<1>10. SubStart(index, u, h) = y
  <2> DEFINE s == XorIndex(a, p)
  <2>1. a \in 0 .. Pow2[VOLE_MAX_K] - 1 /\ p \in 0 .. Pow2[VOLE_MAX_K] - 1 /\ y \in 0 .. Pow2[n] - 1
    <3> HIDE DEF a, p, y
    <3> QED
      BY <1>1, <1>2, <1>5, <1>8
  <2>2. s \in 0 .. Pow2[n] - 1 /\ \A b \in 0 .. n - 1 : Bit(s, b) <=> (Bit(a, b) # Bit(p, b))
    <3> HIDE DEF a, p, n
    <3> QED
      BY <1>1, <1>8, <2>1, XorBits
  <2>3. \A b \in 0 .. n - 1 : Bit(s, b) <=> Bit(y, b)
    <3>1. \A c, d : Bit(c, d) \in BOOLEAN
      BY DEF Bit
    <3> HIDE DEF s, y, a, p
    <3> QED
      BY <1>9, <2>2, <3>1, Zenon
  <2>4. s = y
    <3> HIDE DEF s, y, n
    <3> QED
      BY <1>1, <2>1, <2>2, <2>3, SameBits
  <2> QED
    BY <1>6, <2>4, Zenon DEF SubStart
<1>11. ASSUME NEW x \in Nat
       PROVE  (x \div Pow2[h + 1] = e /\ x \div p # q) <=> x \div p = r
  <2> DEFINE v == x \div p
             w == x \div Pow2[h + 1]
             g == IF Bit(x, h) THEN 1 ELSE 0
  <2>1. v \in Nat /\ w \in Nat /\ w = v \div 2 /\ v = 2 * w + g /\ g \in 0 .. 1
    <3>1. g \in 0 .. 1
      OBVIOUS
    <3>2. v \in Nat /\ w = v \div 2 /\ v = 2 * w + g
      BY <1>1, Bits, Zenon
    <3>3. w \in Nat
      <4> DEFINE k == h + 1
      <4>1. k \in Nat
        BY <1>1
      <4> HIDE DEF k
      <4>2. x \div Pow2[k] \in Nat
        BY <4>1, Bits
      <4> QED
        BY <4>2 DEF k
    <3> QED
      BY <3>1, <3>2, <3>3, Zenon
  <2> HIDE DEF v, w, g, e, q, f, p, r
  <2>2. (w = e /\ v # q) <=> v = r
    <3>1. r = 2 * e + (1 - f)
      BY DEF r
    <3> QED
      BY <1>3, <2>1, <3>1
  <2> QED
    BY <2>2 DEF v, w
<1>12. ASSUME NEW x \in Nat
       PROVE  /\ x \div p = r <=> x \in y .. y + p - 1
              /\ x \div p = r => x % p = x - y
  <2> DEFINE v == x \div p
             m == x % p
  <2>1. v \in Nat /\ m \in 0 .. p - 1 /\ x = p * v + m
    BY <1>2
  <2>2. ASSUME v = r PROVE x \in y .. y + p - 1 /\ m = x - y
    <3>1. x = y + m
      BY <2>1, <2>2
    <3> HIDE DEF y, m, v, p
    <3> QED
      BY <1>2, <1>5, <2>1, <3>1
  <2>3. ASSUME x \in y .. y + p - 1 PROVE v = r
    <3> DEFINE c == x - y
    <3>1. c \in 0 .. p - 1 /\ y + c = x
      <4> HIDE DEF y, p
      <4> QED
        BY <1>2, <1>5, <2>3
    <3> HIDE DEF c, r
    <3>2. (p * r + c) \div p = r
      BY <1>2, <1>4, <3>1, QuotientUnique
    <3> QED
      BY <3>1, <3>2
  <2> QED
    BY <2>2, <2>3
<1>13. y + p <= Pow2[n]
  <2> DEFINE m == n - h
             c == Pow2[m]
  <2>1. m \in Nat /\ h \in 0 .. n
    BY <1>1
  <2>2. c \in Nat /\ Pow2[n] = c * p /\ c * p = p * c
    BY <1>1, <1>2, <2>1, Pow2Split
  <2> HIDE DEF r, c, m
  <2>3. r < c
    <3>1. SUFFICES ASSUME c <= r PROVE FALSE
      BY <1>4, <2>2
    <3>2. p * c <= p * r
      BY <1>2, <1>4, <2>2, <3>1, MulMonotone
    <3> QED
      BY <1>2, <1>4, <1>8, <2>2, <3>2
  <2>4. p * r + p <= p * c
    BY <1>2, <1>4, <2>2, <2>3, MulMonotone
  <2> QED
    BY <2>2, <2>4
<1>14. y \in Leaf(u)
  <2> HIDE DEF y
  <2> QED
    BY <1>5, <1>8, LeafRange
<1>15. Sub(index, u, h) = y .. y + p - 1
  <2>1. ASSUME NEW x \in Sub(index, u, h) PROVE x \in y .. y + p - 1
    <3>1. x \in Nat /\ x \div Pow2[h + 1] = e /\ x \div p # q
      BY LeafRange DEF Sub
    <3> HIDE DEF y, e, q, p, r
    <3> QED
      BY <1>11, <1>12, <3>1
  <2>2. ASSUME NEW x \in y .. y + p - 1 PROVE x \in Sub(index, u, h)
    <3>1. x \in Nat /\ x \in Leaf(u)
      <4> HIDE DEF y, p
      <4> QED
        BY <1>2, <1>5, <1>13, <2>2, LeafRange, SMTT(30)
    <3>2. x \div Pow2[h + 1] = e /\ x \div p # q
      <4> HIDE DEF y, e, q, p, r
      <4> QED
        BY <1>11, <1>12, <2>2, <3>1
    <3> QED
      BY <3>1, <3>2 DEF Sub
  <2> HIDE DEF y, p
  <2> QED
    BY <2>1, <2>2
<1>16. \A x \in Sub(index, u, h) : x % p = x - y
  <2> SUFFICES ASSUME NEW x \in Sub(index, u, h) PROVE x % p = x - y
    OBVIOUS
  <2>1. x \in Nat /\ x \in y .. y + p - 1
    BY <1>15, LeafRange DEF Sub
  <2> HIDE DEF y, p, r
  <2> QED
    BY <1>12, <2>1
<1>17. ASSUME NEW x \in Nat PROVE p * x <= y \/ p * x >= y + p
  <2>1. CASE x <= r
    <3> HIDE DEF r, p
    <3> QED
      BY <1>2, <1>4, <2>1, MulMonotone
  <2>2. CASE ~(x <= r)
    <3> HIDE DEF r, p
    <3>1. r < x
      BY <1>4, <2>2
    <3> QED
      BY <1>2, <1>4, <3>1, MulMonotone
  <2> QED
    BY <2>1, <2>2
<1> HIDE DEF y, p
<1> QED
  BY <1>1, <1>2, <1>5, <1>10, <1>13, <1>14, <1>15, <1>16, <1>17 DEF p

(* Each leaf but the hidden one is in exactly one of the subtrees.           *)
LEMMA SubOfLeaf ==
  ASSUME NEW index, IsIndex(index), NEW u \in Vec, NEW x \in Leaf(u), x # index[u]
  PROVE  \E h \in 0 .. Depth(u) - 1 : x \in Sub(index, u, h)
<1> DEFINE n == Depth(u)
           z == index[u]
           A == {k \in Nat : x \div Pow2[k] = z \div Pow2[k]}
<1>1. /\ n \in Nat /\ x \in Nat /\ z \in Nat /\ x < Pow2[n] /\ z < Pow2[n] /\ Pow2[n] \in Nat
  BY LeafRange DEF IsIndex
<1>2. n \in A
  <2>1. x \div Pow2[n] = 0 /\ z \div Pow2[n] = 0
    <3> HIDE DEF z, n
    <3> QED
      BY <1>1, NoBits, n <= n
  <2> QED
    BY <1>1, <2>1
<1>3. 0 \notin A
  <2>1. \A y \in Nat : y \div 1 = y
    OBVIOUS
  <2> QED
    BY <1>1, <2>1, Pow2Values
<1> HIDE DEF A
<1>4. PICK k \in A : \A j \in A : k <= j
  <2>1. A \in SUBSET Nat
    BY DEF A
  <2> QED
    BY <1>2, <2>1, LeastElement
<1>5. k \in Nat /\ k # 0 /\ k <= n /\ k - 1 \in Nat /\ k - 1 \notin A /\ (k - 1) + 1 = k
      /\ k - 1 \in 0 .. n - 1
  <2>1. k \in Nat
    BY DEF A
  <2>2. k # 0 /\ k <= n
    BY <1>2, <1>3, <1>4
  <2>3. k - 1 \notin A
    BY <1>4, <2>1
  <2> QED
    BY <1>1, <2>1, <2>2, <2>3
<1> DEFINE h == k - 1
<1>6. x \div Pow2[h + 1] = z \div Pow2[h + 1] /\ x \div Pow2[h] # z \div Pow2[h]
  BY <1>4, <1>5 DEF A
<1>7. h \in 0 .. Depth(u) - 1
  BY <1>5
<1> HIDE DEF h
<1> QED
  BY <1>6, <1>7 DEF Sub

(* No leaf is in two subtrees of a vector, and the hidden one in none.      *)
LEMMA SubApart ==
  ASSUME NEW index, IsIndex(index), NEW u \in Vec, NEW h \in Nat, NEW x \in Sub(index, u, h)
  PROVE  /\ x \in Leaf(u) /\ x \in Nat /\ x # index[u]
         /\ \A k \in Nat : h < k => x \div Pow2[k] = index[u] \div Pow2[k]
         /\ \A k \in Nat : k <= h => x \div Pow2[k] # index[u] \div Pow2[k]
         /\ \A k \in Nat : x \in Sub(index, u, k) => k = h
<1> DEFINE z == index[u]
<1>1. /\ x \in Leaf(u) /\ x \in Nat /\ z \in Nat /\ h + 1 \in Nat
      /\ x \div Pow2[h + 1] = z \div Pow2[h + 1] /\ x \div Pow2[h] # z \div Pow2[h]
  BY LeafRange DEF IsIndex, Sub
<1> HIDE DEF z
<1>2. x # z
  BY <1>1
<1>3. ASSUME NEW k \in Nat, h < k PROVE x \div Pow2[k] = z \div Pow2[k]
  <2> DEFINE g == h + 1
  <2>1. g \in Nat /\ g <= k /\ x \div Pow2[g] = z \div Pow2[g]
    BY <1>1, <1>3
  <2> HIDE DEF g
  <2> QED
    BY <1>1, <2>1, SameQuotient
<1>4. ASSUME NEW k \in Nat, k <= h PROVE x \div Pow2[k] # z \div Pow2[k]
  BY <1>1, <1>4, SameQuotient
<1>5. ASSUME NEW k \in Nat, x \in Sub(index, u, k) PROVE k = h
  <2>1. x \div Pow2[k + 1] = z \div Pow2[k + 1] /\ x \div Pow2[k] # z \div Pow2[k] /\ k + 1 \in Nat
    BY <1>5 DEF Sub, z
  <2>2. ~(h < k)
    BY <1>3, <2>1
  <2>3. ~(k + 1 <= h)
    BY <1>4, <2>1
  <2> QED
    BY <2>2, <2>3
<1> QED
  BY <1>1, <1>2, <1>3, <1>4, <1>5 DEF z

---------------------------------------------------------------------------
(* What the verifier is to write: for a leaf of a subtree what derives from   *)
(* the seed that the opening has for the subtree.                            *)
Seed(o, u, h) == o[OpeningStart(u) + (Depth(u) - 1 - h)]

VValue(o, u, h, x) == Derive(Seed(o, u, h), h, x % Pow2[h])

Put(l, w, index, o, u, h, x) ==
  /\ l[LPlace(index, u, x)] = LeafPrg(VValue(o, u, h, x))
  /\ w[HPlace(u, x)] = LeafPrg(VValue(o, u, h, x))

(* The outputs have changed only where the leaves A of vector u go.           *)
VKept(l, w, l2, w2, index, u, A) ==
  \A v \in Vec : \A y \in Leaf(v) : v # u \/ y \notin A =>
    /\ l2[LPlace(index, v, y)] = l[LPlace(index, v, y)]
    /\ w2[HPlace(v, y)] = w[HPlace(v, y)]

VFrameInv(fr, index, u, h) ==
  /\ fr.base = FirstLeaf(u)
  /\ fr.start = SubStart(index, u, h) + TREE_CHUNK_SIZE * fr.chunk
  /\ fr.perm = PermuteInv(XorIndex(fr.start, index[u]))

(* A known leaf is what its key in the opening derives.                     *)
LEMMA KnownLeaf ==
  ASSUME NEW o, NEW f, NEW u \in Vec, NEW h \in 0 .. Depth(u) - 1, NEW j \in 0 .. Pow2[h] - 1,
         NEW nodes, VKnown(o, f, nodes), VD(SubRoot(u, h), h) + j \in nodes
  PROVE  f[VD(SubRoot(u, h), h) + j] = Derive(Seed(o, u, h), h, j)
<1> DEFINE r == SubRoot(u, h)
           x == VD(r, h) + j
<1>1. h \in Nat /\ r \in 0 .. T - 1
  BY RootPlace, SubtreeCount
<1>2. Derived(o, x, f[x])
  BY DEF VKnown
<1>3. ReorderedKeys[r] = OpeningStart(u) + (Depth(u) - 1 - h)
  BY RootKey
<1>4. f[x] = Derive(o[ReorderedKeys[r]], h, j)
  <2> HIDE DEF r
  <2> QED
    BY <1>1, <1>2, Zenon DEF Derived
<1> QED
  BY <1>3, <1>4, Zenon DEF Seed

LEMMA VChunkSizes ==
  ASSUME LEAF_CHUNK_SIZE_SHIFT <= TREE_CHUNK_SIZE_SHIFT
  PROVE  MAX_CHUNK_SIZE = TREE_CHUNK_SIZE /\ V!Ratio = 1
<1>1. MAX_CHUNK_SIZE = TREE_CHUNK_SIZE /\ S!Ratio = 1
  BY ChunkSizes
<1>2. V!Ratio = S!Ratio
  BY SameLayout, SameLayoutV DEF V!Ratio, S!Ratio
<1> QED
  BY <1>1, <1>2

(* Where the leaves of a subtree are among its nodes.                        *)
LEMMA SubWalk ==
  ASSUME NEW u \in Vec, NEW h \in TREE_CHUNK_SIZE_SHIFT .. Depth(u) - 1
  PROVE  /\ h \in 0 .. Depth(u) - 1 /\ h - TREE_CHUNK_SIZE_SHIFT \in Nat
         /\ SubRoot(u, h) \in Nat
         /\ TREE_CHUNK_SIZE_SHIFT + (h - TREE_CHUNK_SIZE_SHIFT) = h
         /\ Walkable(SubRoot(u, h), h - TREE_CHUNK_SIZE_SHIFT)
         /\ Pow2[h] = TREE_CHUNK_SIZE * Pow2[h - TREE_CHUNK_SIZE_SHIFT]
<1> DEFINE k == TREE_CHUNK_SIZE_SHIFT
           n == h - k
<1>1. k \in Nat /\ Depth(u) \in Nat /\ TREE_CHUNK_SIZE = Pow2[k]
  BY TreeSizes, DepthRange
<1>2. h \in 0 .. Depth(u) - 1 /\ n \in Nat /\ k + n = h
  BY <1>1
<1>3. h <= VOLE_MIN_K /\ SubRoot(u, h) \in Nat /\ SubRoot(u, h) < Limit(h)
  BY <1>2, RootPlace
<1>4. Pow2[k + n] = Pow2[k] * Pow2[n]
  <2> HIDE DEF n, k
  <2> QED
    BY <1>1, <1>2, Pow2Sum
<1> QED
  BY <1>1, <1>2, <1>3, <1>4 DEF Walkable

(* Memory of the outputs.                                                    *)
IsOut(l) == l = [s \in Slot |-> l[s]]

(* A round of leaves of a subtree that is walked.                           *)
LEMMA VEndOutputs ==
  ASSUME LEAF_CHUNK_SIZE_SHIFT <= TREE_CHUNK_SIZE_SHIFT,
         NEW index, IsIndex(index), NEW o, IsOpening(o), NEW u \in Vec,
         NEW h \in TREE_CHUNK_SIZE_SHIFT .. Depth(u) - 1,
         IsFrame(v_frame), VFrameInv(v_frame, index, u, h),
         VWalkInv(o, v_forest, v_frame, SubRoot(u, h), h - TREE_CHUNK_SIZE_SHIFT),
         IsOut(v_leaves), IsOut(v_hashed),
         \A x \in Sub(index, u, h) : x < v_frame.start => Put(v_leaves, v_hashed, index, o, u, h, x),
         V!EndChunk
  PROVE  /\ IsOut(v_leaves') /\ IsOut(v_hashed')
         /\ VKept(v_leaves, v_hashed, v_leaves', v_hashed', index, u, Sub(index, u, h))
         /\ v_frame'.busy =>
              /\ VFrameInv(v_frame', index, u, h)
              /\ \A x \in Sub(index, u, h) : x < v_frame'.start =>
                   Put(v_leaves', v_hashed', index, o, u, h, x)
         /\ ~v_frame'.busy =>
              \A x \in Sub(index, u, h) : Put(v_leaves', v_hashed', index, o, u, h, x)
<1> DEFINE k == TREE_CHUNK_SIZE_SHIFT
           n == h - k
           c == v_frame.chunk
           w == TREE_CHUNK_SIZE
           p == Pow2[n]
           z == Pow2[h]
           root == SubRoot(u, h)
           a == VD(root, h)
           s0 == SubStart(index, u, h)
           d == w * c
           s == s0 + d
<1>1. /\ n \in Nat /\ k + n = h /\ root \in Nat /\ h \in 0 .. Depth(u) - 1 /\ h \in Nat
      /\ z = w * p /\ w \in Nat \ {0} /\ p \in Nat /\ z \in Nat /\ a \in Nat /\ k \in Nat
  <2>1. n \in Nat /\ k + n = h /\ root \in Nat /\ h \in 0 .. Depth(u) - 1 /\ z = w * p
    BY SubWalk
  <2>2. h \in Nat /\ k \in Nat /\ w \in Nat \ {0}
    BY <2>1, DepthRange, TreeSizes
  <2>3. a \in Nat /\ p \in Nat /\ z \in Nat
    <3>1. a \in Nat
      <4> HIDE DEF root
      <4> QED
        BY <2>1, <2>2, VNat
    <3>2. p \in Nat /\ z \in Nat
      <4> HIDE DEF n
      <4> QED
        BY <2>1, <2>2, Pow2Values DEF p
    <3> QED
      BY <3>1, <3>2
  <2> QED
    BY <2>1, <2>2, <2>3
<1>2. /\ s0 \in Nat /\ s0 \in Leaf(u) /\ s0 + z <= Pow2[Depth(u)]
      /\ Sub(index, u, h) = s0 .. s0 + z - 1
      /\ \A x \in Sub(index, u, h) : x % z = x - s0
  BY <1>1, SubLeaves
<1>3. MAX_CHUNK_SIZE = w /\ V!Ratio = 1 /\ V!MAX_CHUNK_SIZE = w /\ V!TREE_CHUNK_SIZE = w
  BY VChunkSizes, SameLayoutV
<1>4. /\ v_frame.height = n /\ v_frame.d = 0
      /\ v_frame.i \in 0 .. p /\ c \in 0 .. v_frame.i /\ v_frame.i <= c + 1 /\ c < p
      /\ ~(v_frame.i < c + 1 /\ v_frame.i < p)
  <2>1. v_frame.d = 0 /\ ~(v_frame.i < v_frame.chunk + V!Ratio /\ v_frame.i < V!Pow2[v_frame.height])
    BY DEF V!EndChunk, V!MorePaths
  <2>2. /\ v_frame.height = n /\ v_frame.i \in 0 .. p /\ c \in 0 .. v_frame.i
        /\ v_frame.i <= c + V!Ratio /\ c < p
    BY DEF VWalkInv
  <2>3. V!Pow2[v_frame.height] = p
    BY <2>2, SamePow2V, Zenon
  <2> HIDE DEF n, p, c
  <2> QED
    BY <1>3, <2>1, <2>2, <2>3 DEF c
<1>5. c \in Nat /\ v_frame.i = c + 1 /\ v_frame.i - 1 = c /\ v_frame.i > 0 /\ c + 1 <= p
  <2> DEFINE i == v_frame.i
  <2>1. p \in Nat /\ i \in 0 .. p /\ c \in 0 .. i /\ i <= c + 1 /\ c < p /\ ~(i < c + 1 /\ i < p)
    BY <1>1, <1>4
  <2> HIDE DEF c, p, i
  <2>2. c \in Nat /\ i \in Nat
    BY <2>1
  <2>3. i = c + 1
    BY <2>1, <2>2
  <2>4. i - 1 = c /\ i > 0 /\ c + 1 <= p
    BY <2>1, <2>2, <2>3
  <2> QED
    BY <2>2, <2>3, <2>4 DEF i
<1>6. v_frame.ancestor = a + d /\ VKnown(o, v_forest, v_frame.ancestor .. v_frame.ancestor + w - 1)
  <2>1. PICK q \in 0 .. Pow2[n - 0] - 1 :
          /\ c = q * Pow2[0]
          /\ v_frame.ancestor = VChunkAt(root, n - 0, q)
          /\ VKnown(o, v_forest, v_frame.ancestor .. v_frame.ancestor + w - 1)
    BY <1>4, <1>5 DEF VWalkInv
  <2>2. n - 0 = n /\ Pow2[0] = 1 /\ q \in Nat
    <3>1. n - 0 = n /\ Pow2[0] = 1
      BY <1>1, Pow2Values
    <3>2. Pow2[n - 0] \in Nat
      BY <1>1, <3>1
    <3> QED
      BY <3>1, <3>2
  <2>3. q = c
    BY <2>1, <2>2
  <2>4. VChunkAt(root, n, c) = a + d
    BY <1>1, Zenon DEF VChunkAt
  <2> QED
    BY <2>1, <2>2, <2>3, <2>4, Zenon
<1> DEFINE blocks == [x \in 0 .. w - 1 |-> v_forest[v_frame.ancestor + x]]
<1>7. /\ d \in Nat /\ d + w = w * (c + 1) /\ d + w <= z
      /\ c + 1 < p => d + w < z
      /\ c + 1 = p => d + w = z
  <2>1. w * (c + 1) = d + w /\ d \in Nat
    BY <1>1, <1>5
  <2>2. w * (c + 1) <= w * p
    BY <1>1, <1>5, MulMonotone
  <2>3. c + 1 < p => w * (c + 1) + w <= w * p
    BY <1>1, <1>5, MulMonotone
  <2>4. c + 1 = p => d + w = z
    BY <1>1, <2>1
  <2> HIDE DEF d, z, p
  <2> DEFINE y == w * (c + 1)
  <2>5. y = d + w /\ d \in Nat /\ w \in Nat \ {0} /\ y <= z /\ (c + 1 < p => y + w <= z) /\ z \in Nat
    BY <1>1, <2>1, <2>2, <2>3
  <2> HIDE DEF y
  <2>6. d + w <= z /\ (c + 1 < p => d + w < z)
    BY <2>5
  <2> QED
    BY <2>1, <2>4, <2>6
<1>8. /\ s \in Nat /\ s + w <= s0 + z /\ s + w <= Pow2[Depth(u)] /\ s \in Leaf(u)
      /\ s .. s + w - 1 \subseteq Sub(index, u, h)
      /\ \A x \in s .. s + w - 1 : x - s \in 0 .. w - 1 /\ d + (x - s) \in 0 .. z - 1 /\ x % z = d + (x - s)
      /\ c + 1 < p => s + w < s0 + z /\ s + w \in Leaf(u)
      /\ c + 1 = p => s + w = s0 + z
  <2> DEFINE top == Pow2[Depth(u)]
  <2>1. top \in Nat /\ Leaf(u) = 0 .. top - 1 /\ s0 + z <= top
    BY <1>2, LeafRange
  <2> DEFINE j == c + 1
             t == s
  <2>0. /\ d \in Nat /\ z \in Nat /\ s0 \in Nat /\ top \in Nat /\ w \in Nat \ {0} /\ t = s0 + d
        /\ d + w <= z /\ (j < p => d + w < z) /\ (j = p => d + w = z) /\ s0 + z <= top
    BY <1>1, <1>2, <1>7, <2>1
  <2> HIDE DEF d, z, p, s0, top, w, c, j, t
  <2>2. t \in Nat /\ t + w <= s0 + z /\ t + w <= top /\ t < top
    BY <2>0
  <2>3. \A x \in t .. t + w - 1 : x - t \in 0 .. w - 1 /\ d + (x - t) \in 0 .. z - 1 /\ x - s0 = d + (x - t)
                                  /\ x \in s0 .. s0 + z - 1
    BY <2>0, <2>2
  <2>4. t .. t + w - 1 \subseteq Sub(index, u, h)
    <3>1. Sub(index, u, h) = s0 .. s0 + z - 1
      BY <1>2, Zenon
    <3> QED
      BY <2>3, <3>1, Zenon
  <2>5. \A x \in t .. t + w - 1 : x % z = d + (x - t)
    <3>1. \A x \in Sub(index, u, h) : x % z = x - s0
      BY <1>2, Zenon
    <3> QED
      BY <2>3, <2>4, <3>1, Zenon
  <2>6. (j < p => t + w < s0 + z /\ t + w < top /\ t + w \in Nat) /\ (j = p => t + w = s0 + z)
    BY <2>0, <2>2
  <2>7. t \in Leaf(u) /\ (j < p => t + w \in Leaf(u))
    BY <2>1, <2>2, <2>6
  <2> QED
    BY <2>2, <2>3, <2>4, <2>5, <2>6, <2>7 DEF top, j, t
<1>9. ASSUME NEW x \in s .. s + w - 1 PROVE blocks[x - s] = VValue(o, u, h, x)
  <2> DEFINE j == d + (x - s)
             y == x - s
  <2>1. y \in 0 .. w - 1 /\ j \in 0 .. z - 1 /\ x % z = j
    BY <1>8, <1>9
  <2>2. v_frame.ancestor + y = a + j /\ v_frame.ancestor + y \in v_frame.ancestor .. v_frame.ancestor + w - 1
    <3> HIDE DEF a, d, y, w
    <3>1. a \in Nat /\ d \in Nat /\ y \in 0 .. w - 1 /\ w \in Nat /\ v_frame.ancestor = a + d /\ j = d + y
      BY <1>1, <1>6, <1>7, <2>1 DEF y
    <3> HIDE DEF j
    <3> QED
      BY <3>1
  <2>3. blocks[y] = v_forest[a + j]
    <3> HIDE DEF y, j, a, w
    <3>1. blocks[y] = v_forest[v_frame.ancestor + y]
      BY <2>1
    <3> QED
      BY <2>2, <3>1
  <2>4. v_forest[a + j] = Derive(Seed(o, u, h), h, j)
    <3>1. a + j \in v_frame.ancestor .. v_frame.ancestor + w - 1
      <4> HIDE DEF a, j, y, w
      <4> QED
        BY <2>2
    <3> DEFINE nodes == v_frame.ancestor .. v_frame.ancestor + w - 1
    <3> HIDE DEF j, nodes
    <3>2. VKnown(o, v_forest, nodes) /\ a + j \in nodes
      BY <1>6, <3>1 DEF nodes
    <3> QED
      BY <1>1, <2>1, <3>2, KnownLeaf
  <2> HIDE DEF j
  <2> QED
    BY <2>1, <2>3, <2>4 DEF VValue
<1>10. /\ v_frame.base = FirstLeaf(u) /\ v_frame.start = s
       /\ v_frame.perm = PermuteInv(XorIndex(s, index[u]))
  BY DEF VFrameInv
<1>11. PICK g : /\ IsWrite(g, w, v_leaves, v_hashed, blocks, s, PermuteInv(XorIndex(s, index[u])), FirstLeaf(u))
                /\ V!WriteLeaves(blocks, s, PermuteInv(XorIndex(s, index[u])), FirstLeaf(u)) = g[w]
  <2> DEFINE q0 == PermuteInv(XorIndex(s, index[u]))
             m  == MAX_CHUNK_SIZE
  <2> HIDE DEF blocks, s, q0
  <2>1. \E g : /\ IsWrite(g, m, v_leaves, v_hashed, blocks, s, q0, FirstLeaf(u))
                /\ V!WriteLeaves(blocks, s, q0, FirstLeaf(u)) = g[m]
    BY VWriteValue
  <2>2. m = w
    BY <1>3
  <2> HIDE DEF m, w
  <2> QED
    BY <2>1, <2>2, Zenon DEF q0
<1>12. VWrote(v_leaves, v_hashed, g[w], index, u, s, s + w, blocks)
  <2> HIDE DEF blocks, s
  <2>1. w \in Nat
    BY <1>1
  <2> HIDE DEF w
  <2> QED
    BY <1>8, <1>11, <2>1, VWriteAll DEF IsOut
<1> DEFINE out == g[w]
<1>13. /\ v_leaves' = out.leaves /\ v_hashed' = out.hashed
       /\ v_frame' = [v_frame EXCEPT !.perm = out.perm, !.chunk = c + 1, !.i = c + 1,
                                     !.start = v_frame.start + w, !.busy = c + 1 < p]
  <2> HIDE DEF blocks
  <2> DEFINE first == v_frame.ancestor + V!TREE_CHUNK_SIZE - V!MAX_CHUNK_SIZE
             got   == [x \in 0 .. V!MAX_CHUNK_SIZE - 1 |-> v_forest[first + x]]
             wrote == V!WriteLeaves(got, v_frame.start, v_frame.perm, v_frame.base)
             full  == c + V!Ratio <= V!Pow2[v_frame.height]
  <2>1. /\ v_leaves' = IF full THEN wrote.leaves ELSE v_leaves
        /\ v_hashed' = IF full THEN wrote.hashed ELSE v_hashed
        /\ v_frame' = [v_frame EXCEPT !.perm = IF full THEN wrote.perm ELSE v_frame.perm,
                                  !.chunk = c + V!Ratio, !.i = c + V!Ratio,
                                  !.start = v_frame.start + V!TREE_CHUNK_SIZE,
                                  !.busy = c + V!Ratio < V!Pow2[v_frame.height]]
    BY DEF V!EndChunk
  <2>2. first = v_frame.ancestor
    <3>1. v_frame.ancestor \in Nat
      <4> HIDE DEF a, d
      <4> QED
        BY <1>1, <1>6, <1>7
    <3>2. \A x \in Nat, y \in Nat : x + y - y = x
      OBVIOUS
    <3> QED
      BY <1>1, <1>3, <3>1, <3>2
  <2>3. got = blocks
    <3> HIDE DEF first
    <3> QED
      BY <1>3, <2>2, Zenon DEF blocks
  <2>4. wrote = out
    <3> HIDE DEF got, s
    <3> QED
      BY <1>10, <1>11, <2>3, Zenon
  <2>5. V!Pow2[v_frame.height] = p /\ c + V!Ratio = c + 1
    BY <1>3, <1>4, SamePow2V, Zenon
  <2> HIDE DEF wrote
  <2>6. full
    BY <1>5, <2>5, Zenon
  <2> HIDE DEF full, out
  <2>7. v_leaves' = out.leaves /\ v_hashed' = out.hashed
    BY <2>1, <2>4, <2>6
  <2>8. (IF full THEN wrote.perm ELSE v_frame.perm) = out.perm
    BY <2>4, <2>6
  <2> QED
    BY <1>3, <2>1, <2>5, <2>7, <2>8, Zenon
<1>14. /\ v_frame'.busy = (c + 1 < p) /\ v_frame'.base = v_frame.base /\ v_frame'.chunk = c + 1
       /\ v_frame'.start = s + w /\ v_frame'.perm = out.perm
  <2> DEFINE j == c + 1
             more == j < p
             next == s + w
             fr == v_frame'
  <2>1. fr = [v_frame EXCEPT !.perm = out.perm, !.chunk = j, !.i = j, !.start = next, !.busy = more]
    BY <1>10, <1>13, Zenon
  <2> HIDE DEF j, more, next, fr, out
  <2>2. PICK r : r = fr
    OBVIOUS
  <2>3. r = [v_frame EXCEPT !.perm = out.perm, !.chunk = j, !.i = j, !.start = next, !.busy = more]
    BY <2>1, <2>2, Zenon
  <2>4. r = [busy |-> more, height |-> v_frame.height, root |-> v_frame.root,
             base |-> v_frame.base, chunk |-> j, i |-> j, ancestor |-> v_frame.ancestor, d |-> v_frame.d,
             start |-> next, perm |-> out.perm]
    BY <2>3 DEF IsFrame
  <2>5. r.busy = more /\ r.base = v_frame.base /\ r.chunk = j /\ r.start = next /\ r.perm = out.perm
    BY <2>4
  <2> QED
    BY <2>2, <2>5, Zenon DEF j, more, next, fr
<1> HIDE DEF out, blocks
<1>15. /\ IsOut(v_leaves') /\ IsOut(v_hashed')
       /\ s + w \in Leaf(u) => out.perm = PermuteInv(XorIndex(s + w, index[u]))
       /\ \A y \in s .. (s + w) - 1 :
            /\ v_leaves'[LPlace(index, u, y)] = LeafPrg(blocks[y - s])
            /\ v_hashed'[HPlace(u, y)] = LeafPrg(blocks[y - s])
       /\ VKept(v_leaves, v_hashed, v_leaves', v_hashed', index, u, s .. (s + w) - 1)
  <2>1. VWrote(v_leaves, v_hashed, out, index, u, s, s + w, blocks)
    BY <1>12, Zenon DEF out
  <2> HIDE DEF s, w
  <2> QED
    BY <1>13, <2>1, Zenon DEF VWrote, VKept, IsOut
<1>16. VKept(v_leaves, v_hashed, v_leaves', v_hashed', index, u, Sub(index, u, h))
  <2>1. s .. (s + w) - 1 \subseteq Sub(index, u, h)
    <3> HIDE DEF s
    <3>1. s .. (s + w) - 1 = s .. s + w - 1
      BY <1>1, <1>8
    <3> QED
      BY <1>8, <3>1
  <2> HIDE DEF s, w
  <2> QED
    BY <1>15, <2>1, Zenon DEF VKept
<1>17. ASSUME NEW x \in Sub(index, u, h), x < s + w
       PROVE  Put(v_leaves', v_hashed', index, o, u, h, x)
  <2>1. x \in Nat /\ x \in Leaf(u)
    <3> HIDE DEF s0, z
    <3> QED
      BY <1>1, SubApart
  <2>2. CASE x < s
    <3>1. Put(v_leaves, v_hashed, index, o, u, h, x)
      BY <1>10, <2>2
    <3>2. x \notin s .. (s + w) - 1
      <4> HIDE DEF s
      <4> QED
        BY <1>1, <1>8, <2>1, <2>2
    <3>3. /\ v_leaves'[LPlace(index, u, x)] = v_leaves[LPlace(index, u, x)]
          /\ v_hashed'[HPlace(u, x)] = v_hashed[HPlace(u, x)]
      <4> HIDE DEF s, w
      <4> QED
        BY <1>15, <2>1, <3>2, Zenon DEF VKept
    <3> QED
      BY <3>1, <3>3, Zenon DEF Put
  <2>3. CASE ~(x < s)
    <3>1. x \in s .. (s + w) - 1 /\ x \in s .. s + w - 1
      <4> HIDE DEF s
      <4> QED
        BY <1>1, <1>8, <1>17, <2>1, <2>3
    <3>2. blocks[x - s] = VValue(o, u, h, x)
      BY <1>9, <3>1
    <3>3. v_leaves'[LPlace(index, u, x)] = LeafPrg(blocks[x - s]) /\ v_hashed'[HPlace(u, x)] = LeafPrg(blocks[x - s])
      <4> HIDE DEF s, w
      <4> QED
        BY <1>15, <3>1, Zenon
    <3> QED
      BY <3>2, <3>3, Zenon DEF Put
  <2> QED
    BY <2>2, <2>3
<1>18. ASSUME v_frame'.busy
       PROVE  /\ VFrameInv(v_frame', index, u, h)
              /\ \A x \in Sub(index, u, h) : x < v_frame'.start => Put(v_leaves', v_hashed', index, o, u, h, x)
  <2>1. c + 1 < p
    BY <1>14, <1>18, Zenon
  <2>2. v_frame'.start = s0 + w * v_frame'.chunk
    <3>1. s + w = s0 + (d + w)
      <4> HIDE DEF s0, d
      <4> QED
        BY <1>1, <1>2, <1>7
    <3> QED
      BY <1>7, <1>14, <3>1, Zenon
  <2>3. v_frame'.perm = PermuteInv(XorIndex(v_frame'.start, index[u]))
    BY <1>8, <1>14, <1>15, <2>1, Zenon
  <2>4. v_frame'.base = FirstLeaf(u)
    BY <1>10, <1>14
  <2>5. \A x \in Sub(index, u, h) : x < v_frame'.start => Put(v_leaves', v_hashed', index, o, u, h, x)
    BY <1>14, <1>17, Zenon
  <2> QED
    BY <2>2, <2>3, <2>4, <2>5, Zenon DEF VFrameInv
<1>19. ASSUME ~v_frame'.busy, NEW x \in Sub(index, u, h)
       PROVE  Put(v_leaves', v_hashed', index, o, u, h, x)
  <2>1. s + w = s0 + z
    <3>1. c + 1 = p
      <4>1. p \in Nat /\ c \in Nat /\ c + 1 <= p /\ ~(c + 1 < p)
        BY <1>1, <1>5, <1>14, <1>19, Zenon
      <4> HIDE DEF p, c
      <4> QED
        BY <4>1
    <3> QED
      BY <1>8, <3>1
  <2>2. x < s + w
    <3>1. x \in s0 .. s0 + z - 1
      BY <1>2, <1>19
    <3> HIDE DEF s0, z, s, w
    <3> QED
      BY <1>1, <1>2, <2>1, <3>1, SMTT(30)
  <2> QED
    BY <1>17, <2>2
<1> QED
  BY <1>15, <1>16, <1>18, <1>19

---------------------------------------------------------------------------
LEMMA VEndKeeps ==
  ASSUME NEW o, NEW root \in Nat, NEW n \in Nat, IsFrame(v_frame),
         VWalkInv(o, v_forest, v_frame, root, n), V!EndChunk
  PROVE  /\ v_forest' = v_forest /\ IsFrame(v_frame') /\ v_frame'.busy \in BOOLEAN
         /\ v_frame'.busy => VWalkInv(o, v_forest, v_frame', root, n)
<1> DEFINE fr == v_frame'
           j  == v_frame.chunk + V!Ratio
<1>1. PICK perm, start :
        v_frame' = [v_frame EXCEPT !.perm = perm, !.chunk = j, !.i = j, !.start = start,
                               !.busy = j < Pow2[n]]
  BY SamePow2V DEF V!EndChunk, VWalkInv
<1>2. /\ v_forest' = v_forest /\ v_frame.d = 0 /\ v_frame.height = n
      /\ ~(v_frame.i < j /\ v_frame.i < Pow2[n])
  BY SamePow2V DEF V!EndChunk, V!MorePaths, VWalkInv
<1>3. /\ n \in Nat /\ Pow2[n] \in Nat /\ V!Ratio \in Nat \ {0}
  BY VWalkRatio, Pow2Values
<1>4. /\ v_frame.i \in 0 .. Pow2[n] /\ v_frame.chunk \in 0 .. v_frame.i /\ v_frame.i <= j
      /\ v_frame.chunk < Pow2[n] /\ v_frame.root = VD(root, TREE_CHUNK_SIZE_SHIFT)
  BY DEF VWalkInv
<1>5. fr = [busy |-> j < Pow2[n], height |-> n, root |-> v_frame.root, base |-> v_frame.base,
            chunk |-> j, i |-> j, ancestor |-> v_frame.ancestor, d |-> 0,
            start |-> start, perm |-> perm]
  <2> HIDE DEF j, fr
  <2> DEFINE more == j < Pow2[n]
  <2>1. fr = [v_frame EXCEPT !.perm = perm, !.chunk = j, !.i = j, !.start = start, !.busy = more]
    BY <1>1 DEF fr
  <2> HIDE DEF more
  <2>2. PICK r : r = fr
    OBVIOUS
  <2>3. r = [v_frame EXCEPT !.perm = perm, !.chunk = j, !.i = j, !.start = start, !.busy = more]
    BY <2>1, <2>2, Zenon
  <2>4. r = [busy |-> more, height |-> v_frame.height, root |-> v_frame.root,
             base |-> v_frame.base, chunk |-> j, i |-> j, ancestor |-> v_frame.ancestor, d |-> v_frame.d,
             start |-> start, perm |-> perm]
    BY <2>3 DEF IsFrame
  <2> QED
    BY <1>2, <2>2, <2>4, Zenon DEF more
<1>6. /\ fr.busy = (j < Pow2[n]) /\ fr.height = n /\ fr.root = v_frame.root /\ fr.chunk = j
      /\ fr.i = j /\ fr.ancestor = v_frame.ancestor /\ fr.d = 0 /\ IsFrame(fr)
  BY <1>5 DEF IsFrame
<1> HIDE DEF fr
<1>7. ASSUME fr.busy PROVE VWalkInv(o, v_forest, fr, root, n)
  <2>1. j < Pow2[n]
    BY <1>6, <1>7
  <2>2. v_frame.i = j
    BY <1>2, <1>3, <1>4, <2>1
  <2> HIDE DEF j
  <2>3. \A e, q : VExpanded(fr, n, e, q) => VExpanded(v_frame, n, e, q)
    BY <1>2, <1>6, <2>2 DEF VExpanded
  <2>4. fr.chunk \in 0 .. fr.i /\ fr.i <= fr.chunk + V!Ratio
    BY <1>3, <1>4, <1>6, <2>2
  <2>5. fr.i = v_frame.i /\ fr.d = v_frame.d /\ fr.ancestor = v_frame.ancestor
    BY <1>2, <1>6, <2>2
  <2> QED
    BY <1>4, <1>6, <2>1, <2>3, <2>4, <2>5 DEF VWalkInv
<1>8. fr.busy \in BOOLEAN
  <2>1. \A a, b \in Nat : (a < b) \in BOOLEAN
    OBVIOUS
  <2>2. j \in Nat
    BY <1>3, <1>4
  <2> QED
    BY <1>3, <1>6, <2>1, <2>2, Zenon
<1> QED
  BY <1>2, <1>6, <1>7, <1>8 DEF fr

(* Until the end of a chunk a call only walks.                               *)
LEMMA VPathKeeps ==
  ASSUME IsFrame(v_frame), V!PickAncestor \/ V!Descend
  PROVE  /\ v_frame'.base = v_frame.base /\ v_frame'.start = v_frame.start
         /\ v_frame'.perm = v_frame.perm /\ v_frame'.chunk = v_frame.chunk
         /\ v_frame'.busy = v_frame.busy
         /\ v_leaves' = v_leaves /\ v_hashed' = v_hashed
<1>1. v_leaves' = v_leaves /\ v_hashed' = v_hashed
  BY DEF V!PickAncestor, V!Descend
<1>2. \E a, d, i : v_frame' = [v_frame EXCEPT !.ancestor = a, !.d = d, !.i = i]
  <2>1. CASE V!PickAncestor
    <3>1. \E a, d, i : v_frame' = [v_frame EXCEPT !.ancestor = a, !.d = d, !.i = i]
      BY <2>1 DEF V!PickAncestor
    <3> QED
      BY <3>1
  <2>2. CASE V!Descend
    <3>1. \E a, d : v_frame' = [v_frame EXCEPT !.ancestor = a, !.d = d]
      BY <2>2 DEF V!Descend
    <3>2. PICK a : \E d : v_frame' = [v_frame EXCEPT !.ancestor = a, !.d = d]
      BY <3>1
    <3>3. PICK d : v_frame' = [v_frame EXCEPT !.ancestor = a, !.d = d]
      BY <3>2
    <3>4. [v_frame EXCEPT !.ancestor = a, !.d = d] = [v_frame EXCEPT !.ancestor = a, !.d = d, !.i = v_frame.i]
      BY DEF IsFrame
    <3>5. v_frame' = [v_frame EXCEPT !.ancestor = a, !.d = d, !.i = v_frame.i]
      BY <3>3, <3>4, Zenon
    <3> QED
      BY <3>5, Zenon
  <2> QED
    BY <2>1, <2>2
<1>3. PICK a : \E d, i : v_frame' = [v_frame EXCEPT !.ancestor = a, !.d = d, !.i = i]
  BY <1>2
<1>4. PICK d : \E i : v_frame' = [v_frame EXCEPT !.ancestor = a, !.d = d, !.i = i]
  BY <1>3
<1>5. PICK i : v_frame' = [v_frame EXCEPT !.ancestor = a, !.d = d, !.i = i]
  BY <1>4
<1>6. /\ v_frame'.base = v_frame.base /\ v_frame'.start = v_frame.start
      /\ v_frame'.perm = v_frame.perm /\ v_frame'.chunk = v_frame.chunk
      /\ v_frame'.busy = v_frame.busy
  <2>1. PICK fr : fr = v_frame
    OBVIOUS
  <2>2. v_frame' = [fr EXCEPT !.ancestor = a, !.d = d, !.i = i]
    BY <1>5, <2>1
  <2>3. PICK r : r = v_frame'
    OBVIOUS
  <2>4. r = [fr EXCEPT !.ancestor = a, !.d = d, !.i = i]
    BY <2>2, <2>3
  <2>5. r.base = fr.base /\ r.start = fr.start /\ r.perm = fr.perm /\ r.chunk = fr.chunk /\ r.busy = fr.busy
    BY <2>1, <2>4 DEF IsFrame
  <2> QED
    BY <2>1, <2>3, <2>5
<1> QED
  BY <1>1, <1>6

(* How far the call on the subtree of height h of vector u is.               *)
VCallInv(l, w, f, fr, index, o, u, h) ==
  /\ fr.busy =>
       /\ VWalkInv(o, f, fr, SubRoot(u, h), h - TREE_CHUNK_SIZE_SHIFT)
       /\ VFrameInv(fr, index, u, h)
       /\ \A x \in Sub(index, u, h) : x < fr.start => Put(l, w, index, o, u, h, x)
  /\ ~fr.busy => \A x \in Sub(index, u, h) : Put(l, w, index, o, u, h, x)

(* The walk of a subtree begins at a known chunk.                           *)
LEMMA VTopKnown ==
  ASSUME NEW o, NEW f, TopsKnown(o, f), NEW u \in Vec, NEW h \in TREE_CHUNK_SIZE_SHIFT .. Depth(u) - 1
  PROVE  VChunkKnown(o, f, SubRoot(u, h))
<1> DEFINE k == TREE_CHUNK_SIZE_SHIFT
           r == SubRoot(u, h)
<1>1. /\ k \in Nat /\ TREE_CHUNK_SIZE = Pow2[k] /\ k \in 0 .. k /\ h \in 0 .. Depth(u) - 1 /\ h \in Nat
      /\ k <= VOLE_MIN_K /\ k <= h
  BY TreeSizes, DepthRange
<1>2. r \in Nat /\ h <= VOLE_MIN_K /\ r < Limit(h) /\ r \in 0 .. T - 1
  BY <1>1, RootPlace, SubtreeCount
<1>3. Limit(h) <= Limit(k) /\ Limit(h) \in Nat /\ Limit(k) \in Nat
  BY <1>1, <1>2, LimitsFall
<1>4. r < Limit(k)
  <2> HIDE DEF r, k
  <2> QED
    BY <1>2, <1>3
<1>5. VKnown(o, f, VD(r, k) .. VD(r + 1, k) - 1)
  <2> HIDE DEF r, k
  <2> QED
    BY <1>1, <1>2, <1>4 DEF TopsKnown, k
<1>6. VD(r + 1, k) = VD(r, k) + Pow2[k] /\ VD(r, k) \in Nat
  <2> HIDE DEF r, k
  <2> QED
    BY <1>1, <1>2, <1>4, VInForest
<1>7. VChunkAt(r, 0, 0) = VD(r, k)
  <2>1. k + 0 = k /\ TREE_CHUNK_SIZE * 0 = 0
    BY <1>1, TreeSizes
  <2>2. VD(r, k) + 0 = VD(r, k)
    <3> HIDE DEF r, k
    <3> QED
      BY <1>6
  <2> QED
    BY <2>1, <2>2, Zenon DEF VChunkAt
<1> DEFINE a == VD(r, k)
           b == VD(r + 1, k)
           c == TREE_CHUNK_SIZE
<1>8. b - 1 = a + c - 1
  <2>1. b = a + c /\ a \in Nat /\ c \in Nat
    BY <1>1, <1>6, TreeSizes
  <2> HIDE DEF a, b, c
  <2> QED
    BY <2>1
<1> HIDE DEF r, k
<1> QED
  BY <1>5, <1>7, <1>8, Zenon DEF VChunkKnown, r

(* Every step of the walk of a subtree keeps what has been achieved.        *)
LEMMA VStepKeeps ==
  ASSUME LEAF_CHUNK_SIZE_SHIFT <= TREE_CHUNK_SIZE_SHIFT,
         NEW index, IsIndex(index), NEW o, IsOpening(o), NEW u \in Vec,
         NEW h \in TREE_CHUNK_SIZE_SHIFT .. Depth(u) - 1,
         IsFrame(v_frame), v_frame.busy, IsOut(v_leaves), IsOut(v_hashed), TopsKnown(o, v_forest),
         VCallInv(v_leaves, v_hashed, v_forest, v_frame, index, o, u, h),
         V!ExpandStep
  PROVE  /\ IsFrame(v_frame') /\ v_frame'.busy \in BOOLEAN
         /\ IsOut(v_leaves') /\ IsOut(v_hashed') /\ VGrows(o, v_forest, v_forest')
         /\ VKept(v_leaves, v_hashed, v_leaves', v_hashed', index, u, Sub(index, u, h))
         /\ VCallInv(v_leaves', v_hashed', v_forest', v_frame', index, o, u, h)
<1> DEFINE root == SubRoot(u, h)
           n == h - TREE_CHUNK_SIZE_SHIFT
<1>1. root \in Nat /\ n \in Nat /\ Walkable(root, n) /\ VChunkKnown(o, v_forest, root)
  BY SubWalk, VTopKnown
<1>2. /\ VWalkInv(o, v_forest, v_frame, root, n) /\ VFrameInv(v_frame, index, u, h)
      /\ \A x \in Sub(index, u, h) : x < v_frame.start => Put(v_leaves, v_hashed, index, o, u, h, x)
  BY DEF VCallInv
<1> HIDE DEF root, n
<1>3. CASE V!EndChunk
  <2>1. /\ v_forest' = v_forest /\ IsFrame(v_frame') /\ v_frame'.busy \in BOOLEAN
        /\ v_frame'.busy => VWalkInv(o, v_forest, v_frame', root, n)
    BY <1>1, <1>2, <1>3, VEndKeeps
  <2>2. /\ IsOut(v_leaves') /\ IsOut(v_hashed')
        /\ VKept(v_leaves, v_hashed, v_leaves', v_hashed', index, u, Sub(index, u, h))
        /\ v_frame'.busy =>
             /\ VFrameInv(v_frame', index, u, h)
             /\ \A x \in Sub(index, u, h) : x < v_frame'.start =>
                  Put(v_leaves', v_hashed', index, o, u, h, x)
        /\ ~v_frame'.busy =>
             \A x \in Sub(index, u, h) : Put(v_leaves', v_hashed', index, o, u, h, x)
    BY <1>2, <1>3, VEndOutputs DEF root, n
  <2>3. VGrows(o, v_forest, v_forest')
    BY <2>1 DEF VGrows
  <2> QED
    BY <2>1, <2>2, <2>3, Zenon DEF VCallInv, root, n
<1>4. CASE V!PickAncestor \/ V!Descend
  <2>1. /\ IsFrame(v_frame') /\ VWalkInv(o, v_forest', v_frame', root, n) /\ VGrows(o, v_forest, v_forest')
    <3>1. CASE V!PickAncestor
      <4>1. IsFrame(v_frame') /\ VWalkInv(o, v_forest, v_frame', root, n) /\ v_forest' = v_forest
        BY <1>1, <1>2, <3>1, VPickKeeps
      <4> QED
        BY <4>1 DEF VGrows
    <3>2. CASE V!Descend
      BY <1>1, <1>2, <3>2, VDescendKeeps
    <3> QED
      BY <1>4, <3>1, <3>2
  <2>2. /\ v_frame'.base = v_frame.base /\ v_frame'.start = v_frame.start
        /\ v_frame'.perm = v_frame.perm /\ v_frame'.chunk = v_frame.chunk
        /\ v_frame'.busy = v_frame.busy
        /\ v_leaves' = v_leaves /\ v_hashed' = v_hashed
    BY <1>4, VPathKeeps
  <2>3. VFrameInv(v_frame', index, u, h)
    BY <1>2, <2>2, Zenon DEF VFrameInv
  <2>4. VKept(v_leaves, v_hashed, v_leaves', v_hashed', index, u, Sub(index, u, h))
    BY <2>2 DEF VKept
  <2>5. IsOut(v_leaves') /\ IsOut(v_hashed')
    BY <2>2, Zenon
  <2>6. v_frame'.busy /\ v_frame'.busy \in BOOLEAN
    <3>1. v_frame.busy \in BOOLEAN
      BY DEF V!ExpandStep, V!EndChunk, V!PickAncestor, V!Descend
    <3> QED
      BY <2>2, <3>1
  <2>7. VCallInv(v_leaves', v_hashed', v_forest', v_frame', index, o, u, h)
    BY <1>2, <2>1, <2>2, <2>3, <2>6, Zenon DEF VCallInv, root, n
  <2> QED
    BY <2>1, <2>4, <2>5, <2>6, <2>7
<1> QED
  BY <1>3, <1>4 DEF V!ExpandStep

---------------------------------------------------------------------------
(* A walk starts with nothing done and its permuted index right.            *)
LEMMA VCallStarts ==
  ASSUME NEW index, IsIndex(index), NEW o, NEW f, NEW u \in Vec,
         NEW h \in TREE_CHUNK_SIZE_SHIFT .. Depth(u) - 1,
         NEW fr,
         fr = [busy |-> TRUE, height |-> h - TREE_CHUNK_SIZE_SHIFT,
               root |-> VD(SubRoot(u, h), TREE_CHUNK_SIZE_SHIFT), base |-> FirstLeaf(u),
               chunk |-> 0, i |-> 0, ancestor |-> 0, d |-> 0,
               start |-> SubStart(index, u, h),
               perm |-> PermuteInv(XorIndex(SubStart(index, u, h), index[u]))],
         NEW l, NEW w
  PROVE  IsFrame(fr) /\ fr.busy \in BOOLEAN /\ VCallInv(l, w, f, fr, index, o, u, h)
<1> DEFINE n == h - TREE_CHUNK_SIZE_SHIFT
           root == SubRoot(u, h)
           s == SubStart(index, u, h)
           p == PermuteInv(XorIndex(s, index[u]))
<1>1. n \in Nat /\ root \in Nat /\ h \in 0 .. Depth(u) - 1
  BY SubWalk
<1>2. /\ s \in Nat /\ Pow2[h] \in Nat \ {0} /\ Sub(index, u, h) = s .. s + Pow2[h] - 1
  BY <1>1, SubLeaves
<1> HIDE DEF n, root, s, p
<1>3. /\ fr.busy = TRUE /\ fr.height = n /\ fr.root = VD(root, TREE_CHUNK_SIZE_SHIFT)
      /\ fr.base = FirstLeaf(u) /\ fr.chunk = 0 /\ fr.i = 0 /\ fr.d = 0 /\ fr.start = s /\ fr.perm = p
      /\ IsFrame(fr)
  BY DEF IsFrame, n, root, s, p
<1>4. VWalkInv(o, f, fr, root, n)
  <2>1. Pow2[n] \in Nat \ {0} /\ V!Ratio \in Nat
    BY <1>1, Pow2Values, VWalkRatio
  <2>2. ASSUME NEW e \in 0 .. n - 1, NEW q \in 0 .. Pow2[e] - 1
        PROVE  ~VExpanded(fr, n, e, q)
    <3>1. e \in Nat /\ n - e \in Nat
      BY <1>1
    <3>2. Pow2[e] \in Nat /\ Pow2[n - e] \in Nat
      BY <3>1, Pow2Values
    <3>3. q * Pow2[n - e] \in Nat
      BY <3>2
    <3> QED
      BY <1>3, <3>3 DEF VExpanded
  <2> DEFINE p2 == Pow2[n]
  <2>3. p2 \in Nat \ {0}
    BY <2>1
  <2> HIDE DEF p2
  <2>4. /\ fr.i \in 0 .. p2 /\ fr.d \in 0 .. n /\ fr.chunk \in 0 .. fr.i
        /\ fr.i <= fr.chunk + V!Ratio /\ fr.chunk < p2 /\ ~(fr.d > 0) /\ ~(fr.i > 0)
    BY <1>1, <1>3, <2>1, <2>3
  <2> QED
    BY <1>3, <2>2, <2>4, Zenon DEF VWalkInv, p2
<1>5. VFrameInv(fr, index, u, h)
  <2>1. TREE_CHUNK_SIZE * 0 = 0
    BY TreeSizes
  <2>2. s + TREE_CHUNK_SIZE * 0 = s
    BY <1>2, <2>1
  <2> QED
    BY <1>3, <2>2 DEF VFrameInv, s, p
<1>6. \A x \in Sub(index, u, h) : ~(x < fr.start)
  <2> DEFINE z == Pow2[h]
  <2>1. s \in Nat /\ z \in Nat /\ Sub(index, u, h) = s .. s + z - 1
    BY <1>2
  <2> HIDE DEF z
  <2> QED
    BY <1>3, <2>1
<1> QED
  BY <1>3, <1>4, <1>5, <1>6 DEF VCallInv, n, root

---------------------------------------------------------------------------
(* The chunk of leaves around the hidden one: the leaves of the subtrees too  *)
(* small for the outputs, and those only.                                    *)
ChunkStart(index, u) == index[u] - (index[u] % TREE_CHUNK_SIZE)

LEMMA Division ==
  ASSUME NEW w \in Nat \ {0}, NEW x \in Nat
  PROVE  x \div w \in Nat /\ x % w \in 0 .. w - 1 /\ x = w * (x \div w) + (x % w)
         /\ w * (x \div w) \in Nat
OBVIOUS

(* The chunk of leaves that the hidden leaf is in.                          *)
LEMMA HiddenChunk ==
  ASSUME NEW index, IsIndex(index), NEW u \in Vec
  PROVE  /\ TREE_CHUNK_SIZE \in Nat \ {0}
         /\ ChunkStart(index, u) \in Nat /\ ChunkStart(index, u) \in Leaf(u)
         /\ ChunkStart(index, u) + TREE_CHUNK_SIZE <= Pow2[Depth(u)]
         /\ index[u] \in Nat /\ index[u] \in Leaf(u)
         /\ index[u] \in ChunkStart(index, u) .. ChunkStart(index, u) + TREE_CHUNK_SIZE - 1
         /\ index[u] % TREE_CHUNK_SIZE = index[u] - ChunkStart(index, u)
         /\ \A x \in Nat : x \div TREE_CHUNK_SIZE = index[u] \div TREE_CHUNK_SIZE
                             <=> x \in ChunkStart(index, u) .. ChunkStart(index, u) + TREE_CHUNK_SIZE - 1
         /\ \A x \in ChunkStart(index, u) .. ChunkStart(index, u) + TREE_CHUNK_SIZE - 1 :
              x \in Leaf(u) /\ x % TREE_CHUNK_SIZE = x - ChunkStart(index, u)
<1> DEFINE w == TREE_CHUNK_SIZE
           k == TREE_CHUNK_SIZE_SHIFT
           z == index[u]
           q == z \div w
           n == Depth(u)
           top == Pow2[n]
           s == ChunkStart(index, u)
           y == w * q
<1>1. /\ w \in Nat \ {0} /\ w = Pow2[k] /\ k \in Nat /\ n \in Nat /\ k <= n
      /\ z \in Leaf(u) /\ z \in Nat /\ top \in Nat /\ Leaf(u) = 0 .. top - 1 /\ z < top
  <2>1. w \in Nat \ {0} /\ w = Pow2[k] /\ k \in Nat /\ n \in Nat /\ k <= n /\ z \in Leaf(u)
    BY TreeSizes, DepthRange DEF IsIndex, Depth, VOLE_MAX_K
  <2>2. Leaf(u) = 0 .. top - 1
    BY DEF Leaf
  <2>3. top \in Nat
    BY <2>1, Pow2Values
  <2> HIDE DEF z, top
  <2> QED
    BY <2>1, <2>2, <2>3
<1>2. /\ q \in Nat /\ y \in Nat /\ s = y /\ z % w = z - y /\ z % w \in 0 .. w - 1
  <2> DEFINE r == z % w
  <2>1. q \in Nat /\ z = w * q + r /\ r \in 0 .. w - 1
    <3> HIDE DEF z, w
    <3> QED
      BY <1>1, Division
  <2>2. y \in Nat
    BY <1>1, Division
  <2>3. r \in Nat /\ z = y + r /\ s = z - r
    <3>1. s = z - r
      BY DEF ChunkStart
    <3> HIDE DEF r, s
    <3> QED
      BY <1>1, <2>1, <3>1
  <2> HIDE DEF y, z, s, r
  <2>4. s = y /\ r = z - y
    BY <2>2, <2>3
  <2> QED
    BY <2>1, <2>2, <2>4 DEF r
<1>3. ASSUME NEW x \in Nat
      PROVE  /\ x \div w = q <=> x \in y .. y + w - 1
             /\ x \div w = q => x % w = x - y
  <2> DEFINE v == x \div w
             m == x % w
  <2>1. v \in Nat /\ m \in 0 .. w - 1 /\ x = w * v + m
    <3> HIDE DEF w
    <3> QED
      BY <1>1, Division
  <2>2. v = q => x = y + m
    <3> HIDE DEF v, m, q
    <3> QED
      BY <2>1
  <2>3. ASSUME x \in y .. y + w - 1 PROVE v = q
    <3> DEFINE j == x - y
    <3>1. j \in 0 .. w - 1 /\ x = y + j
      <4> HIDE DEF y, w
      <4> QED
        BY <1>1, <1>2, <2>3
    <3>2. x = w * q + j
      BY <3>1
    <3> HIDE DEF j, q, w
    <3>3. q \in Nat /\ w \in Nat \ {0}
      BY <1>1, <1>2
    <3>4. x \div w = q
      BY <3>1, <3>2, <3>3, QuotientUnique
    <3> QED
      BY <3>4 DEF v
  <2>4. v = q => x \in y .. y + w - 1 /\ m = x - y
    <3>1. y \in Nat /\ w \in Nat \ {0}
      BY <1>1, <1>2
    <3> HIDE DEF y, v, m, q, w
    <3> QED
      BY <2>1, <2>2, <3>1
  <2> QED
    BY <2>3, <2>4 DEF v, m
<1>4. y + w <= top
  <2>1. n - k \in Nat
    BY <1>1
  <2> DEFINE c == Pow2[n - k]
  <2>2. c \in Nat \ {0} /\ top = w * c
    <3>1. c \in Nat \ {0}
      BY <2>1, Pow2Values
    <3>2. k + (n - k) = n
      BY <1>1
    <3>3. Pow2[k + (n - k)] = Pow2[k] * Pow2[n - k]
      <4> DEFINE m == n - k
      <4> HIDE DEF m
      <4> QED
        BY <1>1, <2>1, Pow2Sum DEF m
    <3> QED
      BY <1>1, <3>1, <3>2, <3>3
  <2> HIDE DEF c
  <2>3. q < c
    <3>1. SUFFICES ASSUME c <= q PROVE FALSE
      BY <1>2, <2>2
    <3>2. w * c <= w * q
      BY <1>1, <1>2, <2>2, <3>1, MulMonotone
    <3>3. y <= z
      <4> HIDE DEF y, z, w
      <4> QED
        BY <1>1, <1>2
    <3> HIDE DEF y, z, top
    <3>4. top <= y
      BY <2>2, <3>2 DEF y
    <3> QED
      BY <1>1, <1>2, <3>3, <3>4
  <2>4. w * q + w <= w * c
    BY <1>1, <1>2, <2>2, <2>3, MulMonotone
  <2> QED
    BY <2>2, <2>4
<1> HIDE DEF y, q, z, top, w
<1>5. s \in Leaf(u) /\ z \in y .. y + w - 1 /\ \A x \in y .. y + w - 1 : x \in Nat /\ x \in Leaf(u)
  BY <1>1, <1>2, <1>4, SMTT(30)
<1> HIDE DEF s
<1> QED
  BY <1>1, <1>2, <1>3, <1>4, <1>5 DEF z, w, s, q, top, n

(* The small subtrees share the chunk of the hidden leaf, no other is in it.*)
LEMMA SubChunk ==
  ASSUME NEW index, IsIndex(index), NEW u \in Vec, NEW h \in 0 .. Depth(u) - 1,
         NEW x \in Sub(index, u, h)
  PROVE  /\ x \in Nat /\ x \in Leaf(u) /\ x # index[u]
         /\ (h < TREE_CHUNK_SIZE_SHIFT <=>
               x \in ChunkStart(index, u) .. ChunkStart(index, u) + TREE_CHUNK_SIZE - 1)
<1> DEFINE k == TREE_CHUNK_SIZE_SHIFT
           z == index[u]
<1>1. /\ h \in Nat /\ k \in Nat /\ h + 1 \in Nat /\ z \in Nat /\ x \in Nat /\ x \in Leaf(u)
      /\ x \div Pow2[h + 1] = z \div Pow2[h + 1] /\ x \div Pow2[h] # z \div Pow2[h]
      /\ TREE_CHUNK_SIZE = Pow2[k]
  BY HiddenChunk, TreeSizes, LeafRange, DepthRange DEF Sub
<1>2. x # z
  BY <1>1
<1>3. ASSUME h < k PROVE x \div Pow2[k] = z \div Pow2[k]
  <2>1. h + 1 <= k
    BY <1>1, <1>3
  <2> QED
    BY <1>1, <2>1, SameQuotient
<1>4. ASSUME ~(h < k) PROVE x \div Pow2[k] # z \div Pow2[k]
  <2>1. k <= h
    BY <1>1, <1>4
  <2> QED
    BY <1>1, <2>1, SameQuotient
<1> QED
  BY <1>1, <1>2, <1>3, <1>4, HiddenChunk

---------------------------------------------------------------------------
(* The leaves kept of the subtrees of height lim and above.                  *)
ChunkInv(ch, index, o, u, lim) ==
  /\ ch = [q \in 0 .. TREE_CHUNK_SIZE - 1 |-> ch[q]]
  /\ ch[index[u] % TREE_CHUNK_SIZE] = Uninit
  /\ \A h \in lim .. Depth(u) - 1 : h < TREE_CHUNK_SIZE_SHIFT =>
       \A x \in Sub(index, u, h) : ch[x % TREE_CHUNK_SIZE] = VValue(o, u, h, x)

(* Where the leaves of a small subtree are copied to.                        *)
LEMMA CopyTarget ==
  ASSUME NEW index, IsIndex(index), NEW u \in Vec, NEW h \in 0 .. Depth(u) - 1,
         h < TREE_CHUNK_SIZE_SHIFT
  PROVE  LET c == SubStart(index, u, h) % TREE_CHUNK_SIZE
         IN /\ c \in Nat
            /\ \A y \in ChunkStart(index, u) .. ChunkStart(index, u) + TREE_CHUNK_SIZE - 1 :
                 /\ y % TREE_CHUNK_SIZE \in 0 .. TREE_CHUNK_SIZE - 1
                 /\ (y % TREE_CHUNK_SIZE \in c .. c + Pow2[h] - 1 <=> y \in Sub(index, u, h))
                 /\ (y % TREE_CHUNK_SIZE) - c = y - SubStart(index, u, h)
<1> DEFINE w == TREE_CHUNK_SIZE
           s == SubStart(index, u, h)
           z == Pow2[h]
           cs == ChunkStart(index, u)
           c == s % w
<1>1. /\ w \in Nat \ {0} /\ cs \in Nat
      /\ \A x \in cs .. cs + w - 1 : x % w = x - cs
  BY HiddenChunk
<1>2. s \in Nat /\ z \in Nat \ {0} /\ Sub(index, u, h) = s .. s + z - 1
  BY SubLeaves
<1>3. s \in Sub(index, u, h)
  <2> HIDE DEF s, z
  <2> QED
    BY <1>2
<1>4. s \in cs .. cs + w - 1
  BY <1>3, SubChunk
<1> HIDE DEF w, s, z, cs
<1>5. c = s - cs /\ c \in Nat
  BY <1>1, <1>2, <1>4
<1> HIDE DEF c
<1>6. ASSUME NEW y \in cs .. cs + w - 1
      PROVE  /\ y % w \in 0 .. w - 1
             /\ (y % w \in c .. c + z - 1 <=> y \in Sub(index, u, h))
             /\ (y % w) - c = y - s
  <2> DEFINE m == y % w
  <2>1. m = y - cs /\ y \in Nat
    <3>1. m = y - cs
      BY <1>1, Zenon
    <3>2. y \in Nat
      BY <1>1
    <3> QED
      BY <3>1, <3>2
  <2> HIDE DEF m
  <2>2. m \in 0 .. w - 1 /\ m - c = y - s /\ (m \in c .. c + z - 1 <=> y \in s .. s + z - 1)
    BY <1>1, <1>2, <1>5, <2>1
  <2> QED
    BY <1>2, <2>2 DEF m
<1> QED
  BY <1>5, <1>6 DEF w, s, z, cs, c

(* Small subtrees have their leaves after the first loop.                   *)
LEMMA SmallKnown ==
  ASSUME NEW index, IsIndex(index), NEW o, NEW f, TopsKnown(o, f), NEW u \in Vec,
         NEW h \in 0 .. Depth(u) - 1, h < TREE_CHUNK_SIZE_SHIFT, NEW x \in Sub(index, u, h)
  PROVE  f[VD(SubRoot(u, h), h) + (x - SubStart(index, u, h))] = VValue(o, u, h, x)
<1> DEFINE r == SubRoot(u, h)
           s == SubStart(index, u, h)
           z == Pow2[h]
           j == x - s
           a == VD(r, h)
           b == VD(r + 1, h)
           nodes == a .. b - 1
<1>1. /\ s \in Nat /\ z \in Nat \ {0} /\ Sub(index, u, h) = s .. s + z - 1 /\ x % z = j
  BY SubLeaves
<1>2. j \in 0 .. z - 1
  <2> HIDE DEF s, z
  <2> QED
    BY <1>1
<1>3. /\ h \in Nat /\ h <= VOLE_MIN_K /\ r \in Nat /\ r < Limit(h) /\ r \in 0 .. T - 1
      /\ h \in 0 .. TREE_CHUNK_SIZE_SHIFT
  BY RootPlace, SubtreeCount, TreeSizes
<1>4. VKnown(o, f, nodes)
  <2> HIDE DEF r
  <2> QED
    BY <1>3 DEF TopsKnown
<1>5. b = a + z /\ a \in Nat
  <2> HIDE DEF r
  <2> QED
    BY <1>3, VInForest
<1>6. a + j \in nodes
  <2> HIDE DEF a, b, z, j
  <2> QED
    BY <1>1, <1>2, <1>5
<1>7. f[a + j] = Derive(Seed(o, u, h), h, j)
  <2> HIDE DEF nodes, j
  <2> QED
    BY <1>2, <1>4, <1>6, KnownLeaf DEF z
<1> HIDE DEF z
<1> QED
  BY <1>1, <1>7 DEF VValue, z

(* The leaves of a small subtree are copied to their places in last_chunk.  *)
LEMMA KeepChunk ==
  ASSUME NEW index, IsIndex(index), NEW o, NEW f, TopsKnown(o, f), NEW u \in Vec,
         NEW h \in 0 .. Depth(u) - 1, h < TREE_CHUNK_SIZE_SHIFT,
         NEW ch, ChunkInv(ch, index, o, u, h + 1),
         NEW c, c = SubStart(index, u, h) % TREE_CHUNK_SIZE,
         NEW kept, kept = [q \in DOMAIN ch |->
                             IF q \in c .. c + Pow2[h] - 1 THEN f[VD(SubRoot(u, h), h) + (q - c)]
                             ELSE ch[q]]
  PROVE  ChunkInv(kept, index, o, u, h)
<1> DEFINE w == TREE_CHUNK_SIZE
           z == Pow2[h]
           cs == ChunkStart(index, u)
           s == SubStart(index, u, h)
           hid == index[u]
           at == VD(SubRoot(u, h), h)
           ch2 == [q \in DOMAIN ch |-> IF q \in c .. c + z - 1 THEN f[at + (q - c)] ELSE ch[q]]
<1>1. DOMAIN ch = 0 .. w - 1 /\ ch[hid % w] = Uninit
  <2>1. ch = [q \in 0 .. w - 1 |-> ch[q]]
    BY DEF ChunkInv
  <2>2. DOMAIN [q \in 0 .. w - 1 |-> ch[q]] = 0 .. w - 1
    OBVIOUS
  <2>3. DOMAIN ch = 0 .. w - 1
    BY <2>1, <2>2
  <2> QED
    BY <2>3 DEF ChunkInv
<1>2. \A y \in cs .. cs + w - 1 :
        /\ y % w \in 0 .. w - 1
        /\ (y % w \in c .. c + z - 1 <=> y \in Sub(index, u, h))
        /\ (y % w) - c = y - s
  BY CopyTarget
<1>3. \A y \in cs .. cs + w - 1 :
        ch2[y % w] = IF y \in Sub(index, u, h) THEN f[at + (y - s)] ELSE ch[y % w]
  <2> SUFFICES ASSUME NEW y \in cs .. cs + w - 1
               PROVE  ch2[y % w] = IF y \in Sub(index, u, h) THEN f[at + (y - s)] ELSE ch[y % w]
    OBVIOUS
  <2> DEFINE m == y % w
  <2>1. m \in 0 .. w - 1 /\ (m \in c .. c + z - 1 <=> y \in Sub(index, u, h)) /\ m - c = y - s
    BY <1>2
  <2> HIDE DEF m, at, s, z
  <2>2. ch2[m] = IF m \in c .. c + z - 1 THEN f[at + (m - c)] ELSE ch[m]
    BY <1>1, <2>1
  <2> HIDE DEF ch2
  <2>3. ch2[m] = IF y \in Sub(index, u, h) THEN f[at + (y - s)] ELSE ch[m]
    BY <2>1, <2>2, Zenon
  <2> QED
    BY <2>3 DEF m
<1>4. ch2 = [q \in 0 .. w - 1 |-> ch2[q]]
  BY <1>1
<1> HIDE DEF ch2
<1>5. ch2[hid % w] = Uninit
  <2>1. hid \in cs .. cs + w - 1
    BY HiddenChunk
  <2>2. hid \notin Sub(index, u, h)
    BY SubChunk
  <2> QED
    BY <1>1, <1>3, <2>1, <2>2, Zenon
<1>6. ASSUME NEW g \in h .. Depth(u) - 1, g < TREE_CHUNK_SIZE_SHIFT, NEW x \in Sub(index, u, g)
      PROVE  ch2[x % w] = VValue(o, u, g, x)
  <2>1. g \in 0 .. Depth(u) - 1 /\ g \in Nat /\ h \in Nat /\ (g # h => g \in h + 1 .. Depth(u) - 1)
    BY DepthRange
  <2>2. x \in cs .. cs + w - 1
    BY <1>6, <2>1, SubChunk
  <2>3. CASE g = h
    <3>1. x \in Sub(index, u, h)
      BY <1>6, <2>3
    <3>2. f[at + (x - s)] = VValue(o, u, h, x)
      BY <3>1, SmallKnown
    <3> QED
      BY <1>3, <2>2, <2>3, <3>1, <3>2, Zenon
  <2>4. CASE g # h
    <3>1. x \notin Sub(index, u, h)
      BY <2>1, <2>4, SubApart
    <3>2. ch[x % w] = VValue(o, u, g, x)
      BY <1>6, <2>1, <2>4 DEF ChunkInv
    <3> QED
      BY <1>3, <2>2, <3>1, <3>2, Zenon
  <2> QED
    BY <2>3, <2>4
<1>7. ChunkInv(ch2, index, o, u, h)
  BY <1>4, <1>5, <1>6 DEF ChunkInv
<1>8. kept = ch2
  BY Zenon DEF ch2
<1> QED
  BY <1>7, <1>8

---------------------------------------------------------------------------
(* What the verifier leaves in the outputs of a vector.                      *)
TreeDone(l, w, index, o, u, c) ==
  /\ \A h \in 0 .. Depth(u) - 1 : \A x \in Sub(index, u, h) : Put(l, w, index, o, u, h, x)
  /\ l[FirstLeaf(u)] = Zero
  /\ w[HPlace(u, index[u])] = c

(* With last_chunk written, all leaves of the vector are in place.          *)
LEMMA FinishOutputs ==
  ASSUME LEAF_CHUNK_SIZE_SHIFT <= TREE_CHUNK_SIZE_SHIFT,
         NEW index, IsIndex(index), NEW o, NEW u \in Vec,
         IsOut(v_leaves), IsOut(v_hashed), NEW ch, ChunkInv(ch, index, o, u, 0),
         \A h \in 0 .. Depth(u) - 1 : h >= TREE_CHUNK_SIZE_SHIFT =>
           \A x \in Sub(index, u, h) : Put(v_leaves, v_hashed, index, o, u, h, x),
         NEW blocks, blocks = [ch EXCEPT ![index[u] % TREE_CHUNK_SIZE] = Zero],
         NEW out,
         out = V!WriteLeaves(blocks, ChunkStart(index, u),
                             PermuteInv(XorIndex(ChunkStart(index, u), index[u])), FirstLeaf(u)),
         NEW l, NEW w, NEW c,
         l = [out.leaves EXCEPT ![FirstLeaf(u)] = Zero],
         w = [out.hashed EXCEPT ![HPlace(u, index[u])] = c]
  PROVE  /\ IsOut(l) /\ IsOut(w) /\ VKept(v_leaves, v_hashed, l, w, index, u, Leaf(u))
         /\ TreeDone(l, w, index, o, u, c)
<1> DEFINE k == TREE_CHUNK_SIZE
           cs == ChunkStart(index, u)
           hid == index[u]
           p0 == PermuteInv(XorIndex(cs, hid))
<1>1. /\ k \in Nat \ {0} /\ cs \in Nat /\ cs \in Leaf(u) /\ cs + k <= Pow2[Depth(u)]
      /\ hid \in Nat /\ hid \in Leaf(u) /\ hid \in cs .. cs + k - 1 /\ hid % k = hid - cs
      /\ \A x \in cs .. cs + k - 1 : x \in Leaf(u) /\ x % k = x - cs
  BY HiddenChunk
<1>2. MAX_CHUNK_SIZE = k
  BY VChunkSizes
<1>3. PICK g : /\ IsWrite(g, k, v_leaves, v_hashed, blocks, cs, p0, FirstLeaf(u))
               /\ out = g[k]
  <2> DEFINE m == MAX_CHUNK_SIZE
  <2> HIDE DEF cs, p0
  <2>1. \E g : /\ IsWrite(g, m, v_leaves, v_hashed, blocks, cs, p0, FirstLeaf(u))
               /\ V!WriteLeaves(blocks, cs, p0, FirstLeaf(u)) = g[m]
    BY VWriteValue
  <2>2. m = k
    BY <1>2
  <2> HIDE DEF m, k
  <2>3. out = V!WriteLeaves(blocks, cs, p0, FirstLeaf(u))
    BY Zenon DEF cs, p0
  <2> QED
    BY <2>1, <2>2, <2>3, Zenon
<1>4. VWrote(v_leaves, v_hashed, out, index, u, cs, cs + k, blocks)
  <2>1. k \in Nat
    BY <1>1
  <2> HIDE DEF cs, k
  <2>2. VWrote(v_leaves, v_hashed, g[k], index, u, cs, cs + k, blocks)
    BY <1>1, <1>3, <2>1, VWriteAll DEF IsOut, p0
  <2> QED
    BY <1>3, <2>2
<1>5. /\ out.leaves = [s \in Slot |-> out.leaves[s]] /\ out.hashed = [s \in Slot |-> out.hashed[s]]
      /\ \A y \in cs .. cs + k - 1 :
           /\ out.leaves[LPlace(index, u, y)] = LeafPrg(blocks[y - cs])
           /\ out.hashed[HPlace(u, y)] = LeafPrg(blocks[y - cs])
      /\ \A v \in Vec : \A y \in Leaf(v) : v # u \/ y \notin cs .. cs + k - 1 =>
           /\ out.leaves[LPlace(index, v, y)] = v_leaves[LPlace(index, v, y)]
           /\ out.hashed[HPlace(v, y)] = v_hashed[HPlace(v, y)]
  <2>1. cs .. (cs + k) - 1 = cs .. cs + k - 1
    <3> HIDE DEF cs, k
    <3> QED
      BY <1>1
  <2> HIDE DEF cs, k
  <2> QED
    BY <1>4, <2>1, Zenon DEF VWrote
<1>6. FirstLeaf(u) = LPlace(index, u, hid) /\ FirstLeaf(u) \in Slot
  <2>1. XorIndex(hid, hid) = 0
    BY <1>1, XorLeaf
  <2>2. PermuteInv(0) = 0 /\ FirstLeaf(u) \in Nat
    BY PermutationAssumption, LeafParts, DepthRange, TreeSizes
  <2>3. LPlace(index, u, hid) = FirstLeaf(u) + 0
    BY <2>1, <2>2 DEF LPlace
  <2>4. LPlace(index, u, hid) \in Slot
    BY <1>1, VPlaces
  <2> QED
    BY <2>2, <2>3, <2>4
<1>7. HPlace(u, hid) \in Slot
  BY <1>1, VPlaces
<1>8. /\ IsOut(l) /\ IsOut(w)
      /\ \A s \in Slot : l[s] = IF s = FirstLeaf(u) THEN Zero ELSE out.leaves[s]
      /\ \A s \in Slot : w[s] = IF s = HPlace(u, hid) THEN c ELSE out.hashed[s]
  BY <1>5, <1>6, <1>7 DEF IsOut
<1>9. ASSUME NEW v \in Vec, NEW y \in Leaf(v), v # u \/ y # hid
      PROVE  /\ l[LPlace(index, v, y)] = out.leaves[LPlace(index, v, y)]
             /\ w[HPlace(v, y)] = out.hashed[HPlace(v, y)]
  <2>1. LPlace(index, v, y) \in Slot /\ HPlace(v, y) \in Slot
    BY VPlaces
  <2>2. LPlace(index, v, y) # LPlace(index, u, hid) /\ HPlace(v, y) # HPlace(u, hid)
    BY <1>1, <1>9, VPlaces
  <2> QED
    BY <1>6, <1>8, <2>1, <2>2, Zenon
<1>10. VKept(v_leaves, v_hashed, l, w, index, u, Leaf(u))
  <2> SUFFICES ASSUME NEW v \in Vec, NEW y \in Leaf(v), v # u \/ y \notin Leaf(u)
               PROVE  /\ l[LPlace(index, v, y)] = v_leaves[LPlace(index, v, y)]
                      /\ w[HPlace(v, y)] = v_hashed[HPlace(v, y)]
    BY DEF VKept
  <2>1. v # u
    OBVIOUS
  <2>2. /\ out.leaves[LPlace(index, v, y)] = v_leaves[LPlace(index, v, y)]
        /\ out.hashed[HPlace(v, y)] = v_hashed[HPlace(v, y)]
    BY <1>5, <2>1, Zenon
  <2>3. /\ l[LPlace(index, v, y)] = out.leaves[LPlace(index, v, y)]
        /\ w[HPlace(v, y)] = out.hashed[HPlace(v, y)]
    BY <1>9, <2>1, Zenon
  <2> QED
    BY <2>2, <2>3, Zenon
<1>11. ASSUME NEW h \in 0 .. Depth(u) - 1, NEW x \in Sub(index, u, h)
       PROVE  Put(l, w, index, o, u, h, x)
  <2>1. /\ x \in Nat /\ x \in Leaf(u) /\ x # hid
        /\ (h < TREE_CHUNK_SIZE_SHIFT <=> x \in cs .. cs + k - 1)
    BY SubChunk
  <2>2. /\ l[LPlace(index, u, x)] = out.leaves[LPlace(index, u, x)]
        /\ w[HPlace(u, x)] = out.hashed[HPlace(u, x)]
    BY <1>9, <2>1
  <2>3. CASE h < TREE_CHUNK_SIZE_SHIFT
    <3>1. x \in cs .. cs + k - 1
      BY <2>1, <2>3
    <3>2. x % k = x - cs /\ x % k # hid % k /\ x % k \in 0 .. k - 1
      <4>1. x % k = x - cs /\ hid % k = hid - cs
        BY <1>1, <3>1
      <4> HIDE DEF cs, k, hid
      <4> QED
        BY <1>1, <2>1, <3>1, <4>1
    <3>3. ch[x % k] = VValue(o, u, h, x)
      BY <2>3 DEF ChunkInv
    <3>4. blocks[x % k] = ch[x % k]
      <4>1. ch = [q \in 0 .. k - 1 |-> ch[q]]
        BY DEF ChunkInv
      <4> DEFINE m == x % k
                 e == hid % k
                 d == [q \in 0 .. k - 1 |-> ch[q]]
      <4>2. blocks = [d EXCEPT ![e] = Zero] /\ m # e /\ m \in 0 .. k - 1
        BY <3>2, <4>1
      <4>3. d[m] = ch[m]
        BY <4>2
      <4> HIDE DEF m, e, k
      <4>4. blocks[m] = d[m]
        BY <4>2
      <4> QED
        BY <4>3, <4>4 DEF m, k
    <3>5. /\ out.leaves[LPlace(index, u, x)] = LeafPrg(blocks[x - cs])
          /\ out.hashed[HPlace(u, x)] = LeafPrg(blocks[x - cs])
      BY <1>5, <3>1
    <3> QED
      BY <2>2, <3>2, <3>3, <3>4, <3>5, Zenon DEF Put
  <2>4. CASE ~(h < TREE_CHUNK_SIZE_SHIFT)
    <3>1. x \notin cs .. cs + k - 1 /\ h >= TREE_CHUNK_SIZE_SHIFT
      BY <2>1, <2>4, TreeSizes, DepthRange
    <3>2. Put(v_leaves, v_hashed, index, o, u, h, x)
      BY <3>1
    <3> QED
      BY <1>5, <2>1, <2>2, <3>1, <3>2, Zenon DEF Put
  <2> QED
    BY <2>3, <2>4
<1>12. l[FirstLeaf(u)] = Zero /\ w[HPlace(u, hid)] = c
  BY <1>6, <1>7, <1>8
<1> QED
  BY <1>8, <1>10, <1>11, <1>12 DEF TreeDone

---------------------------------------------------------------------------
(* The roots of the subtrees of a vector, one after the other.               *)
LEMMA RootStart ==
  ASSUME NEW u \in Vec
  PROVE  FirstRoot(u) = SubRoot(u, Depth(u) - 1)
<1>1. /\ VOLE_MIN_K \in Nat \ {0} /\ BITS_PER_WITNESS \in Nat /\ u \in Nat /\ VOLES_MAX_K \in Nat
      /\ VOLE_MIN_K - 1 # VOLE_MIN_K /\ (VOLE_MIN_K - 1) + 1 = VOLE_MIN_K
      /\ VOLE_MIN_K - VOLE_MIN_K = 0
  BY TreeSizes, DepthRange
<1>2. Limit(VOLE_MIN_K) = VOLES_MAX_K
  <2>1. Limit(VOLE_MIN_K) = BITS_PER_WITNESS * (VOLE_MIN_K - VOLE_MIN_K) + VOLES_MAX_K
    BY <1>1, LimitValues
  <2>2. BITS_PER_WITNESS * 0 = 0
    BY <1>1
  <2> QED
    BY <1>1, <2>1, <2>2
<1>3. CASE u < VOLES_MAX_K
  <2>1. VOLES_MAX_K # 0 /\ Depth(u) - 1 = VOLE_MIN_K
    BY <1>1, <1>3 DEF Depth, VOLE_MAX_K
  <2>2. FirstRoot(u) = u
    BY <1>1, <1>3 DEF FirstRoot
  <2> QED
    BY <2>1, <2>2 DEF SubRoot
<1>4. CASE ~(u < VOLES_MAX_K)
  <2>1. Depth(u) - 1 = VOLE_MIN_K - 1
    BY <1>4 DEF Depth
  <2>2. SubRoot(u, VOLE_MIN_K - 1) = VOLES_MAX_K + u
    BY <1>1, <1>2 DEF SubRoot
  <2>3. FirstRoot(u) = u + VOLES_MAX_K
    BY <1>4 DEF FirstRoot
  <2> QED
    BY <1>1, <2>1, <2>2, <2>3
<1> QED
  BY <1>3, <1>4

(* The root followed from level to level (vector_com.c:533).                *)
LEMMA RootNext ==
  ASSUME NEW u \in Vec, NEW h \in 1 .. Depth(u) - 1
  PROVE  SubRoot(u, h - 1) = SubRoot(u, h) + (IF u < VOLES_MAX_K /\ h = Depth(u) - 1
                                              THEN VOLES_MAX_K ELSE BITS_PER_WITNESS)
<1>1. /\ VOLE_MIN_K \in Nat \ {0} /\ BITS_PER_WITNESS \in Nat /\ u \in Nat /\ VOLES_MAX_K \in Nat
      /\ VOLE_MIN_K - VOLE_MIN_K = 0 /\ h \in Nat /\ h - 1 \in Nat /\ (h - 1) + 1 = h
      /\ Depth(u) \in Nat
  BY TreeSizes, DepthRange
<1>2. h <= VOLE_MIN_K /\ h - 1 # VOLE_MIN_K
  <2>1. h \in 0 .. Depth(u) - 1
    BY <1>1
  <2>2. h <= VOLE_MIN_K
    BY <2>1, RootPlace
  <2> QED
    BY <1>1, <2>2
<1>3. SubRoot(u, h - 1) = Limit(h) + u /\ Limit(h) \in Nat /\ Limit(h) = Limit(h + 1) + BITS_PER_WITNESS
  BY <1>1, <1>2, LimitValues DEF SubRoot
<1>4. CASE u < VOLES_MAX_K /\ h = Depth(u) - 1
  <2>1. h = VOLE_MIN_K
    BY <1>1, <1>4 DEF Depth, VOLE_MAX_K
  <2>2. Limit(h) = VOLES_MAX_K
    <3>1. Limit(h) = BITS_PER_WITNESS * (VOLE_MIN_K - VOLE_MIN_K) + VOLES_MAX_K
      BY <1>1, <2>1, LimitValues
    <3>2. BITS_PER_WITNESS * 0 = 0
      BY <1>1
    <3> QED
      BY <1>1, <3>1, <3>2
  <2>3. SubRoot(u, h) = u
    BY <2>1 DEF SubRoot
  <2> QED
    BY <1>1, <1>3, <1>4, <2>2, <2>3
<1>5. CASE ~(u < VOLES_MAX_K /\ h = Depth(u) - 1)
  <2>1. h # VOLE_MIN_K
    BY <1>1, <1>5 DEF Depth, VOLE_MAX_K
  <2>2. SubRoot(u, h) = Limit(h + 1) + u /\ Limit(h + 1) \in Int
    BY <1>1, <2>1, Limits DEF SubRoot
  <2>3. SubRoot(u, h - 1) = SubRoot(u, h) + BITS_PER_WITNESS
    BY <1>1, <1>3, <2>2
  <2> QED
    BY <1>5, <2>3, Zenon
<1> QED
  BY <1>4, <1>5

---------------------------------------------------------------------------
(* How far vector_verify is after the subtrees have grown to a chunk each.    *)
CommitmentOf(o, v) ==
  LET src == OpeningStart(v) + Depth(v)
  IN IF o[src] = o[src + 1] THEN o[src] ELSE Junk

TreesDone(l, w, index, o, n) ==
  \A v \in Vec : v < n => TreeDone(l, w, index, o, v, CommitmentOf(o, v))

SubDone(l, w, index, o, u, lim) ==
  \A h \in lim .. Depth(u) - 1 : h >= TREE_CHUNK_SIZE_SHIFT =>
    \A x \in Sub(index, u, h) : Put(l, w, index, o, u, h, x)

(* Writing where leaves of vector u go leaves the other vectors alone.       *)
LEMMA TreeDoneKept ==
  ASSUME NEW index, IsIndex(index), NEW u \in Vec, NEW A, NEW l, NEW w, NEW l2, NEW w2,
         VKept(l, w, l2, w2, index, u, A),
         NEW o, NEW v \in Vec, v # u, NEW c, TreeDone(l, w, index, o, v, c)
  PROVE  TreeDone(l2, w2, index, o, v, c)
<1>1. \A y \in Leaf(v) : /\ l2[LPlace(index, v, y)] = l[LPlace(index, v, y)]
                         /\ w2[HPlace(v, y)] = w[HPlace(v, y)]
  BY DEF VKept
<1>2. index[v] \in Leaf(v) /\ FirstLeaf(v) = LPlace(index, v, index[v])
  <2>1. index[v] \in Leaf(v)
    BY HiddenChunk
  <2>2. XorIndex(index[v], index[v]) = 0
    BY <2>1, XorLeaf
  <2>3. PermuteInv(0) = 0 /\ FirstLeaf(v) \in Nat
    BY PermutationAssumption, LeafParts, DepthRange, TreeSizes
  <2>4. LPlace(index, v, index[v]) = FirstLeaf(v) + 0
    BY <2>2, <2>3 DEF LPlace
  <2> QED
    BY <2>1, <2>3, <2>4
<1>3. ASSUME NEW h \in 0 .. Depth(v) - 1, NEW x \in Sub(index, v, h)
      PROVE  Put(l2, w2, index, o, v, h, x)
  <2>1. x \in Leaf(v)
    BY DEF Sub
  <2>2. Put(l, w, index, o, v, h, x)
    BY DEF TreeDone
  <2> QED
    BY <1>1, <2>1, <2>2, Zenon DEF Put
<1>4. l2[FirstLeaf(v)] = Zero /\ w2[HPlace(v, index[v])] = c
  <2>1. l[FirstLeaf(v)] = Zero /\ w[HPlace(v, index[v])] = c
    BY DEF TreeDone
  <2> QED
    BY <1>1, <1>2, <2>1, Zenon
<1> QED
  BY <1>3, <1>4 DEF TreeDone

(* One subtree leaves the outputs of the others of its vector alone.        *)
LEMMA SubDoneKept ==
  ASSUME NEW index, IsIndex(index), NEW u \in Vec, NEW h \in 0 .. Depth(u) - 1,
         NEW l, NEW w, NEW l2, NEW w2,
         VKept(l, w, l2, w2, index, u, Sub(index, u, h)),
         NEW o, SubDone(l, w, index, o, u, h + 1)
  PROVE  SubDone(l2, w2, index, o, u, h + 1)
<1> SUFFICES ASSUME NEW g \in h + 1 .. Depth(u) - 1, g >= TREE_CHUNK_SIZE_SHIFT,
                    NEW x \in Sub(index, u, g)
             PROVE  Put(l2, w2, index, o, u, g, x)
  BY DEF SubDone
<1>1. g # h /\ h \in Nat /\ g \in Nat
  BY DepthRange
<1>2. x \in Leaf(u)
  BY DEF Sub
<1>3. x \notin Sub(index, u, h)
  BY <1>1, SubApart
<1>4. Put(l, w, index, o, u, g, x)
  BY DEF SubDone
<1>5. /\ l2[LPlace(index, u, x)] = l[LPlace(index, u, x)]
      /\ w2[HPlace(u, x)] = w[HPlace(u, x)]
  BY <1>2, <1>3 DEF VKept
<1> QED
  BY <1>4, <1>5, Zenon DEF Put

---------------------------------------------------------------------------
IsWritten(o) == \A s \in OpeningSlot : o[s] \in Block \ {Uninit}

(* The memory the verifier writes to.                                        *)
MemoryInv ==
  /\ IsOut(v_leaves) /\ IsOut(v_hashed) /\ IsFrame(v_frame) /\ v_frame.busy \in BOOLEAN
  /\ v_frame.busy => verify_pc = "subtree" /\ Height >= TREE_CHUNK_SIZE_SHIFT

(* The loop over the trees.                                                  *)
LoopInv ==
  /\ verify_pc \in {"level", "subtree", "accepted"} =>
       /\ v_tree \in 0 .. BITS_PER_WITNESS
       /\ v_base = FirstLeaf(v_tree) /\ v_src = OpeningStart(v_tree)
       /\ TopsKnown(v_opening, v_forest)
       /\ TreesDone(v_leaves, v_hashed, v_delta.index, v_opening, v_tree)
  /\ verify_pc = "accepted" => v_tree = BITS_PER_WITNESS
  /\ verify_pc \notin {"level", "subtree", "accepted"} =>
       v_tree = 0 /\ v_j = 0 /\ v_base = 0 /\ v_src = 0 /\ last_chunk = EmptyChunk

(* The loop over the levels of a tree.                                       *)
LevelInv ==
  /\ verify_pc = "subtree" => v_tree \in Vec /\ v_j < Depth(v_tree)
  /\ verify_pc \in {"level", "subtree"} /\ v_tree \in Vec =>
       /\ v_j \in 0 .. Depth(v_tree)
       /\ v_j < Depth(v_tree) => v_root = SubRoot(v_tree, Height)
       /\ ChunkInv(last_chunk, v_delta.index, v_opening, v_tree, Height + 1)
       /\ SubDone(v_leaves, v_hashed, v_delta.index, v_opening, v_tree, Height + 1)
  /\ verify_pc = "subtree" /\ Height >= TREE_CHUNK_SIZE_SHIFT =>
       VCallInv(v_leaves, v_hashed, v_forest, v_frame, v_delta.index, v_opening, v_tree, Height)

(* The height of the subtree of a level.                                    *)
LEMMA Heights ==
  ASSUME v_tree \in Vec, v_j \in 0 .. Depth(v_tree), v_j < Depth(v_tree)
  PROVE  Height \in 0 .. Depth(v_tree) - 1 /\ Height \in Nat
<1>1. Depth(v_tree) \in Nat
  BY DepthRange
<1> QED
  BY <1>1 DEF Height

LEMMA TreeBelow ==
  ASSUME v_tree \in 0 .. BITS_PER_WITNESS
  PROVE  (v_tree \in Vec <=> v_tree < BITS_PER_WITNESS) /\ v_tree \in Nat
         /\ (v_tree \notin Vec <=> v_tree = BITS_PER_WITNESS)
BY TreeSizes DEF Vec

(* A large subtree begins.                                                  *)
LEMMA CallSubtreeKeeps ==
  ASSUME MemoryInv, LoopInv, LevelInv, IsIndex(v_delta.index), CallSubtree
  PROVE  MemoryInv' /\ LoopInv' /\ LevelInv'
<1> DEFINE u == v_tree
           h == Height
           k == TREE_CHUNK_SIZE_SHIFT
           index == v_delta.index
<1>1. /\ verify_pc = "level" /\ v_tree < BITS_PER_WITNESS /\ v_j < Depth(v_tree)
      /\ verify_pc' = "subtree" /\ v_delta' = v_delta /\ v_opening' = v_opening
      /\ v_forest' = v_forest /\ v_leaves' = v_leaves /\ v_hashed' = v_hashed
      /\ v_tree' = v_tree /\ v_j' = v_j /\ v_root' = v_root /\ last_chunk' = last_chunk
      /\ v_base' = v_base /\ v_src' = v_src
  BY DEF CallSubtree, v_input, v_treeVars
<1>2. u \in Vec /\ h \in 0 .. Depth(u) - 1 /\ h \in Nat /\ v_base = FirstLeaf(u)
      /\ v_root = SubRoot(u, h) /\ v_j \in 0 .. Depth(u) /\ h' = h
  <2>1. v_tree \in 0 .. BITS_PER_WITNESS /\ v_base = FirstLeaf(u)
    BY <1>1 DEF LoopInv
  <2>2. u \in Vec
    BY <1>1, <2>1, TreeBelow
  <2>3. v_j \in 0 .. Depth(u) /\ v_root = SubRoot(u, h)
    BY <1>1, <2>2 DEF LevelInv
  <2>4. h' = h
    BY <1>1 DEF Height
  <2> QED
    BY <1>1, <2>1, <2>2, <2>3, <2>4, Heights
<1>3. ~v_frame.busy /\ IsFrame(v_frame)
  BY <1>1 DEF MemoryInv
<1>4. CASE h >= k
  <2>1. h \in k .. Depth(u) - 1
    BY <1>2, <1>4, TreeSizes, DepthRange
  <2>2. LeafIndex = SubStart(index, u, h) /\ Hidden = index[u]
    BY DEF LeafIndex, Hidden, SubStart
  <2>3. V!ExpandTree(h - k, VD(v_root, k), LeafIndex, Hidden, v_base)
    BY <1>1, <1>4 DEF CallSubtree, VD
  <2>4. v_frame' = [busy |-> TRUE, height |-> h - k, root |-> VD(SubRoot(u, h), k),
                    base |-> FirstLeaf(u), chunk |-> 0, i |-> 0, ancestor |-> 0, d |-> 0,
                    start |-> SubStart(index, u, h),
                    perm |-> PermuteInv(XorIndex(SubStart(index, u, h), index[u]))]
    BY <1>2, <2>2, <2>3, Zenon DEF V!ExpandTree
  <2>5. IsFrame(v_frame') /\ v_frame'.busy \in BOOLEAN
        /\ VCallInv(v_leaves, v_hashed, v_forest, v_frame', index, v_opening, u, h)
    <3> HIDE DEF u, h, index
    <3>1. PICK fr : fr = v_frame'
      OBVIOUS
    <3>2. IsFrame(fr) /\ fr.busy \in BOOLEAN
          /\ VCallInv(v_leaves, v_hashed, v_forest, fr, index, v_opening, u, h)
      BY <1>2, <2>1, <2>4, <3>1, VCallStarts DEF index
    <3> QED
      BY <3>1, <3>2
  <2>6. MemoryInv'
    <3> HIDE DEF h
    <3> QED
      BY <1>1, <1>2, <1>4, <2>5 DEF MemoryInv, h
  <2>7. LoopInv'
    BY <1>1 DEF LoopInv
  <2>8. LevelInv'
    BY <1>1, <1>2, <2>5 DEF LevelInv
  <2> QED
    BY <2>6, <2>7, <2>8
<1>5. CASE ~(h >= k)
  <2>1. v_frame' = v_frame
    BY <1>1, <1>5 DEF CallSubtree
  <2>2. MemoryInv'
    BY <1>1, <1>3, <2>1 DEF MemoryInv
  <2>3. LoopInv'
    BY <1>1 DEF LoopInv
  <2>4. LevelInv'
    BY <1>1, <1>2, <1>5 DEF LevelInv
  <2> QED
    BY <2>2, <2>3, <2>4
<1> QED
  BY <1>4, <1>5

(* The walk of a subtree leaves the top levels of all known.                *)
LEMMA TopsKept ==
  ASSUME NEW o, NEW f, NEW g, VGrows(o, f, g), TopsKnown(o, f)
  PROVE  TopsKnown(o, g)
BY VKnownGrows DEF TopsKnown

LEMMA WrittenOpening ==
  ASSUME NEW o, IsWritten(o)
  PROVE  IsOpening(o)
BY DEF IsWritten, IsOpening

(* A large subtree goes on or is finished.                                  *)
LEMMA VerifyExpandsKeeps ==
  ASSUME LEAF_CHUNK_SIZE_SHIFT <= TREE_CHUNK_SIZE_SHIFT,
         MemoryInv, LoopInv, LevelInv, IsIndex(v_delta.index), IsWritten(v_opening), VerifyExpands
  PROVE  MemoryInv' /\ LoopInv' /\ LevelInv'
<1> DEFINE u == v_tree
           h == Height
           index == v_delta.index
<1>1. /\ V!ExpandStep /\ v_delta' = v_delta /\ v_opening' = v_opening
      /\ v_tree' = v_tree /\ v_j' = v_j /\ v_root' = v_root /\ last_chunk' = last_chunk
      /\ v_base' = v_base /\ v_src' = v_src /\ verify_pc' = verify_pc /\ v_frame.busy
  BY DEF VerifyExpands, v_input, v_treeVars, V!ExpandStep, V!PickAncestor, V!Descend, V!EndChunk
<1>2. /\ verify_pc = "subtree" /\ h >= TREE_CHUNK_SIZE_SHIFT /\ IsFrame(v_frame)
      /\ IsOut(v_leaves) /\ IsOut(v_hashed)
  BY <1>1 DEF MemoryInv
<1>3. /\ u \in Vec /\ v_j \in 0 .. Depth(u) /\ v_j < Depth(u)
      /\ v_root = SubRoot(u, h)
      /\ ChunkInv(last_chunk, index, v_opening, u, h + 1)
      /\ SubDone(v_leaves, v_hashed, index, v_opening, u, h + 1)
      /\ VCallInv(v_leaves, v_hashed, v_forest, v_frame, index, v_opening, u, h)
  BY <1>2 DEF LevelInv
<1>4. h \in 0 .. Depth(u) - 1 /\ h \in Nat /\ h' = h /\ h \in TREE_CHUNK_SIZE_SHIFT .. Depth(u) - 1
  <2>1. h \in 0 .. Depth(u) - 1 /\ h \in Nat
    BY <1>3, Heights
  <2>2. h' = h
    BY <1>1 DEF Height
  <2> HIDE DEF h, u
  <2> QED
    BY <1>2, <1>3, <2>1, <2>2, TreeSizes, DepthRange
<1>5. /\ v_tree \in 0 .. BITS_PER_WITNESS /\ v_base = FirstLeaf(u) /\ v_src = OpeningStart(u)
      /\ TopsKnown(v_opening, v_forest)
      /\ TreesDone(v_leaves, v_hashed, index, v_opening, u)
  BY <1>2 DEF LoopInv
<1>6. /\ IsFrame(v_frame') /\ v_frame'.busy \in BOOLEAN
      /\ IsOut(v_leaves') /\ IsOut(v_hashed') /\ VGrows(v_opening, v_forest, v_forest')
      /\ VKept(v_leaves, v_hashed, v_leaves', v_hashed', index, u, Sub(index, u, h))
      /\ VCallInv(v_leaves', v_hashed', v_forest', v_frame', index, v_opening, u, h)
  <2>1. PICK i2, o2, u2, h2 : i2 = index /\ o2 = v_opening /\ u2 = u /\ h2 = h
    OBVIOUS
  <2>2. /\ IsFrame(v_frame') /\ v_frame'.busy \in BOOLEAN
        /\ IsOut(v_leaves') /\ IsOut(v_hashed') /\ VGrows(o2, v_forest, v_forest')
        /\ VKept(v_leaves, v_hashed, v_leaves', v_hashed', i2, u2, Sub(i2, u2, h2))
        /\ VCallInv(v_leaves', v_hashed', v_forest', v_frame', i2, o2, u2, h2)
    <3>1. IsIndex(i2) /\ IsOpening(o2) /\ u2 \in Vec /\ h2 \in TREE_CHUNK_SIZE_SHIFT .. Depth(u2) - 1
          /\ TopsKnown(o2, v_forest)
          /\ VCallInv(v_leaves, v_hashed, v_forest, v_frame, i2, o2, u2, h2)
      BY <1>3, <1>4, <1>5, <2>1, WrittenOpening
    <3> HIDE DEF u, h, index
    <3> QED
      BY <1>1, <1>2, <3>1, VStepKeeps
  <2> QED
    BY <2>1, <2>2
<1>7. MemoryInv'
  <2> HIDE DEF h
  <2> QED
    BY <1>1, <1>2, <1>4, <1>6 DEF MemoryInv, h
<1>8. TreesDone(v_leaves', v_hashed', index, v_opening, u)
  <2> SUFFICES ASSUME NEW v \in Vec, v < u
               PROVE  TreeDone(v_leaves', v_hashed', index, v_opening, v, CommitmentOf(v_opening, v))
    BY DEF TreesDone
  <2>1. TreeDone(v_leaves, v_hashed, index, v_opening, v, CommitmentOf(v_opening, v))
    BY <1>5 DEF TreesDone
  <2>2. v # u
    BY <1>3, TreeSizes DEF Vec
  <2>3. PICK A : A = Sub(index, u, h)
    OBVIOUS
  <2>4. VKept(v_leaves, v_hashed, v_leaves', v_hashed', index, u, A)
    BY <1>6, <2>3
  <2> HIDE DEF index, u, h
  <2> QED
    BY <1>3, <2>1, <2>2, <2>4, TreeDoneKept DEF index
<1>9. SubDone(v_leaves', v_hashed', index, v_opening, u, h + 1)
  <2> HIDE DEF u, h, index
  <2> QED
    BY <1>3, <1>4, <1>6, SubDoneKept DEF index
<1>10. TopsKnown(v_opening, v_forest')
  BY <1>5, <1>6, TopsKept
<1>11. LoopInv'
  BY <1>1, <1>2, <1>5, <1>8, <1>10 DEF LoopInv
<1>12. LevelInv'
  BY <1>1, <1>2, <1>3, <1>4, <1>6, <1>9 DEF LevelInv
<1> QED
  BY <1>7, <1>11, <1>12

---------------------------------------------------------------------------
(* A small subtree is copied.                                               *)
LEMMA KeepLeavesKeeps ==
  ASSUME LEAF_CHUNK_SIZE_SHIFT <= TREE_CHUNK_SIZE_SHIFT,
         MemoryInv, LoopInv, LevelInv, IsIndex(v_delta.index), KeepLeaves
  PROVE  MemoryInv' /\ LoopInv' /\ LevelInv'
<1> DEFINE u == v_tree
           h == Height
           k == TREE_CHUNK_SIZE_SHIFT
           index == v_delta.index
<1>1. /\ verify_pc = "subtree" /\ ~v_frame.busy /\ verify_pc' = "level"
      /\ v_delta' = v_delta /\ v_opening' = v_opening
      /\ v_forest' = v_forest /\ v_leaves' = v_leaves /\ v_hashed' = v_hashed /\ v_frame' = v_frame
      /\ v_tree' = v_tree /\ v_base' = v_base /\ v_src' = v_src /\ v_j' = v_j + 1
      /\ v_root' = v_root + (IF v_tree < VOLES_MAX_K /\ v_j = 0 THEN VOLES_MAX_K
                                                                ELSE BITS_PER_WITNESS)
      /\ Pow2[h] >= MAX_CHUNK_SIZE => last_chunk' = last_chunk
      /\ ~(Pow2[h] >= MAX_CHUNK_SIZE) =>
           last_chunk' = [o \in DOMAIN last_chunk |->
               IF o \in CopyPlace .. CopyPlace + Pow2[h] - 1
               THEN v_forest[VD(v_root, h) + (o - CopyPlace)]
               ELSE last_chunk[o]]
  BY DEF KeepLeaves, v_input, v_expandVars, VD
<1>2. /\ u \in Vec /\ v_j \in 0 .. Depth(u) /\ v_j < Depth(u) /\ Depth(u) \in Nat
      /\ v_root = SubRoot(u, h)
      /\ ChunkInv(last_chunk, index, v_opening, u, h + 1)
      /\ SubDone(v_leaves, v_hashed, index, v_opening, u, h + 1)
      /\ h >= k => VCallInv(v_leaves, v_hashed, v_forest, v_frame, index, v_opening, u, h)
  BY <1>1, DepthRange DEF LevelInv
<1>3. h \in 0 .. Depth(u) - 1 /\ h \in Nat /\ h = Depth(u) - 1 - v_j
  BY <1>2, Heights DEF Height
<1>4. h' = h - 1 /\ h' + 1 = h /\ v_j + 1 \in 0 .. Depth(u)
      /\ (v_j + 1 < Depth(u) <=> h \in 1 .. Depth(u) - 1)
      /\ (v_j = 0 <=> h = Depth(u) - 1)
  <2>1. h' = Depth(u) - 1 - (v_j + 1)
    BY <1>1 DEF Height
  <2> DEFINE d == Depth(u)
             hn == h'
  <2>2. d \in Nat /\ h \in 0 .. d - 1 /\ h = d - 1 - v_j /\ v_j \in 0 .. d /\ v_j < d
        /\ hn = d - 1 - (v_j + 1)
    BY <1>2, <1>3, <2>1
  <2> HIDE DEF d, h, hn
  <2>3. hn = h - 1 /\ hn + 1 = h /\ v_j + 1 \in 0 .. d /\ (v_j + 1 < d <=> h \in 1 .. d - 1)
        /\ (v_j = 0 <=> h = d - 1)
    BY <2>2
  <2> QED
    BY <2>3 DEF d, hn, h
<1>5. v_j + 1 < Depth(u) => v_root' = SubRoot(u, h')
  <2> SUFFICES ASSUME v_j + 1 < Depth(u) PROVE v_root' = SubRoot(u, h')
    OBVIOUS
  <2>1. h \in 1 .. Depth(u) - 1
    BY <1>4
  <2>2. SubRoot(u, h - 1) = SubRoot(u, h) + (IF u < VOLES_MAX_K /\ h = Depth(u) - 1
                                              THEN VOLES_MAX_K ELSE BITS_PER_WITNESS)
    <3> HIDE DEF u, h
    <3> QED
      BY <1>2, <2>1, RootNext
  <2> HIDE DEF h
  <2> QED
    BY <1>1, <1>2, <1>4, <2>2, Zenon
<1>6. Pow2[h] >= MAX_CHUNK_SIZE <=> h >= k
  <2>1. MAX_CHUNK_SIZE = Pow2[k] /\ k \in Nat
    BY VChunkSizes, TreeSizes
  <2>2. h >= k => Pow2[h] >= Pow2[k]
    <3> SUFFICES ASSUME h >= k PROVE Pow2[h] >= Pow2[k]
      OBVIOUS
    <3>1. Pow2[k] <= Pow2[h] /\ Pow2[k] \in Nat /\ Pow2[h] \in Nat
      BY <1>3, <2>1, Pow2Monotone, Pow2Values
    <3> QED
      BY <3>1
  <2>3. ~(h >= k) => ~(Pow2[h] >= Pow2[k])
    <3> SUFFICES ASSUME ~(h >= k) PROVE ~(Pow2[h] >= Pow2[k])
      OBVIOUS
    <3>1. h + 1 \in Nat /\ h + 1 <= k
      <4> HIDE DEF h
      <4> QED
        BY <1>3, <2>1
    <3>2. Pow2[h + 1] <= Pow2[k] /\ Pow2[h + 1] = 2 * Pow2[h] /\ Pow2[h] \in Nat \ {0} /\ Pow2[k] \in Nat
      <4> HIDE DEF h
      <4> QED
        BY <1>3, <2>1, <3>1, Pow2Monotone, Pow2Values
    <3> QED
      BY <3>2
  <2> QED
    BY <2>1, <2>2, <2>3
<1>7. SubDone(v_leaves, v_hashed, index, v_opening, u, h)
  <2> SUFFICES ASSUME NEW g \in h .. Depth(u) - 1, g >= k, NEW x \in Sub(index, u, g)
               PROVE  Put(v_leaves, v_hashed, index, v_opening, u, g, x)
    BY DEF SubDone
  <2>1. CASE g = h
    <3>1. VCallInv(v_leaves, v_hashed, v_forest, v_frame, index, v_opening, u, h)
      BY <1>2, <2>1
    <3> HIDE DEF h, u, index
    <3> QED
      BY <1>1, <2>1, <3>1 DEF VCallInv
  <2>2. CASE g # h
    <3>1. g \in h + 1 .. Depth(u) - 1
      <4> HIDE DEF h, u
      <4> QED
        BY <1>2, <1>3, <2>2
    <3> HIDE DEF h, u, index
    <3> QED
      BY <1>2, <3>1 DEF SubDone
  <2> QED
    BY <2>1, <2>2
<1>8. ChunkInv(last_chunk', index, v_opening, u, h)
  <2>1. CASE h >= k
    <3>1. last_chunk' = last_chunk
      BY <1>1, <1>6, <2>1
    <3>2. \A g \in h .. Depth(u) - 1 : ~(g < k)
      <4> HIDE DEF h, u
      <4> QED
        BY <1>2, <1>3, <2>1, TreeSizes
    <3> HIDE DEF h, u, index
    <3> QED
      BY <1>2, <3>1, <3>2 DEF ChunkInv
  <2>2. CASE ~(h >= k)
    <3> DEFINE c == CopyPlace
    <3>1. c = SubStart(index, u, h) % TREE_CHUNK_SIZE
      <4>1. MAX_CHUNK_SIZE = TREE_CHUNK_SIZE
        BY VChunkSizes
      <4>2. LeafIndex = SubStart(index, u, h)
        BY DEF LeafIndex, Hidden, SubStart
      <4> QED
        BY <4>1, <4>2, Zenon DEF CopyPlace
    <3> HIDE DEF c
    <3>2. last_chunk' = [o \in DOMAIN last_chunk |->
               IF o \in c .. c + Pow2[h] - 1
               THEN v_forest[VD(SubRoot(u, h), h) + (o - c)]
               ELSE last_chunk[o]]
      <4>1. ~(Pow2[h] >= MAX_CHUNK_SIZE)
        BY <1>6, <2>2
      <4>2. last_chunk' = [o \in DOMAIN last_chunk |->
               IF o \in c .. c + Pow2[h] - 1
               THEN v_forest[VD(v_root, h) + (o - c)]
               ELSE last_chunk[o]]
        BY <1>1, <4>1 DEF c
      <4> QED
        BY <1>2, <4>2
    <3>3. h < k
      <4> HIDE DEF h
      <4> QED
        BY <1>3, <2>2, TreeSizes
    <3>4. TopsKnown(v_opening, v_forest)
      BY <1>1 DEF LoopInv
    <3> HIDE DEF h, u, index
    <3>5. ChunkInv([o \in DOMAIN last_chunk |->
               IF o \in c .. c + Pow2[h] - 1
               THEN v_forest[VD(SubRoot(u, h), h) + (o - c)]
               ELSE last_chunk[o]], index, v_opening, u, h)
      <4>1. PICK i2, o2, f2, u2, h2, ch2 : /\ i2 = index /\ o2 = v_opening /\ f2 = v_forest
                                           /\ u2 = u /\ h2 = h /\ ch2 = last_chunk
        OBVIOUS
      <4>2. PICK c2 : c2 = c
        OBVIOUS
      <4>3. /\ IsIndex(i2) /\ u2 \in Vec /\ TopsKnown(o2, f2) /\ h2 \in 0 .. Depth(u2) - 1
            /\ h2 < TREE_CHUNK_SIZE_SHIFT /\ ChunkInv(ch2, i2, o2, u2, h2 + 1)
            /\ c2 = SubStart(i2, u2, h2) % TREE_CHUNK_SIZE
        BY <1>2, <1>3, <3>1, <3>3, <3>4, <4>1, <4>2 DEF index
      <4>4. PICK kept : kept = [o \in DOMAIN ch2 |->
               IF o \in c2 .. c2 + Pow2[h2] - 1
               THEN f2[VD(SubRoot(u2, h2), h2) + (o - c2)]
               ELSE ch2[o]]
        OBVIOUS
      <4>5. ChunkInv(kept, i2, o2, u2, h2)
        BY <4>3, <4>4, KeepChunk
      <4>6. kept = [o \in DOMAIN last_chunk |->
               IF o \in c .. c + Pow2[h] - 1
               THEN v_forest[VD(SubRoot(u, h), h) + (o - c)]
               ELSE last_chunk[o]]
        BY <4>1, <4>2, <4>4, Zenon
      <4> QED
        BY <4>1, <4>5, <4>6, Zenon
    <3> QED
      BY <3>2, <3>5
  <2> QED
    BY <2>1, <2>2
<1>9. MemoryInv'
  BY <1>1 DEF MemoryInv
<1>10. LoopInv'
  BY <1>1 DEF LoopInv
<1>11. LevelInv'
  <2>1. verify_pc' # "subtree" /\ v_tree' = u /\ v_delta'.index = index
    BY <1>1
  <2>2. /\ v_j' \in 0 .. Depth(u)
        /\ v_j' < Depth(u) => v_root' = SubRoot(u, h')
        /\ ChunkInv(last_chunk', index, v_opening, u, h' + 1)
        /\ SubDone(v_leaves, v_hashed, index, v_opening, u, h' + 1)
    BY <1>1, <1>4, <1>5, <1>7, <1>8
  <2> QED
    BY <1>1, <2>1, <2>2 DEF LevelInv
<1> QED
  BY <1>9, <1>10, <1>11

---------------------------------------------------------------------------
(* The next tree starts with an empty chunk.                                 *)
LEMMA TreeStarts ==
  ASSUME LEAF_CHUNK_SIZE_SHIFT <= TREE_CHUNK_SIZE_SHIFT,
         NEW index, IsIndex(index), NEW o, NEW u \in Vec, NEW l, NEW w,
         NEW lim, lim = Depth(u)
  PROVE  /\ ChunkInv(EmptyChunk, index, o, u, lim)
         /\ SubDone(l, w, index, o, u, lim)
<1>1. MAX_CHUNK_SIZE = TREE_CHUNK_SIZE
  BY VChunkSizes
<1>2. EmptyChunk = [q \in 0 .. TREE_CHUNK_SIZE - 1 |-> Uninit]
  BY <1>1 DEF EmptyChunk
<1>3. index[u] % TREE_CHUNK_SIZE \in 0 .. TREE_CHUNK_SIZE - 1
  BY HiddenChunk, Division
<1>4. lim .. Depth(u) - 1 = {}
  BY DepthRange
<1>5. EmptyChunk = [q \in 0 .. TREE_CHUNK_SIZE - 1 |-> EmptyChunk[q]]
      /\ EmptyChunk[index[u] % TREE_CHUNK_SIZE] = Uninit
  BY <1>2, <1>3
<1> QED
  BY <1>4, <1>5 DEF ChunkInv, SubDone

(* The last chunk of a vector is written.                                   *)
LEMMA FinishTreeKeeps ==
  ASSUME LEAF_CHUNK_SIZE_SHIFT <= TREE_CHUNK_SIZE_SHIFT,
         MemoryInv, LoopInv, LevelInv, IsIndex(v_delta.index), FinishTree
  PROVE  MemoryInv' /\ LoopInv' /\ LevelInv'
<1> DEFINE u == v_tree
           index == v_delta.index
           k == TREE_CHUNK_SIZE
           cs == ChunkStart(index, u)
           blocks == [last_chunk EXCEPT ![index[u] % k] = Zero]
           out == V!WriteLeaves(blocks, cs, PermuteInv(XorIndex(cs, index[u])), FirstLeaf(u))
           c == CommitmentOf(v_opening, u)
<1>1. /\ verify_pc = "level" /\ v_tree < BITS_PER_WITNESS /\ v_j = Depth(u) /\ verify_pc' = "level"
      /\ v_delta' = v_delta /\ v_opening' = v_opening
      /\ v_forest' = v_forest /\ v_frame' = v_frame
      /\ v_base' = v_base + Pow2[Depth(u)] /\ v_src' = v_src + Depth(u) + 2
      /\ v_tree' = u + 1 /\ v_j' = 0 /\ v_root' = FirstRoot(u + 1) /\ last_chunk' = EmptyChunk
  BY DEF FinishTree, v_input
<1>2. /\ v_tree \in 0 .. BITS_PER_WITNESS /\ v_base = FirstLeaf(u) /\ v_src = OpeningStart(u)
      /\ TopsKnown(v_opening, v_forest)
      /\ TreesDone(v_leaves, v_hashed, index, v_opening, u)
  BY <1>1 DEF LoopInv
<1>3. u \in Vec /\ u \in Nat /\ Depth(u) \in Nat /\ BITS_PER_WITNESS \in Nat /\ u < BITS_PER_WITNESS
  <2>1. u \in Vec /\ u \in Nat
    BY <1>1, <1>2, TreeBelow
  <2> QED
    BY <1>1, <2>1, DepthRange, TreeSizes
<1>4. Height + 1 = 0
  <2>1. Height = Depth(u) - 1 - Depth(u)
    BY <1>1 DEF Height
  <2> QED
    BY <1>3, <2>1
<1>5. /\ ChunkInv(last_chunk, index, v_opening, u, 0)
      /\ SubDone(v_leaves, v_hashed, index, v_opening, u, 0)
  BY <1>1, <1>3, <1>4 DEF LevelInv
<1>6. /\ v_leaves' = [out.leaves EXCEPT ![FirstLeaf(u)] = Zero]
      /\ v_hashed' = [out.hashed EXCEPT ![HPlace(u, index[u])] = c]
  <2> DEFINE start0 == Hidden - (Hidden % MAX_CHUNK_SIZE)
             blocks0 == [last_chunk EXCEPT ![Hidden % MAX_CHUNK_SIZE] = Zero]
             out0 == V!WriteLeaves(blocks0, start0, PermuteInv(XorIndex(start0, Hidden)), v_base)
  <2>1. /\ v_leaves' = [out0.leaves EXCEPT ![v_base] = Zero]
        /\ v_hashed' = [out0.hashed EXCEPT ![v_base + Hidden] = Commitment(v_src + Depth(v_tree))]
    BY DEF FinishTree
  <2>2. MAX_CHUNK_SIZE = k /\ Hidden = index[u]
    BY VChunkSizes DEF Hidden
  <2>3. start0 = cs /\ blocks0 = blocks
    BY <2>2, Zenon DEF ChunkStart
  <2> HIDE DEF start0, blocks0, blocks, cs
  <2>4. out0 = out
    BY <1>2, <2>2, <2>3, Zenon
  <2>5. Commitment(v_src + Depth(v_tree)) = c
    BY <1>2, Zenon DEF Commitment, CommitmentOf
  <2>6. v_base + Hidden = HPlace(u, index[u])
    BY <1>2, <2>2 DEF HPlace
  <2> HIDE DEF out0, out, c, u
  <2> QED
    BY <1>2, <2>1, <2>4, <2>5, <2>6, Zenon
<1>7. IsOut(v_leaves) /\ IsOut(v_hashed) /\ IsFrame(v_frame) /\ v_frame.busy \in BOOLEAN /\ ~v_frame.busy
  BY <1>1 DEF MemoryInv
<1>8. /\ IsOut(v_leaves') /\ IsOut(v_hashed')
      /\ VKept(v_leaves, v_hashed, v_leaves', v_hashed', index, u, Leaf(u))
      /\ TreeDone(v_leaves', v_hashed', index, v_opening, u, c)
  <2>1. PICK i2, o2, u2, c2 : i2 = index /\ o2 = v_opening /\ u2 = u /\ c2 = c
    OBVIOUS
  <2>2. PICK bs, ou : bs = blocks /\ ou = out
    OBVIOUS
  <2>3. PICK l2, w2, ch2 : l2 = v_leaves' /\ w2 = v_hashed' /\ ch2 = last_chunk
    OBVIOUS
  <2>4. /\ IsIndex(i2) /\ u2 \in Vec /\ ChunkInv(ch2, i2, o2, u2, 0)
        /\ bs = [ch2 EXCEPT ![i2[u2] % k] = Zero]
        /\ l2 = [ou.leaves EXCEPT ![FirstLeaf(u2)] = Zero]
        /\ w2 = [ou.hashed EXCEPT ![HPlace(u2, i2[u2])] = c2]
    BY <1>3, <1>5, <1>6, <2>1, <2>2, <2>3
  <2>5. ou = V!WriteLeaves(bs, ChunkStart(i2, u2),
                           PermuteInv(XorIndex(ChunkStart(i2, u2), i2[u2])), FirstLeaf(u2))
    <3> HIDE DEF blocks
    <3> QED
      BY <2>1, <2>2, Zenon
  <2>6. \A h \in 0 .. Depth(u2) - 1 : h >= TREE_CHUNK_SIZE_SHIFT =>
           \A x \in Sub(i2, u2, h) : Put(v_leaves, v_hashed, i2, o2, u2, h, x)
    BY <1>5, <2>1 DEF SubDone
  <2> HIDE DEF u, index, blocks, out, c, cs
  <2>7. /\ IsOut(l2) /\ IsOut(w2)
        /\ VKept(v_leaves, v_hashed, l2, w2, i2, u2, Leaf(u2))
        /\ TreeDone(l2, w2, i2, o2, u2, c2)
    BY <1>7, <2>4, <2>5, <2>6, FinishOutputs
  <2> QED
    BY <2>1, <2>3, <2>7
<1>9. TreesDone(v_leaves', v_hashed', index, v_opening, u + 1)
  <2> SUFFICES ASSUME NEW v \in Vec, v < u + 1
               PROVE  TreeDone(v_leaves', v_hashed', index, v_opening, v, CommitmentOf(v_opening, v))
    BY DEF TreesDone
  <2>1. CASE v = u
    BY <1>8, <2>1
  <2>2. CASE v # u
    <3>1. v < u
      BY <1>3, <2>2, DepthRange
    <3>2. TreeDone(v_leaves, v_hashed, index, v_opening, v, CommitmentOf(v_opening, v))
      BY <1>2, <3>1 DEF TreesDone
    <3>3. PICK A : A = Leaf(u)
      OBVIOUS
    <3>4. VKept(v_leaves, v_hashed, v_leaves', v_hashed', index, u, A)
      BY <1>8, <3>3
    <3> HIDE DEF index, u
    <3> QED
      BY <1>3, <2>2, <3>2, <3>4, TreeDoneKept DEF index
  <2> QED
    BY <2>1, <2>2
<1>10. /\ v_tree' \in 0 .. BITS_PER_WITNESS /\ v_base' = FirstLeaf(u + 1) /\ v_src' = OpeningStart(u + 1)
  <2>1. u <= BITS_PER_WITNESS /\ u + 1 \in 0 .. BITS_PER_WITNESS
    BY <1>3
  <2>2. FirstLeaf(u + 1) = FirstLeaf(u) + Pow2[Depth(u)]
    BY <1>3, <2>1, LeafParts
  <2>3. OpeningStart(u + 1) = OpeningStart(u) + Depth(u) + 2
    BY <1>3, <2>1, OpeningParts
  <2> QED
    BY <1>1, <1>2, <2>1, <2>2, <2>3
<1>11. MemoryInv'
  BY <1>1, <1>7, <1>8 DEF MemoryInv
<1>12. LoopInv'
  <2>1. TreesDone(v_leaves', v_hashed', v_delta'.index, v_opening', v_tree')
    BY <1>1, <1>9
  <2>2. TopsKnown(v_opening', v_forest')
    BY <1>1, <1>2
  <2>3. v_tree' \in 0 .. BITS_PER_WITNESS /\ v_base' = FirstLeaf(v_tree') /\ v_src' = OpeningStart(v_tree')
    BY <1>1, <1>10
  <2> QED
    BY <1>1, <2>1, <2>2, <2>3 DEF LoopInv
<1>13. LevelInv'
  <2>1. SUFFICES ASSUME v_tree' \in Vec
                 PROVE  /\ v_j' \in 0 .. Depth(v_tree')
                        /\ v_j' < Depth(v_tree') => v_root' = SubRoot(v_tree', Height')
                        /\ ChunkInv(last_chunk', v_delta'.index, v_opening', v_tree', Height' + 1)
                        /\ SubDone(v_leaves', v_hashed', v_delta'.index, v_opening', v_tree', Height' + 1)
    BY <1>1 DEF LevelInv
  <2>2. PICK t : t = v_tree'
    OBVIOUS
  <2>3. t \in Vec /\ Depth(t) \in Nat /\ t = u + 1
    BY <1>1, <2>1, <2>2, DepthRange
  <2>4. Height' = Depth(t) - 1 /\ Height' + 1 = Depth(t)
    <3>1. Height' = Depth(t) - 1 - 0
      BY <1>1, <2>2 DEF Height
    <3> QED
      BY <2>3, <3>1
  <2>5. v_root' = SubRoot(t, Depth(t) - 1)
    BY <1>1, <2>3, RootStart
  <2>6. v_j' \in 0 .. Depth(t)
    BY <1>1, <2>3
  <2>7. PICK i2, o2, l2, w2, m : /\ i2 = v_delta'.index /\ o2 = v_opening' /\ l2 = v_leaves'
                                 /\ w2 = v_hashed' /\ m = Height' + 1
    OBVIOUS
  <2>8. IsIndex(i2) /\ m = Depth(t)
    BY <1>1, <2>4, <2>7
  <2>9. ChunkInv(EmptyChunk, i2, o2, t, m) /\ SubDone(l2, w2, i2, o2, t, m)
    <3> HIDE DEF u, index
    <3> QED
      BY <2>3, <2>8, TreeStarts
  <2>10. last_chunk' = EmptyChunk
    BY <1>1
  <2> QED
    BY <2>2, <2>4, <2>5, <2>6, <2>7, <2>9, <2>10
<1> QED
  BY <1>11, <1>12, <1>13

---------------------------------------------------------------------------
(* The first vector comes first in the outputs and in the opening.           *)
LEMMA FirstPlaces ==
  /\ 0 \in Vec /\ 0 \in 0 .. BITS_PER_WITNESS /\ 0 # BITS_PER_WITNESS
  /\ FirstLeaf(0) = 0 /\ OpeningStart(0) = 0
<1>1. 0 \in Vec /\ 0 \in 0 .. BITS_PER_WITNESS /\ 0 # BITS_PER_WITNESS
  BY TreeSizes DEF Vec
<1>2. FirstLeaf(0) = 0 /\ OpeningStart(0) = 0
  <2>1. VOLES_MAX_K \in Nat /\ Pow2[VOLE_MAX_K] \in Nat /\ Pow2[VOLE_MIN_K] \in Nat
        /\ VOLE_MIN_K \in Nat
    BY TreeSizes, Pow2Values
  <2>2. \A x \in Nat : 0 * x = 0 /\ x * 0 = 0
    OBVIOUS
  <2>3. CASE 0 < VOLES_MAX_K
    BY <2>1, <2>2, <2>3 DEF FirstLeaf, OpeningStart
  <2>4. CASE VOLES_MAX_K = 0
    <3>1. FirstLeaf(0) = 0 * Pow2[VOLE_MAX_K] + (0 - 0) * Pow2[VOLE_MIN_K]
      BY <2>4 DEF FirstLeaf
    <3>2. OpeningStart(0) = 0 * (VOLE_MIN_K + 2) + 0
      BY <2>4 DEF OpeningStart
    <3> QED
      BY <2>1, <2>2, <3>1, <3>2
  <2> QED
    BY <2>1, <2>3, <2>4
<1> QED
  BY <1>1, <1>2

(* The loop over the trees starts when all subtrees have grown to a chunk.   *)
LEMMA EndSubtreesKeeps ==
  ASSUME LEAF_CHUNK_SIZE_SHIFT <= TREE_CHUNK_SIZE_SHIFT,
         MemoryInv, LoopInv, LevelInv, IsIndex(v_delta.index), EndSubtrees,
         TopsKnown(v_opening, v_forest)
  PROVE  MemoryInv' /\ LoopInv' /\ LevelInv'
<1>1. /\ verify_pc = "subtrees" /\ verify_pc' = "level" /\ v_root' = FirstRoot(0)
      /\ v_delta' = v_delta /\ v_opening' = v_opening /\ v_forest' = v_forest
      /\ v_leaves' = v_leaves /\ v_hashed' = v_hashed /\ v_frame' = v_frame
      /\ v_tree' = v_tree /\ v_j' = v_j /\ last_chunk' = last_chunk
      /\ v_base' = v_base /\ v_src' = v_src
  BY DEF EndSubtrees, v_input, v_expandVars
<1>2. /\ v_tree = 0 /\ v_j = 0 /\ v_base = 0 /\ v_src = 0 /\ last_chunk = EmptyChunk
      /\ IsOut(v_leaves) /\ IsOut(v_hashed) /\ IsFrame(v_frame) /\ v_frame.busy \in BOOLEAN
      /\ ~v_frame.busy
  BY <1>1 DEF LoopInv, MemoryInv
<1>3. 0 \in Vec /\ Depth(0) \in Nat /\ 0 \in 0 .. BITS_PER_WITNESS
  BY FirstPlaces, DepthRange
<1>4. FirstLeaf(0) = 0 /\ OpeningStart(0) = 0
  BY FirstPlaces
<1>5. TreesDone(v_leaves, v_hashed, v_delta.index, v_opening, 0)
  <2>1. \A v \in Vec : ~(v < 0)
    BY DepthRange
  <2> QED
    BY <2>1 DEF TreesDone
<1>6. MemoryInv'
  BY <1>1, <1>2 DEF MemoryInv
<1>7. LoopInv'
  BY <1>1, <1>2, <1>3, <1>4, <1>5 DEF LoopInv
<1>8. LevelInv'
  <2>1. Height' = Depth(0) - 1 /\ Height' + 1 = Depth(0)
    <3>1. Height' = Depth(0) - 1 - 0
      BY <1>1, <1>2 DEF Height
    <3> QED
      BY <1>3, <3>1
  <2>2. v_root' = SubRoot(0, Depth(0) - 1)
    BY <1>1, <1>3, RootStart
  <2>3. PICK i2, o2, l2, w2, m : /\ i2 = v_delta'.index /\ o2 = v_opening' /\ l2 = v_leaves'
                                 /\ w2 = v_hashed' /\ m = Height' + 1
    OBVIOUS
  <2>4. IsIndex(i2) /\ m = Depth(0)
    BY <1>1, <2>1, <2>3
  <2>5. ChunkInv(EmptyChunk, i2, o2, 0, m) /\ SubDone(l2, w2, i2, o2, 0, m)
    BY <1>3, <2>4, TreeStarts
  <2> QED
    BY <1>1, <1>2, <1>3, <2>1, <2>2, <2>3, <2>5 DEF LevelInv
<1> QED
  BY <1>6, <1>7, <1>8

(* The last vector is done.                                                 *)
LEMMA VerifyReturnKeeps ==
  ASSUME MemoryInv, LoopInv, LevelInv, VerifyReturn
  PROVE  MemoryInv' /\ LoopInv' /\ LevelInv'
<1>1. /\ verify_pc = "level" /\ v_tree = BITS_PER_WITNESS /\ verify_pc' = "accepted"
      /\ v_delta' = v_delta /\ v_opening' = v_opening /\ v_forest' = v_forest
      /\ v_leaves' = v_leaves /\ v_hashed' = v_hashed /\ v_frame' = v_frame
      /\ v_tree' = v_tree /\ v_j' = v_j /\ v_root' = v_root /\ last_chunk' = last_chunk
      /\ v_base' = v_base /\ v_src' = v_src
  BY DEF VerifyReturn, v_input, v_expandVars, v_treeVars
<1>2. MemoryInv'
  BY <1>1 DEF MemoryInv
<1>3. LoopInv'
  BY <1>1 DEF LoopInv
<1>4. LevelInv'
  BY <1>1 DEF LevelInv
<1> QED
  BY <1>2, <1>3, <1>4

(* The steps before the loop over the trees.                                 *)
LEMMA SubtreesKeep ==
  ASSUME MemoryInv, LoopInv, LevelInv,
         verify_pc \in {"idle", "subtrees", "rejected"}, verify_pc' \in {"idle", "subtrees", "rejected"},
         UNCHANGED <<v_leaves, v_hashed, v_frame, v_treeVars>>
  PROVE  MemoryInv' /\ LoopInv' /\ LevelInv'
<1>1. /\ v_leaves' = v_leaves /\ v_hashed' = v_hashed /\ v_frame' = v_frame
      /\ v_tree' = v_tree /\ v_j' = v_j /\ v_root' = v_root /\ last_chunk' = last_chunk
      /\ v_base' = v_base /\ v_src' = v_src
  BY DEF v_treeVars
<1>2. ~v_frame.busy
  BY DEF MemoryInv
<1>3. MemoryInv'
  BY <1>1, <1>2 DEF MemoryInv
<1>4. LoopInv'
  BY <1>1 DEF LoopInv
<1>5. LevelInv'
  BY DEF LevelInv
<1> QED
  BY <1>3, <1>4, <1>5

---------------------------------------------------------------------------
(* The subtrees grow.                                                        *)
ReceivedInv ==
  /\ verify_pc \in {"idle", "subtrees", "level", "subtree", "accepted", "rejected"}
  /\ verify_pc # "subtrees" => v_calls = <<>>
  /\ verify_pc # "idle" => IsIndex(v_delta.index) /\ IsWritten(v_opening)

GrowInv ==
  verify_pc = "subtrees" =>
    /\ Grown(v_opening, v_forest, v_calls, v_i)
    /\ v_d < TREE_CHUNK_SIZE_SHIFT => v_i >= Limit(v_d + 1)

(* The first loop: a call on a whole chunk, a call on the rest of a         *)
(* level, then the recursion.                                               *)
LEMMA CallWholeGrows ==
  ASSUME SubtreeInv, GrowInv, CallWhole
  PROVE  GrowInv'
<1>1. /\ verify_pc = "subtrees" /\ v_calls = <<>> /\ verify_pc' = verify_pc
      /\ v_calls' = <<Call(v_i)>> /\ v_i' = v_i + TREE_CHUNK_SIZE /\ v_d' = v_d
      /\ v_opening' = v_opening /\ v_forest' = v_forest
  BY DEF CallWhole, v_input, v_expandVars
<1>2. v_i \in Nat /\ v_i % TREE_CHUNK_SIZE = 0 /\ v_d \in Nat /\ TREE_CHUNK_SIZE \in Nat
  BY SubtreeSizes DEF SubtreeInv
<1>3. Grown(v_opening, v_forest, <<>>, v_i)
  BY <1>1 DEF GrowInv
<1>4. Grown(v_opening, v_forest, <<Call(v_i)>>, v_i + TREE_CHUNK_SIZE)
  <2>1. PICK o, f, i : o = v_opening /\ f = v_forest /\ i = v_i
    OBVIOUS
  <2>2. i \in Nat /\ i % TREE_CHUNK_SIZE = 0 /\ Grown(o, f, <<>>, i)
    BY <1>2, <1>3, <2>1
  <2> QED
    BY <2>1, <2>2, GrownCall
<1>5. v_d < TREE_CHUNK_SIZE_SHIFT => v_i + TREE_CHUNK_SIZE >= Limit(v_d + 1)
  <2>1. Limit(v_d + 1) \in Int
    BY <1>2, Limits
  <2> QED
    BY <1>1, <1>2, <2>1 DEF GrowInv
<1> QED
  BY <1>1, <1>4, <1>5 DEF GrowInv

LEMMA CallPartialGrows ==
  ASSUME SubtreeInv, GrowInv, CallPartial
  PROVE  GrowInv'
<1>1. /\ verify_pc = "subtrees" /\ v_calls = <<>> /\ verify_pc' = verify_pc
      /\ v_d > 0 /\ v_i + TREE_CHUNK_SIZE > End
      /\ End % TREE_CHUNK_SIZE # 0 => v_calls' = <<Call(v_i)>> /\ v_i' = v_i + TREE_CHUNK_SIZE
      /\ End % TREE_CHUNK_SIZE = 0 => v_calls' = v_calls /\ v_i' = v_i
      /\ v_d' = v_d - 1
      /\ v_opening' = v_opening /\ v_forest' = v_forest
  BY DEF CallPartial, v_input, v_expandVars
<1>2. v_i \in Nat /\ v_i % TREE_CHUNK_SIZE = 0 /\ v_d \in Nat /\ TREE_CHUNK_SIZE \in Nat
      /\ v_d \in 0 .. TREE_CHUNK_SIZE_SHIFT
  BY SubtreeSizes DEF SubtreeInv
<1>3. Grown(v_opening, v_forest, <<>>, v_i)
  BY <1>1 DEF GrowInv
<1>4. Grown(v_opening, v_forest, v_calls', v_i')
  <2>1. PICK o, f, i : o = v_opening /\ f = v_forest /\ i = v_i
    OBVIOUS
  <2>2. i \in Nat /\ i % TREE_CHUNK_SIZE = 0 /\ Grown(o, f, <<>>, i)
    BY <1>2, <1>3, <2>1
  <2>3. Grown(o, f, <<Call(i)>>, i + TREE_CHUNK_SIZE)
    BY <2>2, GrownCall
  <2> QED
    BY <1>1, <1>3, <2>1, <2>3
<1>5. End \in Nat /\ End % TREE_CHUNK_SIZE = End - v_i
  BY <1>1, PartialChunk
<1>6. v_i' >= Limit(v_d' + 1)
  <2> DEFINE end == End
             r == end % TREE_CHUNK_SIZE
  <2>1. Limit(v_d' + 1) = end
    <3>1. v_d' + 1 = v_d
      BY <1>1, <1>2
    <3> QED
      BY <3>1 DEF End, Limit
  <2>2. end \in Nat /\ r = end - v_i /\ v_i + TREE_CHUNK_SIZE > end
        /\ (r # 0 => v_i' = v_i + TREE_CHUNK_SIZE) /\ (r = 0 => v_i' = v_i)
    BY <1>1, <1>5
  <2> HIDE DEF end, r
  <2> QED
    BY <1>2, <2>1, <2>2
<1> QED
  BY <1>1, <1>4, <1>6 DEF GrowInv

LEMMA ExpandSubtreesGrows ==
  ASSUME SubtreeInv, ReceivedInv, GrowInv, ExpandSubtrees
  PROVE  GrowInv'
<1>1. /\ v_calls # <<>> /\ v_opening' = v_opening /\ v_i' = v_i /\ v_d' = v_d
      /\ verify_pc' = verify_pc
  BY DEF ExpandSubtrees, v_input
<1>2. verify_pc = "subtrees" /\ IsOpening(v_opening) /\ v_calls \in Seq(GoodCall)
  BY <1>1, WrittenOpening DEF ReceivedInv, SubtreeInv
<1>3. Grown(v_opening, v_forest', v_calls', v_i)
  <2>1. PICK o, i : o = v_opening /\ i = v_i
    OBVIOUS
  <2>2. IsOpening(o) /\ Grown(o, v_forest, v_calls, i)
    BY <1>2, <2>1 DEF GrowInv
  <2>3. Grown(o, v_forest', v_calls', i)
    BY <1>1, <1>2, <2>2, GrownExpand
  <2> QED
    BY <2>1, <2>3
<1> QED
  BY <1>1, <1>2, <1>3 DEF GrowInv

---------------------------------------------------------------------------
LEMMA RootInMemory ==
  ASSUME NEW x \in 0 .. T - 1
  PROVE  x \in V!Node
<1>1. x \in Nat /\ T \in Nat /\ x < T /\ 0 <= VOLE_MIN_K
  BY SubtreeCount, TreeSizes
<1>2. Limit(0) = T
  <2>1. Limit(0) = T - 0 * BITS_PER_WITNESS /\ 0 * BITS_PER_WITNESS = 0
    BY TreeSizes DEF Limit, T
  <2> QED
    BY <1>1, <2>1
<1>3. VD(x + 1, 0) <= ForestSize(TRUE)
  BY <1>1, <1>2, VInForest, 0 \in Nat
<1>4. VD(x + 1, 0) = x + 1
  BY <1>1, VShape, x + 1 \in Nat, 0 \in Nat
<1>5. ForestSize(TRUE) \in Nat /\ V!Node = 0 .. ForestSize(TRUE) - 1
  BY SubtreesEnd
<1>6. PICK m \in Nat : m = ForestSize(TRUE)
  BY <1>5
<1>7. x + 1 <= m
  BY <1>3, <1>4, <1>6, Zenon
<1>9. V!Node = 0 .. m - 1
  BY <1>5, <1>6, Zenon
<1>8. x \in 0 .. m - 1
  <2>1. m \in Nat /\ x \in Nat
    BY <1>1, <1>6
  <2> QED
    BY <1>7, <2>1
<1> QED
  BY <1>8, <1>9, Zenon

(* The subtrees start from the seeds of the opening.                         *)
LEMMA GrowStarts ==
  ASSUME NEW o, IsOpening(o), NEW f,
         f = [x \in V!Node |-> IF x \in DOMAIN ReorderedKeys THEN o[ReorderedKeys[x]] ELSE Uninit]
  PROVE  Grown(o, f, <<>>, 0)
<1>1. DOMAIN ReorderedKeys = 0 .. T - 1
  BY DEF ReorderedKeys, T
<1>2. VKnown(o, f, 0 .. T - 1)
  <2> SUFFICES ASSUME NEW x \in 0 .. T - 1 PROVE x \in V!Node /\ Derived(o, x, f[x])
    BY DEF VKnown
  <2>1. x \in V!Node
    BY RootInMemory
  <2>2. f[x] = o[ReorderedKeys[x]]
    BY <1>1, <2>1
  <2> QED
    BY <2>1, <2>2, DerivedRoot
<1>3. \A n \in 1 .. TREE_CHUNK_SIZE_SHIFT : \A x \in Live(n) : x >= 0 * Pow2[n]
  <2> SUFFICES ASSUME NEW n \in 1 .. TREE_CHUNK_SIZE_SHIFT, NEW x \in Live(n) PROVE x >= 0 * Pow2[n]
    OBVIOUS
  <2>1. n \in Nat /\ Pow2[n] \in Nat /\ 0 * Pow2[n] = 0
    BY TreeSizes, Pow2Values
  <2>2. x >= 0
    BY DEF Live
  <2> QED
    BY <2>1, <2>2
<1>4. DOMAIN <<>> = {}
  OBVIOUS
<1> QED
  BY <1>2, <1>3, <1>4 DEF Grown

VerifierInv ==
  SubtreeInv /\ ReceivedInv /\ GrowInv /\ MemoryInv /\ LoopInv /\ LevelInv

LEMMA VerifyCallKeeps ==
  ASSUME SubtreeInv', VerifierInv, NEW d, NEW o, IsIndex(d.index), IsWritten(o), VerifyCall(d, o)
  PROVE  VerifierInv'
<1>1. /\ verify_pc = "idle" /\ verify_pc' \in {"subtrees", "rejected"}
      /\ v_delta' = d /\ v_opening' = o /\ v_calls' = v_calls /\ v_i' = v_i
      /\ verify_pc' = "subtrees" =>
           /\ v_forest' = [x \in V!Node |-> IF x \in DOMAIN ReorderedKeys
                                            THEN o[ReorderedKeys[x]] ELSE Uninit]
           /\ v_d' = TREE_CHUNK_SIZE_SHIFT
      /\ UNCHANGED <<v_leaves, v_hashed, v_frame, v_treeVars>>
  BY DEF VerifyCall
<1>2. v_calls = <<>> /\ v_i = 0
  BY <1>1 DEF VerifierInv, SubtreeInv
<1>3. ReceivedInv'
  BY <1>1, <1>2 DEF ReceivedInv
<1>4. GrowInv'
  <2> SUFFICES ASSUME verify_pc' = "subtrees"
               PROVE  /\ Grown(v_opening', v_forest', v_calls', v_i')
                      /\ ~(v_d' < TREE_CHUNK_SIZE_SHIFT)
    BY DEF GrowInv
  <2>1. PICK f : f = v_forest'
    OBVIOUS
  <2>2. IsOpening(o)
    BY WrittenOpening
  <2>3. Grown(o, f, <<>>, 0)
    BY <1>1, <2>1, <2>2, GrowStarts
  <2>4. ~(TREE_CHUNK_SIZE_SHIFT < TREE_CHUNK_SIZE_SHIFT)
    BY TreeSizes
  <2> QED
    BY <1>1, <1>2, <2>1, <2>3, <2>4
<1>5. MemoryInv' /\ LoopInv' /\ LevelInv'
  BY <1>1, SubtreesKeep DEF VerifierInv
<1> QED
  BY <1>3, <1>4, <1>5 DEF VerifierInv

(* Every step of the verifier keeps the invariant.                          *)
LEMMA VerifyStepKeeps ==
  ASSUME LEAF_CHUNK_SIZE_SHIFT <= TREE_CHUNK_SIZE_SHIFT, VerifierInv, VerifyStep
  PROVE  VerifierInv'
<1> USE DEF VerifierInv
<1>1. SubtreeInv'
  BY SubtreeStep
<1>2. CASE CallWhole \/ CallPartial \/ ExpandSubtrees
  <2>1. /\ verify_pc = "subtrees" /\ verify_pc' = "subtrees"
        /\ v_delta' = v_delta /\ v_opening' = v_opening
        /\ UNCHANGED <<v_leaves, v_hashed, v_frame, v_treeVars>>
    <3>1. v_calls # <<>> => verify_pc = "subtrees"
      BY DEF ReceivedInv
    <3> QED
      BY <1>2, <3>1 DEF CallWhole, CallPartial, ExpandSubtrees, v_input, v_expandVars
  <2>2. GrowInv'
    BY <1>2, CallWholeGrows, CallPartialGrows, ExpandSubtreesGrows
  <2>3. ReceivedInv'
    BY <2>1 DEF ReceivedInv
  <2>4. MemoryInv' /\ LoopInv' /\ LevelInv'
    BY <2>1, SubtreesKeep
  <2> QED
    BY <1>1, <2>2, <2>3, <2>4
<1>3. CASE EndSubtrees \/ CallSubtree \/ VerifyExpands \/ KeepLeaves \/ FinishTree \/ VerifyReturn
  <2>1. /\ verify_pc \in {"subtrees", "level", "subtree"}
        /\ verify_pc' \in {"level", "subtree", "accepted"}
        /\ v_delta' = v_delta /\ v_opening' = v_opening /\ v_calls' = <<>>
    <3>1. CASE VerifyExpands
      <4>1. verify_pc' = verify_pc /\ v_delta' = v_delta /\ v_opening' = v_opening
            /\ v_calls' = v_calls /\ v_frame.busy
        BY <3>1 DEF VerifyExpands, v_input, V!ExpandStep, V!PickAncestor, V!Descend, V!EndChunk
      <4>2. verify_pc = "subtree"
        BY <4>1 DEF MemoryInv
      <4> QED
        BY <4>1, <4>2 DEF ReceivedInv
    <3>2. CASE ~VerifyExpands
      BY <1>3, <3>2 DEF ReceivedInv, EndSubtrees, CallSubtree, KeepLeaves, FinishTree, VerifyReturn,
                        v_input
    <3> QED
      BY <3>1, <3>2
  <2>2. ReceivedInv'
    BY <2>1 DEF ReceivedInv
  <2>3. GrowInv'
    BY <2>1 DEF GrowInv
  <2>4. IsIndex(v_delta.index) /\ IsWritten(v_opening)
    BY <2>1 DEF ReceivedInv
  <2>5. CASE EndSubtrees
    <3>1. TopsKnown(v_opening, v_forest)
      <4>1. verify_pc = "subtrees" /\ v_calls = <<>> /\ v_d = 0
        BY <2>5 DEF EndSubtrees
      <4>2. Grown(v_opening, v_forest, <<>>, v_i) /\ v_i \in Nat
            /\ (0 < TREE_CHUNK_SIZE_SHIFT => v_i >= Limit(1))
        <5>1. 0 + 1 = 1
          OBVIOUS
        <5> QED
          BY <4>1, <5>1 DEF GrowInv, SubtreeInv
      <4>3. PICK o, f, i : o = v_opening /\ f = v_forest /\ i = v_i
        OBVIOUS
      <4>4. TopsKnown(o, f)
        BY <4>2, <4>3, GrownAll
      <4> QED
        BY <4>3, <4>4
    <3> QED
      BY <1>1, <2>2, <2>3, <2>4, <2>5, <3>1, EndSubtreesKeeps
  <2>6. CASE CallSubtree
    BY <1>1, <2>2, <2>3, <2>4, <2>6, CallSubtreeKeeps
  <2>7. CASE VerifyExpands
    BY <1>1, <2>2, <2>3, <2>4, <2>7, VerifyExpandsKeeps
  <2>8. CASE KeepLeaves
    BY <1>1, <2>2, <2>3, <2>4, <2>8, KeepLeavesKeeps
  <2>9. CASE FinishTree
    BY <1>1, <2>2, <2>3, <2>4, <2>9, FinishTreeKeeps
  <2>10. CASE VerifyReturn
    BY <1>1, <2>2, <2>3, <2>10, VerifyReturnKeeps
  <2> QED
    BY <1>3, <2>5, <2>6, <2>7, <2>8, <2>9, <2>10
<1> QED
  BY <1>2, <1>3 DEF VerifyStep

---------------------------------------------------------------------------
(* The opening, as far as vector_open has written it.                        *)
FullSeeds(o, index, v, n) ==
  \A d \in 0 .. n - 1 : o[OpeningStart(v) + d] = Beside(index, v, d + 1)

FullVector(o, index, v) ==
  /\ FullSeeds(o, index, v, Depth(v))
  /\ \A e \in Depth(v) .. Depth(v) + 1 : o[OpeningStart(v) + e] = LeafNode(v, index[v])

OpenedInv ==
  /\ open_pc \in {"idle", "open", "opened"}
  /\ open_pc = "idle" => leaf_idx = 0 /\ open_base = 0
  /\ open_pc = "open" =>
       /\ open_vec \in 0 .. BITS_PER_WITNESS
       /\ open_pos = OpeningStart(open_vec) + (open_d - 1)
       /\ open_vec = BITS_PER_WITNESS => open_d = 1
       /\ \A v \in Vec : v < open_vec => FullVector(opening, delta.index, v)
       /\ open_vec \in Vec =>
            /\ FullSeeds(opening, delta.index, open_vec, open_d - 1)
            /\ leaf_idx = PathIndex(delta.index, open_vec, open_d - 1)
            /\ open_base = FirstLeaf(open_vec)
  /\ open_pc = "opened" =>
       /\ open_pos = OpeningStart(BITS_PER_WITNESS)
       /\ \A v \in Vec : FullVector(opening, delta.index, v)
  /\ \A s \in OpeningSlot : s < open_pos => opening[s] \in Nat

(* A seed or a commitment added leaves what is of other vectors in place.    *)
LEMMA VectorKept ==
  ASSUME NEW o, NEW o2, NEW index, NEW v \in Vec, FullVector(o, index, v),
         NEW u \in Vec, u # v,
         \A s \in OpeningSlot : (\A e \in 0 .. Depth(u) + 1 : s # OpeningStart(u) + e) => o2[s] = o[s]
  PROVE  FullVector(o2, index, v)
<1>1. ASSUME NEW d \in 0 .. Depth(v) + 1 PROVE o2[OpeningStart(v) + d] = o[OpeningStart(v) + d]
  <2>1. OpeningStart(v) + d \in OpeningSlot
        /\ \A e \in 0 .. Depth(u) + 1 : OpeningStart(v) + d # OpeningStart(u) + e
    BY OpeningPlaces
  <2> QED
    BY <2>1
<1>2. \A d \in 0 .. Depth(v) - 1 : d \in 0 .. Depth(v) + 1
  BY DepthRange
<1>3. \A d \in Depth(v) .. Depth(v) + 1 : d \in 0 .. Depth(v) + 1
  BY DepthRange
<1> QED
  BY <1>1, <1>2, <1>3 DEF FullVector, FullSeeds

(* What vector_open writes is a seed of the forest.                         *)
LEMMA BesideValue ==
  ASSUME NEW index, IsIndex(index), NEW v \in Vec, NEW e \in 0 .. Depth(v) - 1
  PROVE  Beside(index, v, e + 1) \in Nat
BY PathChild

(* The path of a vector ends at its hidden leaf.                            *)
LEMMA LastPath ==
  ASSUME NEW index, IsIndex(index), NEW v \in Vec
  PROVE  PathIndex(index, v, Depth(v)) = index[v]
<1>1. Depth(v) \in Nat /\ index[v] \in Nat /\ Depth(v) - Depth(v) = 0 /\ Pow2[0] = 1
  BY LeafRange, Pow2Values DEF IsIndex
<1>2. \A y \in Nat : y \div 1 = y
  OBVIOUS
<1> QED
  BY <1>1, <1>2 DEF PathIndex

LEMMA OpenLevelFills ==
  ASSUME ForestInv, OpenInv, OpenedInv, OpenLevel
  PROVE  OpenedInv'
<1> DEFINE v == open_vec
           e == open_d - 1
           index == delta.index
           b == Beside(index, v, e + 1)
           z == OpeningStart(v)
<1>1. /\ open_pc = "open" /\ open_pc' = "open" /\ delta' = delta /\ open_vec' = v
      /\ open_pos' = open_pos + 1 /\ open_d' = open_d + 1
      /\ v \in Vec /\ open_pos = z + e
      /\ IsIndex(index)
      /\ Depth(v) \in Nat /\ e \in 0 .. Depth(v) - 1 /\ e \in Nat /\ open_d' - 1 = e + 1
      /\ z \in Nat
      /\ \A s \in OpeningSlot : opening'[s] = IF s = z + e THEN b ELSE opening[s]
      /\ Hole = PathIndex(index, v, e + 1) % 2
  BY OpenLevelWrites
<1>2. leaf_idx' = 2 * leaf_idx + Hole /\ open_base' = open_base
  BY DEF OpenLevel
<1>3. /\ open_vec \in 0 .. BITS_PER_WITNESS
      /\ \A w \in Vec : w < v => FullVector(opening, index, w)
      /\ FullSeeds(opening, index, v, e) /\ leaf_idx = PathIndex(index, v, e)
      /\ open_base = FirstLeaf(v)
      /\ \A s \in OpeningSlot : s < z + e => opening[s] \in Nat
  BY <1>1 DEF OpenedInv
<1>4. b \in Nat
  BY <1>1, BesideValue
<1>5. v # BITS_PER_WITNESS
  BY <1>1, TreeSizes DEF Vec
<1>6. e \in 0 .. Depth(v) + 1 /\ \A d \in 0 .. e : d \in 0 .. Depth(v) + 1
  BY <1>1
<1> HIDE DEF b
<1>7. ASSUME NEW w \in Vec, w < v PROVE FullVector(opening', index, w)
  <2>1. w # v
    BY <1>7, DepthRange
  <2>2. \A s \in OpeningSlot : (\A d \in 0 .. Depth(v) + 1 : s # OpeningStart(v) + d) =>
                                 opening'[s] = opening[s]
    BY <1>1, <1>6
  <2>3. PICK o, o2, i2, u : o = opening /\ o2 = opening' /\ i2 = index /\ u = v
    OBVIOUS
  <2>4. FullVector(o, i2, w) /\ u \in Vec /\ u # w
        /\ \A s \in OpeningSlot : (\A d \in 0 .. Depth(u) + 1 : s # OpeningStart(u) + d) => o2[s] = o[s]
    BY <1>1, <1>3, <1>7, <2>1, <2>2, <2>3
  <2>5. FullVector(o2, i2, w)
    BY <2>4, VectorKept
  <2> QED
    BY <2>3, <2>5
<1>8. FullSeeds(opening', index, v, e + 1)
  <2> SUFFICES ASSUME NEW d \in 0 .. e PROVE opening'[z + d] = Beside(index, v, d + 1)
    BY <1>1 DEF FullSeeds
  <2>1. z + d \in OpeningSlot
    BY <1>1, <1>6, OpeningPlaces
  <2>2. CASE d = e
    BY <1>1, <2>1, <2>2 DEF b
  <2>3. CASE d # e
    <3>1. d \in 0 .. e - 1 /\ z + d # z + e
      <4> HIDE DEF e, z
      <4> QED
        BY <1>1, <2>3
    <3>2. opening[z + d] = Beside(index, v, d + 1)
      BY <1>3, <3>1 DEF FullSeeds
    <3> QED
      BY <1>1, <2>1, <3>1, <3>2
  <2> QED
    BY <2>2, <2>3
<1>9. leaf_idx' = PathIndex(index, v, e + 1)
  <2>1. PathIndex(index, v, e + 1) = 2 * PathIndex(index, v, e) + (PathIndex(index, v, e + 1) % 2)
    BY <1>1, Path
  <2> QED
    BY <1>1, <1>2, <1>3, <2>1
<1>10. ASSUME NEW s \in OpeningSlot, s < open_pos' PROVE opening'[s] \in Nat
  <2>1. s \in Int
    BY DEF OpeningSlot
  <2>2. s < z + e \/ s = z + e
    <3> HIDE DEF e, z
    <3> QED
      BY <1>1, <1>10, <2>1
  <2> QED
    BY <1>1, <1>3, <1>4, <2>2
<1>11. open_pos' = z + (open_d' - 1)
  BY <1>1
<1> QED
  BY <1>1, <1>2, <1>3, <1>5, <1>7, <1>8, <1>9, <1>10, <1>11 DEF OpenedInv

(* The commitment opened is the one of the hidden leaf.                      *)
LEMMA OpenCommitmentFills ==
  ASSUME OpenInv, OutputsCorrect, OpenedInv, OpenCommitment
  PROVE  OpenedInv'
<1> DEFINE v == open_vec
           n == Depth(v)
           index == delta.index
           com == hashed_leaves[open_base + leaf_idx]
           z == OpeningStart(v)
<1>1. /\ open_pc = "open" /\ open_pc' = "open" /\ delta' = delta
      /\ open_vec < BITS_PER_WITNESS /\ open_vec' = v + 1 /\ open_d' = 1
      /\ open_pos' = open_pos + 2
      /\ v \in Vec /\ v \in Nat /\ n \in Nat /\ open_d = n + 1
      /\ open_pos = z + n
      /\ n \in 0 .. n + 1 /\ n + 1 \in 0 .. n + 1
      /\ z \in Nat /\ OpeningStart(v + 1) = open_pos + 2
      /\ IsIndex(index)
      /\ \A s \in OpeningSlot :
           opening'[s] = IF s = z + n \/ s = z + (n + 1) THEN com ELSE opening[s]
  BY OpenCommitmentWrites
<1>2. leaf_idx' = 0 /\ open_base' = open_base + Pow2[n]
  BY DEF OpenCommitment
<1>3. /\ v \in 0 .. BITS_PER_WITNESS /\ v + 1 \in 0 .. BITS_PER_WITNESS
      /\ \A w \in Vec : w < v => FullVector(opening, index, w)
      /\ FullSeeds(opening, index, v, n) /\ leaf_idx = PathIndex(index, v, n)
      /\ open_base = FirstLeaf(v)
      /\ \A s \in OpeningSlot : s < z + n => opening[s] \in Nat
  <2>1. open_d - 1 = n
    BY <1>1
  <2>2. v + 1 \in 0 .. BITS_PER_WITNESS
    BY <1>1, TreeSizes
  <2> QED
    BY <1>1, <2>1, <2>2 DEF OpenedInv
<1>4. com = LeafNode(v, index[v]) /\ com \in Nat
  <2>1. commit_pc = "done"
    BY <1>1 DEF OpenInv
  <2>2. index[v] \in Leaf(v) /\ index[v] \in Nat
    BY <1>1, LeafRange DEF IsIndex
  <2>3. leaf_idx = index[v]
    BY <1>1, <1>3, LastPath
  <2>4. hashed_leaves[FirstLeaf(v) + index[v]] = LeafNode(v, index[v])
    BY <1>1, <2>1, <2>2 DEF OutputsCorrect
  <2>5. LeafNode(v, index[v]) \in Nat
    <3>1. FD(v, n) \in Nat /\ LeafNode(v, index[v]) = FD(v, n) + index[v]
      BY <1>1, FirstNat DEF LeafNode, FD
    <3> QED
      BY <2>2, <3>1
  <2> QED
    BY <1>3, <2>3, <2>4, <2>5
<1> HIDE DEF com
<1>5. ASSUME NEW w \in Vec, w < v + 1 PROVE FullVector(opening', index, w)
  <2>1. CASE w = v
    <3>1. ASSUME NEW d \in 0 .. n - 1 PROVE opening'[z + d] = Beside(index, v, d + 1)
      <4>1. z + d \in OpeningSlot
        BY <1>1, SeedPlace
      <4>2. z + d # z + n /\ z + d # z + (n + 1)
        <5> HIDE DEF z, n
        <5> QED
          BY <1>1
      <4>3. opening[z + d] = Beside(index, v, d + 1)
        BY <1>3 DEF FullSeeds
      <4> QED
        BY <1>1, <4>1, <4>2, <4>3
    <3>2. ASSUME NEW d \in n .. n + 1 PROVE opening'[z + d] = LeafNode(v, index[v])
      <4>1. d = n \/ d = n + 1
        <5> HIDE DEF n
        <5> QED
          BY <1>1
      <4>2. z + d \in OpeningSlot
        BY <1>1, <4>1, OpeningPlaces
      <4> QED
        BY <1>1, <1>4, <4>1, <4>2
    <3> QED
      BY <2>1, <3>1, <3>2 DEF FullVector, FullSeeds
  <2>2. CASE w # v
    <3>1. w < v
      BY <1>1, <1>5, <2>2, DepthRange
    <3>2. \A s \in OpeningSlot : (\A d \in 0 .. Depth(v) + 1 : s # OpeningStart(v) + d) =>
                                   opening'[s] = opening[s]
      BY <1>1
    <3>3. PICK o, o2, i2, u : o = opening /\ o2 = opening' /\ i2 = index /\ u = v
      OBVIOUS
    <3>4. FullVector(o, i2, w) /\ u \in Vec /\ u # w
          /\ \A s \in OpeningSlot : (\A d \in 0 .. Depth(u) + 1 : s # OpeningStart(u) + d) => o2[s] = o[s]
      BY <1>1, <1>3, <2>2, <3>1, <3>2, <3>3
    <3>5. FullVector(o2, i2, w)
      BY <3>4, VectorKept
    <3> QED
      BY <3>3, <3>5
  <2> QED
    BY <2>1, <2>2
<1>6. ASSUME NEW s \in OpeningSlot, s < open_pos' PROVE opening'[s] \in Nat
  <2>1. s \in Int
    BY DEF OpeningSlot
  <2>2. s < z + n \/ s = z + n \/ s = z + (n + 1)
    <3> HIDE DEF n, z
    <3> QED
      BY <1>1, <1>6, <2>1
  <2> QED
    BY <1>1, <1>3, <1>4, <2>2
<1>7. open_pos' = OpeningStart(v + 1) + (open_d' - 1)
  <2> HIDE DEF n, z
  <2> QED
    BY <1>1
<1>8. v + 1 \in Vec => /\ FullSeeds(opening', index, v + 1, open_d' - 1)
                       /\ leaf_idx' = PathIndex(index, v + 1, open_d' - 1)
                       /\ open_base' = FirstLeaf(v + 1)
  <2> SUFFICES ASSUME v + 1 \in Vec
               PROVE  /\ FullSeeds(opening', index, v + 1, 0)
                      /\ leaf_idx' = PathIndex(index, v + 1, 0)
                      /\ open_base' = FirstLeaf(v + 1)
    BY <1>1
  <2>1. FullSeeds(opening', index, v + 1, 0)
    BY DEF FullSeeds
  <2>2. leaf_idx' = PathIndex(index, v + 1, 0)
    BY <1>1, <1>2, Path
  <2>3. open_base' = FirstLeaf(v + 1)
    BY <1>1, <1>2, <1>3, LeafParts, TreeSizes
  <2> QED
    BY <2>1, <2>2, <2>3
<1> QED
  BY <1>1, <1>3, <1>5, <1>6, <1>7, <1>8 DEF OpenedInv

LEMMA OpenCallFills ==
  ASSUME OpenInv, OpenedInv, open_pc = "idle", NEW index, IsIndex(index),
         OpenCall([index |-> index, topZero |-> TRUE])
  PROVE  OpenedInv'
<1>1. /\ delta' = [index |-> index, topZero |-> TRUE]
      /\ open_pc' = "open" /\ opening' = opening /\ open_vec' = open_vec /\ open_d' = open_d
      /\ open_pos' = open_pos /\ leaf_idx' = leaf_idx /\ open_base' = open_base
  BY DEF OpenCall
<1>2. /\ open_vec = 0 /\ open_d = 1 /\ open_pos = 0 /\ leaf_idx = 0 /\ open_base = 0
      /\ 1 - 1 = 0
  BY DEF OpenInv, OpenedInv
<1>3. 0 \in Vec /\ 0 \in 0 .. BITS_PER_WITNESS /\ 0 # BITS_PER_WITNESS /\ FirstLeaf(0) = 0
      /\ OpeningStart(0) = 0 /\ OpeningStart(0) + 0 = 0
  BY FirstPlaces
<1>4. \A w \in Vec : ~(w < 0)
  BY DepthRange
<1>5. FullSeeds(opening', delta'.index, 0, 0)
  BY DEF FullSeeds
<1>6. PathIndex(index, 0, 0) = 0
  BY <1>3, Path
<1>7. \A s \in OpeningSlot : s < open_pos' => opening'[s] \in Nat
  BY <1>1 DEF OpenedInv
<1>8. open_pos' = OpeningStart(open_vec') + (open_d' - 1)
  BY <1>1, <1>2, <1>3
<1>9. /\ FullSeeds(opening', delta'.index, open_vec', open_d' - 1)
      /\ leaf_idx' = PathIndex(delta'.index, open_vec', open_d' - 1)
      /\ open_base' = FirstLeaf(open_vec')
  <2>1. open_vec' = 0 /\ open_d' - 1 = 0 /\ leaf_idx' = 0 /\ open_base' = 0
    BY <1>1, <1>2
  <2>2. delta'.index = index
    BY <1>1
  <2> QED
    BY <1>3, <1>5, <1>6, <2>1, <2>2, Zenon
<1>10. \A v \in Vec : v < open_vec' => FullVector(opening', delta'.index, v)
  BY <1>1, <1>2, <1>4
<1> QED
  BY <1>1, <1>2, <1>3, <1>7, <1>8, <1>9, <1>10 DEF OpenedInv

LEMMA OpenReturnFills ==
  ASSUME OpenedInv, OpenReturn
  PROVE  OpenedInv'
<1>1. /\ open_pc = "open" /\ open_vec = BITS_PER_WITNESS /\ open_pc' = "opened"
      /\ delta' = delta /\ opening' = opening /\ open_pos' = open_pos
  BY DEF OpenReturn
<1>2. /\ open_pos = OpeningStart(BITS_PER_WITNESS)
      /\ \A v \in Vec : FullVector(opening, delta.index, v)
  <2>1. open_d = 1 /\ open_pos = OpeningStart(BITS_PER_WITNESS) + (open_d - 1)
        /\ \A v \in Vec : v < BITS_PER_WITNESS => FullVector(opening, delta.index, v)
    BY <1>1 DEF OpenedInv
  <2>2. OpeningStart(BITS_PER_WITNESS) \in Nat /\ BITS_PER_WITNESS \in Nat
    BY OpeningParts, TreeSizes
  <2>3. \A v \in Vec : v < BITS_PER_WITNESS
    BY DepthRange, TreeSizes DEF Vec
  <2> QED
    BY <2>1, <2>2, <2>3
<1>3. \A s \in OpeningSlot : s < open_pos' => opening'[s] \in Nat
  BY <1>1 DEF OpenedInv
<1> QED
  BY <1>1, <1>2, <1>3 DEF OpenedInv

---------------------------------------------------------------------------
LEMMA OpenedSteps ==
  ASSUME ForestInv, OutputsCorrect, OpenInv, OpenedInv, [Next]_vars
  PROVE  OpenedInv'
<1>1. CASE SignerChallenged
  <2>1. PICK index \in Challenges : OpenCall([index |-> index, topZero |-> TRUE])
    BY <1>1 DEF SignerChallenged
  <2>2. IsIndex(index) /\ open_pc = "idle"
    BY <1>1, ChallengeAssumption DEF SignerChallenged
  <2> QED
    BY <2>1, <2>2, OpenCallFills
<1>2. CASE SignerOpens
  BY <1>2, OpenLevelFills, OpenCommitmentFills, OpenReturnFills DEF SignerOpens, OpenStep
<1>3. CASE ~(SignerChallenged \/ SignerOpens)
  <2>1. UNCHANGED openVars
    BY <1>3 DEF Next, vars, SignerCommits, VerifierReceives, VerifierVerifies, Over
  <2>2. /\ open_pc' = open_pc /\ open_vec' = open_vec /\ open_d' = open_d /\ open_pos' = open_pos
        /\ opening' = opening /\ delta' = delta /\ leaf_idx' = leaf_idx /\ open_base' = open_base
    BY <2>1 DEF openVars
  <2> QED
    BY <2>2 DEF OpenedInv
<1> QED
  BY <1>1, <1>2, <1>3

(* The invariant of vector_open.                                            *)
LEMMA OpenedInvariant ==
  ASSUME LEAF_CHUNK_SIZE_SHIFT <= TREE_CHUNK_SIZE_SHIFT
  PROVE  Spec => []OpenedInv
<1>1. Init => OpenedInv
  <2> SUFFICES ASSUME OpenInit PROVE OpenedInv
    BY DEF Init
  <2>1. /\ open_pc = "idle" /\ leaf_idx = 0 /\ open_base = 0 /\ open_pos = 0
    BY DEF OpenInit
  <2>2. \A s \in OpeningSlot : ~(s < 0)
    BY DEF OpeningSlot
  <2> QED
    BY <2>1, <2>2 DEF OpenedInv
<1>2. ForestInv /\ OutputsCorrect /\ OpenInv /\ OpenedInv /\ [Next]_vars => OpenedInv'
  BY OpenedSteps
<1> QED
  BY <1>1, <1>2, ForestInvariant, OutputsPlaced, OpenInvariant, PTL DEF Spec

(* The opening is written to the end.                                        *)
LEMMA OpeningWhole ==
  OpeningStart(BITS_PER_WITNESS) = NONZERO_BITS_IN_CHALLENGE_3 + 2 * BITS_PER_WITNESS
<1> DEFINE t == BITS_PER_WITNESS
           n == VOLE_MIN_K
           m == VOLES_MAX_K
<1>1. t \in Nat /\ m \in Nat /\ n \in Nat /\ m < t /\ T = t * n + m
  BY TreeSizes, SubtreeCount
<1>2. OpeningStart(t) = t * (n + 2) + m
  BY <1>1 DEF OpeningStart
<1>3. t * (n + 2) = t * n + 2 * t /\ t * n \in Nat
  BY <1>1
<1> DEFINE a == t * n
<1>4. OpeningStart(t) = (a + 2 * t) + m /\ a \in Nat /\ T = a + m
  BY <1>1, <1>2, <1>3
<1> HIDE DEF a
<1> QED
  BY <1>1, <1>4 DEF T

(* A finished opening has no slot that was not written.                     *)
LEMMA OpeningValues ==
  ASSUME OpenedInv, open_pc = "opened"
  PROVE  \A s \in OpeningSlot : opening[s] \in Nat
<1>1. open_pos = NONZERO_BITS_IN_CHALLENGE_3 + 2 * BITS_PER_WITNESS
  BY OpeningWhole DEF OpenedInv
<1>2. NONZERO_BITS_IN_CHALLENGE_3 + 2 * BITS_PER_WITNESS \in Nat
  BY SubtreeSizes
<1>3. \A s \in OpeningSlot : s < open_pos
  <2> DEFINE c == NONZERO_BITS_IN_CHALLENGE_3 + 2 * BITS_PER_WITNESS
  <2>1. OpeningSlot = 0 .. c - 1
    <3>1. NONZERO_BITS_IN_CHALLENGE_3 + 2 * BITS_PER_WITNESS - 1 = c - 1
      BY SubtreeSizes
    <3> QED
      BY <3>1, Zenon DEF OpeningSlot
  <2>2. c \in Nat /\ open_pos = c
    BY <1>1, <1>2
  <2> HIDE DEF c
  <2> QED
    BY <2>1, <2>2
<1> QED
  BY <1>3 DEF OpenedInv

(* Whatever the verifier gets, it is memory that was written.                *)
LEMMA ReceivedWritten ==
  ASSUME OpenInv, OpenedInv, open_pc = "opened", NEW r \in Received
  PROVE  IsIndex(r[1].index) /\ IsWritten(r[2])
<1>1. \A x \in Nat : x \in Block \ {Uninit}
  BY DEF Block, Uninit
<1>2. Zero \in Block \ {Uninit} /\ Junk \in Block \ {Uninit}
  BY DEF Block, Uninit, Zero, Junk
<1>3. \A s \in OpeningSlot : opening[s] \in Block \ {Uninit}
  BY <1>1, OpeningValues
<1> HIDE DEF Block, Uninit, Zero, Junk
<1>4. IsIndex(delta.index) /\ opening = [s \in OpeningSlot |-> opening[s]]
  BY DEF OpenInv
<1>5. CASE r = <<delta, opening>>
  BY <1>3, <1>4, <1>5 DEF IsWritten
<1>6. CASE r \in {delta} \X Altered(opening)
  <2>1. r[1] = delta /\ r[2] \in Altered(opening)
    BY <1>6
  <2>2. PICK s \in OpeningSlot, b \in {Zero, Junk} : r[2] = [opening EXCEPT ![s] = b]
    BY <2>1 DEF Altered
  <2>3. ASSUME NEW x \in OpeningSlot PROVE r[2][x] \in Block \ {Uninit}
    <3>1. r[2][x] = IF x = s THEN b ELSE opening[x]
      BY <1>4, <2>2
    <3> QED
      BY <1>2, <1>3, <3>1
  <2> QED
    BY <1>4, <2>1, <2>3 DEF IsWritten
<1>7. CASE r \in [index : Challenges, topZero : BOOLEAN] \X {opening}
  <2>1. r[1] \in [index : Challenges, topZero : BOOLEAN] /\ r[2] = opening
    BY <1>7
  <2>2. r[1].index \in Challenges
    BY <2>1
  <2> QED
    BY <1>3, <2>1, <2>2, ChallengeAssumption DEF IsWritten
<1> QED
  BY <1>5, <1>6, <1>7 DEF Received

---------------------------------------------------------------------------
(* The invariant of the verifier, on every opening it may be given.         *)
LEMMA VerifierInvariant ==
  ASSUME LEAF_CHUNK_SIZE_SHIFT <= TREE_CHUNK_SIZE_SHIFT
  PROVE  Spec => []VerifierInv
<1>1. SubtreeInv /\ Init => VerifierInv
  <2> SUFFICES ASSUME SubtreeInv, VerifyInit PROVE VerifierInv
    BY DEF Init
  <2>1. /\ verify_pc = "idle" /\ v_calls = <<>> /\ v_tree = 0 /\ v_j = 0 /\ v_base = 0 /\ v_src = 0
        /\ last_chunk = EmptyChunk /\ v_frame = V!NoFrame
        /\ v_leaves = [s \in Slot |-> Uninit] /\ v_hashed = [s \in Slot |-> Uninit]
    BY DEF VerifyInit
  <2>2. IsOut(v_leaves) /\ IsOut(v_hashed)
    BY <2>1 DEF IsOut
  <2>3. IsFrame(v_frame) /\ ~v_frame.busy /\ v_frame.busy \in BOOLEAN
    BY <2>1 DEF IsFrame, V!NoFrame
  <2>4. MemoryInv
    BY <2>2, <2>3 DEF MemoryInv
  <2>5. LoopInv
    BY <2>1 DEF LoopInv
  <2>6. LevelInv
    BY <2>1 DEF LevelInv
  <2>7. ReceivedInv /\ GrowInv
    BY <2>1 DEF ReceivedInv, GrowInv
  <2> QED
    BY <2>4, <2>5, <2>6, <2>7 DEF VerifierInv
<1>2. SubtreeInv' /\ OpenInv /\ OpenedInv /\ VerifierInv /\ [Next]_vars => VerifierInv'
  <2> SUFFICES ASSUME SubtreeInv', OpenInv, OpenedInv, VerifierInv, [Next]_vars
               PROVE  VerifierInv'
    OBVIOUS
  <2>1. CASE VerifierVerifies
    BY <2>1, VerifyStepKeeps DEF VerifierVerifies
  <2>2. CASE VerifierReceives
    <3>1. PICK r \in Received : VerifyCall(r[1], r[2])
      BY <2>2 DEF VerifierReceives
    <3>2. IsIndex(r[1].index) /\ IsWritten(r[2])
      BY <2>2, ReceivedWritten DEF VerifierReceives
    <3> QED
      BY <3>1, <3>2, VerifyCallKeeps
  <2>3. CASE ~(VerifierVerifies \/ VerifierReceives)
    <3>1. UNCHANGED verifyVars
      BY <2>3 DEF Next, vars, SignerCommits, SignerChallenged, SignerOpens, Over
    <3>2. /\ v_delta' = v_delta /\ v_opening' = v_opening /\ v_forest' = v_forest
          /\ v_leaves' = v_leaves /\ v_hashed' = v_hashed /\ v_frame' = v_frame
          /\ v_calls' = v_calls /\ v_i' = v_i /\ v_d' = v_d
          /\ v_tree' = v_tree /\ v_j' = v_j /\ v_root' = v_root /\ last_chunk' = last_chunk
          /\ v_base' = v_base /\ v_src' = v_src /\ verify_pc' = verify_pc
      BY <3>1 DEF verifyVars, v_input, v_expandVars, v_treeVars
    <3>3. ReceivedInv' /\ GrowInv'
      BY <3>2 DEF VerifierInv, ReceivedInv, GrowInv
    <3>4. MemoryInv'
      BY <3>2 DEF VerifierInv, MemoryInv, Height
    <3>5. LoopInv'
      BY <3>2 DEF VerifierInv, LoopInv
    <3>6. LevelInv'
      BY <3>2 DEF VerifierInv, LevelInv, Height
    <3> QED
      BY <3>3, <3>4, <3>5, <3>6 DEF VerifierInv
  <2> QED
    BY <2>1, <2>2, <2>3
<1> QED
  BY <1>1, <1>2, SubtreeInvariant, OpenInvariant, OpenedInvariant, PTL DEF Spec

---------------------------------------------------------------------------
(* The outputs are those of the vectors, one after the other.                *)
LEMMA SlotParts ==
  ASSUME NEW n \in Nat, n <= BITS_PER_WITNESS, NEW s \in Nat, s < FirstLeaf(n)
  PROVE  \E v \in Vec : \E x \in Leaf(v) : v < n /\ s = FirstLeaf(v) + x
<1> DEFINE A == {w \in Nat : w <= BITS_PER_WITNESS /\ s < FirstLeaf(w)}
<1>1. n \in A /\ A \in SUBSET Nat
  OBVIOUS
<1>2. \A w \in A : w \in Nat /\ w <= BITS_PER_WITNESS /\ s < FirstLeaf(w)
  OBVIOUS
<1>3. \A w \in Nat : w <= BITS_PER_WITNESS /\ w \notin A => ~(s < FirstLeaf(w))
  OBVIOUS
<1> HIDE DEF A
<1>4. PICK w \in A : \A z \in A : w <= z
  BY <1>1, LeastElement
<1>5. w \in Nat /\ w <= BITS_PER_WITNESS /\ s < FirstLeaf(w) /\ w <= n
  BY <1>1, <1>2, <1>4
<1>6. w # 0
  BY <1>5, FirstPlaces
<1>7. PICK v \in Nat : v = w - 1
  BY <1>5, <1>6
<1>8. v \in Vec /\ v < n /\ v <= BITS_PER_WITNESS /\ v + 1 = w /\ v < w
  BY <1>5, <1>7, TreeSizes DEF Vec
<1>9. ~(s < FirstLeaf(v)) /\ FirstLeaf(v) \in Nat /\ FirstLeaf(w) = FirstLeaf(v) + Pow2[Depth(v)]
      /\ Pow2[Depth(v)] \in Nat /\ Leaf(v) = 0 .. Pow2[Depth(v)] - 1
  <2>1. v \notin A
    BY <1>4, <1>8, <1>5
  <2> QED
    BY <1>3, <1>8, <2>1, LeafParts, LeafRange
<1>10. PICK x \in Leaf(v) : s = FirstLeaf(v) + x
  <2>1. s - FirstLeaf(v) \in 0 .. Pow2[Depth(v)] - 1 /\ s = FirstLeaf(v) + (s - FirstLeaf(v))
    BY <1>5, <1>9
  <2> QED
    BY <1>9, <2>1
<1> QED
  BY <1>8, <1>10

(* Every key of a vector is the key of a leaf.                               *)
LEMMA PlaceOnto ==
  ASSUME NEW index, IsIndex(index), NEW v \in Vec, NEW x \in Leaf(v)
  PROVE  \E y \in Leaf(v) : LPlace(index, v, y) = FirstLeaf(v) + x
<1> DEFINE f == [y \in Leaf(v) |-> PermuteInv(XorIndex(y, index[v]))]
           n == Depth(v)
<1>1. index[v] \in Leaf(v) /\ n \in Nat /\ Leaf(v) = 0 .. Pow2[n] - 1
  BY LeafRange DEF IsIndex
<1>2. f \in [Leaf(v) -> Leaf(v)]
  BY <1>1, XorLeaf, PermutationAssumption
<1>3. ASSUME NEW a \in Leaf(v), NEW b \in Leaf(v), f[a] = f[b] PROVE a = b
  <2>1. /\ XorIndex(a, index[v]) \in Leaf(v) /\ XorIndex(b, index[v]) \in Leaf(v)
        /\ XorIndex(XorIndex(a, index[v]), index[v]) = a
        /\ XorIndex(XorIndex(b, index[v]), index[v]) = b
    BY <1>1, XorLeaf
  <2>2. PermuteInv(XorIndex(a, index[v])) = PermuteInv(XorIndex(b, index[v]))
    BY <1>3
  <2>3. XorIndex(a, index[v]) = XorIndex(b, index[v])
    BY <2>1, <2>2, PermutationAssumption
  <2> QED
    BY <2>1, <2>3
<1>4. PICK g : g = f
  OBVIOUS
<1>5. \A y \in Leaf(v) : g[y] = PermuteInv(XorIndex(y, index[v]))
  BY <1>4
<1> HIDE DEF f
<1>6. /\ g \in [0 .. Pow2[n] - 1 -> 0 .. Pow2[n] - 1] /\ x \in 0 .. Pow2[n] - 1
      /\ \A a, b \in 0 .. Pow2[n] - 1 : g[a] = g[b] => a = b
  BY <1>1, <1>2, <1>3, <1>4, Zenon
<1> HIDE DEF n
<1>7. \E y \in 0 .. Pow2[n] - 1 : g[y] = x
  BY <1>1, <1>6, OneToOneOnto, ZenonT(60)
<1> QED
  BY <1>1, <1>5, <1>7, Zenon DEF LPlace

(* The key of the hidden leaf comes first.                                   *)
LEMMA HiddenPlace ==
  ASSUME NEW index, IsIndex(index), NEW v \in Vec
  PROVE  LPlace(index, v, index[v]) = FirstLeaf(v) /\ index[v] \in Leaf(v)
<1>1. index[v] \in Leaf(v) /\ FirstLeaf(v) \in Nat
  BY LeafParts, DepthRange, TreeSizes DEF IsIndex
<1>2. PermuteInv(XorIndex(index[v], index[v])) = 0
  BY <1>1, XorLeaf, PermutationAssumption
<1> QED
  BY <1>1, <1>2 DEF LPlace

(* From memory that was written, memory is written.                          *)
LEMMA ValueWritten ==
  ASSUME NEW o, IsWritten(o), NEW index, IsIndex(index), NEW u \in Vec,
         NEW h \in 0 .. Depth(u) - 1, NEW x \in Sub(index, u, h)
  PROVE  VValue(o, u, h, x) # Uninit /\ LeafPrg(VValue(o, u, h, x)) # Uninit
<1>1. PICK d \in 0 .. Depth(u) - 1 : d = Depth(u) - 1 - h
  BY DepthRange
<1>2. Seed(o, u, h) \in Block \ {Uninit}
  <2>1. OpeningStart(u) + d \in OpeningSlot
    BY SeedPlace
  <2> QED
    BY <1>1, <2>1 DEF Seed, IsWritten
<1>3. h \in Nat /\ x % Pow2[h] \in Nat
  <2>1. /\ h \in Nat /\ Pow2[h] \in Nat \ {0} /\ x \in Nat
    BY SubLeaves, SubApart
  <2> QED
    BY <2>1
<1> DEFINE j == x % Pow2[h]
<1>4. ASSUME NEW b \in Block \ {Uninit} PROVE Derive(b, h, j) # Uninit
  <2>1. CASE b \in Nat
    <3>1. FD(b, h) \in Nat
      BY <1>3, <2>1, FirstNat
    <3>2. Derive(b, h, j) = FD(b, h) + j /\ j \in Nat
      BY <1>3, <2>1 DEF Derive
    <3> HIDE DEF j
    <3> QED
      BY <3>1, <3>2 DEF Uninit
  <2>2. CASE b \notin Nat
    BY <2>2 DEF Derive, Uninit, Junk
  <2> QED
    BY <2>1, <2>2
<1>5. VValue(o, u, h, x) # Uninit
  BY <1>2, <1>4 DEF VValue
<1> QED
  BY <1>5 DEF LeafPrg, Junk, Uninit

(* A vector that is done has all its outputs written.                       *)
LEMMA TreeWritten ==
  ASSUME NEW o, IsWritten(o), NEW index, IsIndex(index), NEW v \in Vec, NEW l, NEW w,
         TreeDone(l, w, index, o, v, CommitmentOf(o, v)), NEW x \in Leaf(v)
  PROVE  l[FirstLeaf(v) + x] # Uninit /\ w[FirstLeaf(v) + x] # Uninit
<1>1. ASSUME NEW y \in Leaf(v), y # index[v]
      PROVE  l[LPlace(index, v, y)] # Uninit /\ w[HPlace(v, y)] # Uninit
  <2>1. PICK h \in 0 .. Depth(v) - 1 : y \in Sub(index, v, h)
    BY <1>1, SubOfLeaf
  <2>2. Put(l, w, index, o, v, h, y)
    BY <2>1 DEF TreeDone
  <2> QED
    BY <2>1, <2>2, ValueWritten DEF Put
<1>2. l[FirstLeaf(v)] # Uninit
  BY DEF TreeDone, Zero, Uninit
<1>3. w[HPlace(v, index[v])] # Uninit
  <2>1. Depth(v) \in 0 .. Depth(v) + 1 /\ Depth(v) + 1 \in 0 .. Depth(v) + 1
    BY DepthRange
  <2>2. OpeningStart(v) + Depth(v) \in OpeningSlot
    BY <2>1, OpeningPlaces
  <2>3. o[OpeningStart(v) + Depth(v)] # Uninit
    BY <2>2 DEF IsWritten
  <2>4. Junk # Uninit
    BY DEF Junk, Uninit
  <2> QED
    BY <2>3, <2>4 DEF TreeDone, CommitmentOf
<1>4. w[FirstLeaf(v) + x] # Uninit
  BY <1>1, <1>3 DEF HPlace
<1>5. PICK y \in Leaf(v) : LPlace(index, v, y) = FirstLeaf(v) + x
  BY PlaceOnto
<1>6. l[FirstLeaf(v) + x] # Uninit
  <2>1. CASE y = index[v]
    BY <1>2, <1>5, <2>1, HiddenPlace
  <2>2. CASE y # index[v]
    BY <1>1, <1>5, <2>2
  <2> QED
    BY <2>1, <2>2
<1> QED
  BY <1>4, <1>6

(* When the subtrees of a vector are done, only the hidden leaf is missing.  *)
LEMMA ChunkWritten ==
  ASSUME NEW o, IsWritten(o), NEW index, IsIndex(index), NEW u \in Vec, NEW ch,
         ChunkInv(ch, index, o, u, 0)
  PROVE  /\ DOMAIN ch = 0 .. TREE_CHUNK_SIZE - 1
         /\ \A q \in 0 .. TREE_CHUNK_SIZE - 1 : ch[q] = Uninit <=> q = index[u] % TREE_CHUNK_SIZE
<1>1. ch = [q \in 0 .. TREE_CHUNK_SIZE - 1 |-> ch[q]]
  BY DEF ChunkInv
<1>2. DOMAIN ch = 0 .. TREE_CHUNK_SIZE - 1
  BY <1>1
<1>3. ch[index[u] % TREE_CHUNK_SIZE] = Uninit
  BY DEF ChunkInv
<1>4. ASSUME NEW q \in 0 .. TREE_CHUNK_SIZE - 1, q # index[u] % TREE_CHUNK_SIZE
      PROVE  ch[q] # Uninit
  <2> DEFINE cs == ChunkStart(index, u)
             k == TREE_CHUNK_SIZE
  <2>1. /\ k \in Nat \ {0} /\ cs \in Nat /\ index[u] % k = index[u] - cs /\ index[u] \in Nat
        /\ \A x \in cs .. cs + k - 1 : x \in Leaf(u) /\ x % k = x - cs
    BY HiddenChunk
  <2>2. PICK x \in cs .. cs + k - 1 : x = cs + q
    <3> HIDE DEF cs, k
    <3> QED
      BY <2>1, <1>4 DEF k
  <2>3. x \in Leaf(u) /\ x % k = q /\ x # index[u]
    <3>1. x \in Leaf(u) /\ x % k = x - cs
      BY <2>1
    <3>2. q \in Nat /\ q # index[u] - cs
      BY <1>4, <2>1
    <3> HIDE DEF cs, k
    <3> QED
      BY <2>1, <2>2, <3>1, <3>2
  <2>4. PICK h \in 0 .. Depth(u) - 1 : x \in Sub(index, u, h)
    BY <2>3, SubOfLeaf
  <2>5. h < TREE_CHUNK_SIZE_SHIFT
    BY <2>2, <2>4, SubChunk
  <2>6. ch[q] = VValue(o, u, h, x)
    BY <2>3, <2>4, <2>5 DEF ChunkInv
  <2> QED
    BY <2>4, <2>6, ValueWritten
<1> QED
  BY <1>2, <1>3, <1>4

(* The verifier hashes no memory that was not written, and leaves none in    *)
(* its outputs (vector_com.c:434-507).                                       *)
THEOREM VerifierReadsWritten ==
  ASSUME LEAF_CHUNK_SIZE_SHIFT <= TREE_CHUNK_SIZE_SHIFT
  PROVE  Spec => []OnlyWrittenRead
<1>1. VerifierInv => OnlyWrittenRead
  <2> SUFFICES ASSUME VerifierInv PROVE OnlyWrittenRead
    OBVIOUS
  <2>1. ReceivedInv /\ LoopInv /\ LevelInv
    BY DEF VerifierInv
  <2>2. ASSUME NEW s \in Slot, s < v_base PROVE v_leaves[s] # Uninit /\ v_hashed[s] # Uninit
    <3>1. s \in Nat
      BY DEF Slot
    <3>2. verify_pc \in {"level", "subtree", "accepted"}
      <4>1. v_base # 0
        BY <2>2, <3>1
      <4> QED
        BY <2>1, <4>1 DEF LoopInv
    <3>3. /\ v_tree \in 0 .. BITS_PER_WITNESS /\ v_base = FirstLeaf(v_tree)
          /\ TreesDone(v_leaves, v_hashed, v_delta.index, v_opening, v_tree)
      BY <2>1, <3>2 DEF LoopInv
    <3>4. IsIndex(v_delta.index) /\ IsWritten(v_opening)
      BY <2>1, <3>2 DEF ReceivedInv
    <3>5. v_tree \in Nat /\ v_tree <= BITS_PER_WITNESS
      BY <3>3, TreeSizes
    <3>6. PICK v \in Vec : \E x \in Leaf(v) : v < v_tree /\ s = FirstLeaf(v) + x
      BY <2>2, <3>1, <3>3, <3>5, SlotParts
    <3>8. PICK x \in Leaf(v) : v < v_tree /\ s = FirstLeaf(v) + x
      BY <3>6
    <3>7. TreeDone(v_leaves, v_hashed, v_delta.index, v_opening, v, CommitmentOf(v_opening, v))
      BY <3>3, <3>8 DEF TreesDone
    <3> QED
      BY <3>4, <3>8, <3>7, TreeWritten
  <2>3. ASSUME verify_pc = "level", v_tree < BITS_PER_WITNESS, v_j = Depth(v_tree)
        PROVE  \A o \in DOMAIN last_chunk : last_chunk[o] = Uninit <=> o = Hidden % MAX_CHUNK_SIZE
    <3>1. v_tree \in Vec /\ Depth(v_tree) \in Nat
      BY <2>1, <2>3, TreeBelow, DepthRange DEF LoopInv
    <3>2. Height + 1 = 0
      <4>1. Height = Depth(v_tree) - 1 - Depth(v_tree)
        BY <2>3 DEF Height
      <4> QED
        BY <3>1, <4>1
    <3>3. ChunkInv(last_chunk, v_delta.index, v_opening, v_tree, 0)
      BY <2>1, <2>3, <3>1, <3>2 DEF LevelInv
    <3>4. IsIndex(v_delta.index) /\ IsWritten(v_opening)
      BY <2>1, <2>3 DEF ReceivedInv
    <3>5. MAX_CHUNK_SIZE = TREE_CHUNK_SIZE
      BY VChunkSizes
    <3>6. \A o \in DOMAIN last_chunk :
            last_chunk[o] = Uninit <=> o = v_delta.index[v_tree] % TREE_CHUNK_SIZE
      <4>1. PICK ch : ch = last_chunk
        OBVIOUS
      <4>2. PICK index : index = v_delta.index
        OBVIOUS
      <4>3. PICK u : u = v_tree
        OBVIOUS
      <4>4. PICK o : o = v_opening
        OBVIOUS
      <4>5. ChunkInv(ch, index, o, u, 0) /\ IsIndex(index) /\ IsWritten(o) /\ u \in Vec
        BY <3>1, <3>3, <3>4, <4>1, <4>2, <4>3, <4>4
      <4>6. /\ DOMAIN ch = 0 .. TREE_CHUNK_SIZE - 1
            /\ \A q \in 0 .. TREE_CHUNK_SIZE - 1 : ch[q] = Uninit <=> q = index[u] % TREE_CHUNK_SIZE
        BY <4>5, ChunkWritten
      <4> QED
        BY <4>1, <4>2, <4>3, <4>6
    <3> QED
      BY <3>5, <3>6, Zenon DEF Hidden
  <2> QED
    BY <2>2, <2>3 DEF OnlyWrittenRead
<1> QED
  BY <1>1, VerifierInvariant, PTL

---------------------------------------------------------------------------
(* What derives from the seeds beside the path to a hidden leaf.             *)
Other(p) == 2 * (p \div 2) + (1 - (p % 2))

LEMMA OtherValue ==
  ASSUME NEW p \in Nat
  PROVE  /\ Other(p) \in Nat /\ Other(p) # p
         /\ \A i \in Nat : i \div 2 = p \div 2 /\ i # p => i = Other(p)
<1>1. PICK a \in Nat, r \in 0 .. 1 : p = 2 * a + r /\ p \div 2 = a /\ p % 2 = r
  <2>1. p \div 2 \in Nat /\ p % 2 \in 0 .. 1 /\ p = 2 * (p \div 2) + (p % 2)
    OBVIOUS
  <2> QED
    BY <2>1
<1>2. Other(p) = 2 * a + (1 - r)
  BY <1>1 DEF Other
<1>3. ASSUME NEW i \in Nat, i \div 2 = a, i # p PROVE i = 2 * a + (1 - r)
  <2>1. i % 2 \in 0 .. 1 /\ i = 2 * (i \div 2) + (i % 2)
    OBVIOUS
  <2> QED
    BY <1>1, <1>3, <2>1
<1> QED
  BY <1>1, <1>2, <1>3

(* A seed beside the path of the signer derives the signer's own leaves.    *)
LEMMA BesideDerives ==
  ASSUME NEW index, IsIndex(index), NEW v \in Vec, NEW h \in 0 .. Depth(v) - 1,
         NEW j \in 0 .. Pow2[h] - 1
  PROVE  LET i == Other(index[v] \div Pow2[h])
         IN /\ i * Pow2[h] + j \in Leaf(v)
            /\ Derive(Beside(index, v, Depth(v) - h), h, j) = LeafNode(v, i * Pow2[h] + j)
<1> DEFINE n == Depth(v)
           p == index[v] \div Pow2[h]
           i == Other(p)
           c == Pow2[h]
           a == FD(v, n - h)
<1>1. PICK g : g = n - h
  OBVIOUS
<1>2. PICK e : e = g - 1
  OBVIOUS
<1>3. /\ n \in Nat /\ h \in Nat /\ g \in Nat /\ e \in 0 .. n - 1 /\ g = e + 1 /\ n - g = h
      /\ g + h = n /\ v \in Nat
  <2>1. n \in Nat /\ h \in 0 .. n - 1 /\ v \in Nat
    BY DepthRange
  <2> HIDE DEF n
  <2> QED
    BY <1>1, <1>2, <2>1
<1>4. index[v] \in Nat /\ c \in Nat \ {0} /\ p \in Nat
  <2>1. index[v] \in Nat /\ c \in Nat \ {0}
    BY <1>3, LeafRange, Pow2Values DEF IsIndex
  <2> QED
    BY <2>1, Quotient
<1>5. PathIndex(index, v, g) = p
  BY <1>3 DEF PathIndex
<1>6. a = FD(v, g) /\ a \in Nat
  BY <1>1, <1>3, FirstNat
<1>7. i \in Nat /\ Beside(index, v, g) = a + i
  <2>1. i \in Nat
    BY <1>4, OtherValue
  <2>2. Beside(index, v, g) = a + 2 * (p \div 2) + (1 - (p % 2))
    BY <1>5, <1>6 DEF Beside
  <2>3. i = 2 * (p \div 2) + (1 - (p % 2))
    BY DEF Other
  <2>4. p \div 2 \in Nat /\ p % 2 \in Nat
    BY <1>4
  <2> HIDE DEF a, i, p
  <2> QED
    BY <1>6, <2>1, <2>2, <2>3, <2>4
<1>8. i < Pow2[g]
  <2>1. PICK k \in Nat : k < Pow2[g] /\ Beside(index, v, g) = a + k
    <3>1. \E k \in Nat : k < Pow2[e + 1] /\ Beside(index, v, e + 1) = FD(v, e + 1) + k
      BY <1>3, PathChild
    <3> QED
      BY <1>3, <1>6, <3>1
  <2> HIDE DEF a, i
  <2> QED
    BY <1>6, <1>7, <2>1
<1>9. i * c \in Nat /\ c * i = i * c /\ c * i + c <= c * Pow2[g] /\ c * Pow2[g] = Pow2[n]
      /\ Pow2[n] \in Nat /\ Pow2[g] \in Nat
  <2>1. Pow2[g] \in Nat /\ Pow2[n] \in Nat
    BY <1>3, Pow2Values
  <2>2. c * i + c <= c * Pow2[g] /\ c * i \in Nat
    <3> HIDE DEF i, c
    <3> QED
      BY <1>4, <1>7, <1>8, <2>1, MulMonotone
  <2>3. Pow2[h + g] = c * Pow2[g]
    BY <1>3, Pow2Sum
  <2>4. h + g = n
    BY <1>3
  <2>5. c * i = i * c
    <3> HIDE DEF i, c
    <3> QED
      BY <1>4, <1>7
  <2> QED
    BY <2>1, <2>2, <2>3, <2>4, <2>5
<1> DEFINE m == i * c
<1>10. m + j \in Leaf(v) /\ j \in Nat /\ m \in Nat
  <2>1. Leaf(v) = 0 .. Pow2[n] - 1
    BY DEF Leaf
  <2>2. m \in Nat /\ m + c <= Pow2[n] /\ Pow2[n] \in Nat /\ c \in Nat /\ j \in 0 .. c - 1
    BY <1>4, <1>9
  <2> HIDE DEF m, c, n
  <2> QED
    BY <2>1, <2>2
<1>11. Derive(a + i, h, j) = FD(a + i, h) + j
  BY <1>6, <1>7 DEF Derive
<1>12. FD(a + i, h) = FD(v, n) + m
  <2>1. FD(a + i, h) = FD(a, h) + i * Pow2[h]
    <3>1. a \in Nat /\ i \in Nat /\ h \in Nat
      BY <1>3, <1>6, <1>7
    <3> HIDE DEF a, i
    <3> QED
      BY <3>1, FirstSum, Zenon
  <2>2. FD(FD(v, g), h) = FD(v, g + h)
    BY <1>3, FirstFirst
  <2> QED
    BY <1>3, <1>6, <2>1, <2>2
<1>13. LeafNode(v, m + j) = FD(v, n) + (m + j)
  BY DEF LeafNode, FD
<1>14. FD(v, n) \in Nat
  BY <1>3, FirstNat
<1> HIDE DEF a, i, m
<1>15. Derive(Beside(index, v, n - h), h, j) = LeafNode(v, m + j)
  <2>1. Derive(Beside(index, v, g), h, j) = (FD(v, n) + m) + j
    BY <1>7, <1>11, <1>12
  <2>2. (FD(v, n) + m) + j = FD(v, n) + (m + j)
    BY <1>10, <1>14
  <2> QED
    BY <1>1, <1>13, <2>1, <2>2
<1> QED
  BY <1>10, <1>15 DEF m, i

(* With the challenge of the signer they are the leaves of the signer.       *)
LEMMA SameSubtree ==
  ASSUME NEW index, IsIndex(index), NEW v \in Vec, NEW h \in 0 .. Depth(v) - 1,
         NEW x \in Sub(index, v, h)
  PROVE  Derive(Beside(index, v, Depth(v) - h), h, x % Pow2[h]) = LeafNode(v, x)
<1> DEFINE c == Pow2[h]
           p == index[v] \div c
           q == x \div c
           i == Other(p)
<1>1. h \in Nat /\ c \in Nat \ {0} /\ x \in Nat /\ index[v] \in Nat
  <2>1. index[v] \in Nat
    BY LeafRange DEF IsIndex
  <2> QED
    BY <2>1, SubLeaves, SubApart
<1>2. /\ q \in Nat /\ p \in Nat /\ x % c \in 0 .. c - 1 /\ x = c * q + (x % c)
  BY <1>1, Division
<1>3. q \div 2 = p \div 2 /\ q # p
  <2>1. x \div Pow2[h + 1] = index[v] \div Pow2[h + 1] /\ q # p
    BY DEF Sub
  <2>2. x \div Pow2[h + 1] = q \div 2 /\ index[v] \div Pow2[h + 1] = p \div 2
    BY <1>1, Bits
  <2> QED
    BY <2>1, <2>2
<1>4. q = i
  <2> HIDE DEF q, p
  <2> QED
    BY <1>2, <1>3, OtherValue
<1>5. PICK j \in 0 .. c - 1 : j = x % c
  BY <1>2
<1>6. Derive(Beside(index, v, Depth(v) - h), h, j) = LeafNode(v, i * c + j)
  BY BesideDerives
<1>7. i * c + j = x
  <2>1. c * q = q * c /\ x = c * q + j
    <3> HIDE DEF q, c
    <3> QED
      BY <1>1, <1>2, <1>5
  <2> QED
    BY <1>4, <2>1
<1> QED
  BY <1>5, <1>6, <1>7

(* With any other, what the verifier takes for the hidden leaf is not that.  *)
LEMMA OtherSubtree ==
  ASSUME NEW index, IsIndex(index), NEW v \in Vec, NEW h \in 0 .. Depth(v) - 1
  PROVE  /\ Derive(Beside(index, v, Depth(v) - h), h, index[v] % Pow2[h]) \in Nat
         /\ Derive(Beside(index, v, Depth(v) - h), h, index[v] % Pow2[h]) # LeafNode(v, index[v])
<1> DEFINE c == Pow2[h]
           x == index[v]
           p == x \div c
           i == Other(p)
<1>1. h \in Nat /\ c \in Nat \ {0} /\ x \in Nat /\ x \in Leaf(v)
  <2>1. x \in Leaf(v) /\ x \in Nat
    BY LeafRange DEF IsIndex
  <2> QED
    BY <2>1, SubLeaves
<1>2. p \in Nat /\ x % c \in 0 .. c - 1 /\ x = c * p + (x % c)
  <2> HIDE DEF x
  <2> QED
    BY <1>1, Division
<1>3. i \in Nat /\ i # p
  <2> HIDE DEF p
  <2> QED
    BY <1>2, OtherValue
<1>4. PICK j \in 0 .. c - 1 : j = x % c
  BY <1>2
<1>5. /\ i * c + j \in Leaf(v)
      /\ Derive(Beside(index, v, Depth(v) - h), h, j) = LeafNode(v, i * c + j)
  BY BesideDerives
<1>6. i * c + j # x
  <2> HIDE DEF i, p, c, x
  <2>1. SUFFICES ASSUME i * c + j = x PROVE FALSE
    OBVIOUS
  <2>2. c * i + j = c * p + j
    <3>1. c * i = i * c
      BY <1>1, <1>3
    <3> QED
      BY <1>2, <1>4, <2>1, <3>1
  <2> QED
    BY <1>1, <1>2, <1>3, <1>4, <2>2, MulAddInjective
<1> DEFINE y == i * c + j
<1>7. LeafNode(v, y) \in Nat /\ LeafNode(v, y) # LeafNode(v, x)
  <2>1. FD(v, Depth(v)) \in Nat
    BY DepthRange, FirstNat
  <2>2. y \in Nat
    BY <1>5, LeafRange
  <2>3. y # x
    BY <1>6
  <2>4. LeafNode(v, y) = FD(v, Depth(v)) + y /\ LeafNode(v, x) = FD(v, Depth(v)) + x
    BY DEF LeafNode, FD
  <2> HIDE DEF y, x
  <2> QED
    BY <1>1, <2>1, <2>2, <2>3, <2>4
<1> HIDE DEF y
<1>8. Derive(Beside(index, v, Depth(v) - h), h, j) = LeafNode(v, y)
  BY <1>5 DEF y
<1> QED
  BY <1>4, <1>7, <1>8

---------------------------------------------------------------------------
(* Every place of the outputs and of the opening is one of a vector.         *)
LEMMA EverySlot ==
  ASSUME NEW s \in Slot
  PROVE  \E v \in Vec : \E x \in Leaf(v) : s = HPlace(v, x)
<1> DEFINE t == BITS_PER_WITNESS
<1>1. t \in Nat /\ t <= t /\ VOLES_MAX_K \in Nat /\ VOLES_MAX_K < t
  BY TreeSizes
<1>2. FirstLeaf(t) = VECTOR_COMMIT_LEAVES /\ VECTOR_COMMIT_LEAVES \in Nat
  <2> DEFINE a == VOLES_MAX_K * Pow2[VOLE_MAX_K]
             b == VOLES_MIN_K * Pow2[VOLE_MIN_K]
  <2>1. a \in Nat /\ b \in Nat
    <3>1. VOLES_MIN_K \in Nat /\ Pow2[VOLE_MAX_K] \in Nat /\ Pow2[VOLE_MIN_K] \in Nat
      BY <1>1, TreeSizes, Pow2Values DEF VOLES_MIN_K
    <3> QED
      BY <1>1, <3>1
  <2>2. ~(t < VOLES_MAX_K)
    BY <1>1
  <2>3. FirstLeaf(t) = a + b
    BY <2>2, Zenon DEF FirstLeaf, VOLES_MIN_K
  <2>4. VECTOR_COMMIT_LEAVES = b + a
    BY DEF VECTOR_COMMIT_LEAVES
  <2> HIDE DEF a, b
  <2> QED
    BY <2>1, <2>3, <2>4
<1>3. s \in Nat /\ s < FirstLeaf(t)
  <2>1. s \in 0 .. VECTOR_COMMIT_LEAVES - 1
    BY DEF Slot
  <2> QED
    BY <1>2, <2>1
<1>4. PICK v \in Vec : \E x \in Leaf(v) : v < t /\ s = FirstLeaf(v) + x
  BY <1>1, <1>3, SlotParts
<1> QED
  BY <1>4 DEF HPlace

(* Every slot of the opening belongs to a vector.                           *)
LEMMA EveryOpening ==
  ASSUME NEW s \in OpeningSlot
  PROVE  \E v \in Vec : \E d \in 0 .. Depth(v) + 1 : s = OpeningStart(v) + d
<1> DEFINE t == BITS_PER_WITNESS
           A == {w \in Nat : w <= t /\ s < OpeningStart(w)}
<1>1. t \in Nat /\ NONZERO_BITS_IN_CHALLENGE_3 \in Nat
  BY SubtreeSizes
<1>2. s \in Nat /\ s < OpeningStart(t)
  <2> DEFINE c == NONZERO_BITS_IN_CHALLENGE_3 + 2 * t
  <2>1. c \in Nat /\ OpeningSlot = 0 .. c - 1
    <3>1. NONZERO_BITS_IN_CHALLENGE_3 + 2 * BITS_PER_WITNESS - 1 = c - 1
      BY <1>1
    <3> QED
      BY <1>1, <3>1 DEF OpeningSlot
  <2>2. OpeningStart(t) = c
    BY OpeningWhole
  <2> HIDE DEF c
  <2> QED
    BY <2>1, <2>2
<1>3. t \in A /\ A \in SUBSET Nat
  BY <1>1, <1>2
<1>4. \A w \in A : w \in Nat /\ w <= t /\ s < OpeningStart(w)
  OBVIOUS
<1>5. \A w \in Nat : w <= t /\ w \notin A => ~(s < OpeningStart(w))
  OBVIOUS
<1> HIDE DEF A
<1>6. PICK w \in A : \A z \in A : w <= z
  BY <1>3, LeastElement
<1>7. w \in Nat /\ w <= t /\ s < OpeningStart(w)
  BY <1>4, <1>6
<1>8. w # 0
  BY <1>2, <1>7, FirstPlaces
<1>9. PICK v \in Nat : v = w - 1
  BY <1>7, <1>8
<1>10. v \in Vec /\ v <= t /\ v + 1 = w /\ v < w
  BY <1>1, <1>7, <1>9 DEF Vec
<1>11. ~(s < OpeningStart(v)) /\ OpeningStart(v) \in Nat /\ OpeningStart(w) = OpeningStart(v) + Depth(v) + 2
       /\ Depth(v) \in Nat
  <2>1. v \notin A
    BY <1>6, <1>7, <1>10
  <2> QED
    BY <1>5, <1>10, <2>1, OpeningParts, DepthRange
<1>12. s - OpeningStart(v) \in 0 .. Depth(v) + 1 /\ s = OpeningStart(v) + (s - OpeningStart(v))
  BY <1>2, <1>7, <1>11
<1> QED
  BY <1>10, <1>12

---------------------------------------------------------------------------
(* What the verifier works on comes from the signer.                         *)
SentInv ==
  /\ delta \in [index : [Vec -> Nat], topZero : {TRUE}]
  /\ verify_pc # "idle" => open_pc = "opened" /\ <<v_delta, v_opening>> \in Received
  /\ verify_pc \notin {"idle", "rejected"} => v_delta.topZero

(* The verifier does not change its input.                                  *)
LEMMA VerifyStepFacts ==
  ASSUME VerifierInv, VerifyStep
  PROVE  /\ verify_pc \in {"subtrees", "level", "subtree"}
         /\ verify_pc' \in {"subtrees", "level", "subtree", "accepted"}
         /\ v_delta' = v_delta /\ v_opening' = v_opening
         /\ verify_pc' = "accepted" => VerifyReturn
<1>1. ReceivedInv /\ MemoryInv
  BY DEF VerifierInv
<1>2. CASE CallWhole
  BY <1>2 DEF CallWhole, v_input
<1>3. CASE CallPartial
  BY <1>3 DEF CallPartial, v_input
<1>4. CASE ExpandSubtrees
  BY <1>1, <1>4 DEF ExpandSubtrees, ReceivedInv, v_input
<1>5. CASE EndSubtrees
  BY <1>5 DEF EndSubtrees, v_input
<1>6. CASE CallSubtree
  BY <1>6 DEF CallSubtree, v_input
<1>7. CASE VerifyExpands
  <2>1. v_frame.busy
    BY <1>7 DEF VerifyExpands, V!ExpandStep, V!PickAncestor, V!Descend, V!EndChunk
  <2>2. v_delta' = v_delta /\ v_opening' = v_opening /\ verify_pc' = verify_pc
    BY <1>7 DEF VerifyExpands, v_input
  <2> QED
    BY <1>1, <2>1, <2>2 DEF MemoryInv
<1>8. CASE KeepLeaves
  BY <1>8 DEF KeepLeaves, v_input
<1>9. CASE FinishTree
  BY <1>9 DEF FinishTree, v_input
<1>10. CASE VerifyReturn
  BY <1>10 DEF VerifyReturn, v_input
<1> QED
  BY <1>2, <1>3, <1>4, <1>5, <1>6, <1>7, <1>8, <1>9, <1>10 DEF VerifyStep

(* No step gives the verifier anything else.                                *)
LEMMA SentSteps ==
  ASSUME OpenInv, VerifierInv, SentInv, [Next]_vars
  PROVE  SentInv'
<1>1. CASE SignerChallenged
  <2>1. PICK index \in Challenges : OpenCall([index |-> index, topZero |-> TRUE])
    BY <1>1 DEF SignerChallenged
  <2>2. index \in [Vec -> Nat] /\ delta' = [index |-> index, topZero |-> TRUE]
    BY <2>1, ChallengeAssumption DEF OpenCall
  <2>3. verify_pc = "idle" /\ verify_pc' = "idle"
    BY <1>1 DEF SignerChallenged, verifyVars, SentInv
  <2> QED
    BY <2>2, <2>3 DEF SentInv
<1>2. CASE SignerOpens
  <2>1. open_pc = "open" /\ delta' = delta /\ verify_pc' = verify_pc
    BY <1>2 DEF SignerOpens, OpenStep, OpenLevel, OpenCommitment, OpenReturn, verifyVars
  <2>2. verify_pc = "idle"
    BY <2>1 DEF SentInv
  <2> QED
    BY <2>1, <2>2 DEF SentInv
<1>3. CASE VerifierReceives
  <2>1. PICK r \in Received : VerifyCall(r[1], r[2])
    BY <1>3 DEF VerifierReceives
  <2>2. /\ open_pc = "opened" /\ open_pc' = "opened" /\ delta' = delta /\ opening' = opening
    BY <1>3 DEF VerifierReceives, openVars
  <2>3. v_delta' = r[1] /\ v_opening' = r[2]
    BY <2>1 DEF VerifyCall
  <2>4. r = <<r[1], r[2]>>
    BY DEF Received
  <2>5. Received' = Received
    BY <2>2 DEF Received, Altered
  <2>6. verify_pc' \notin {"idle", "rejected"} => r[1].topZero
    BY <2>1 DEF VerifyCall
  <2> QED
    BY <2>2, <2>3, <2>4, <2>5, <2>6 DEF SentInv
<1>4. CASE VerifierVerifies
  <2>1. /\ verify_pc \in {"subtrees", "level", "subtree"}
        /\ v_delta' = v_delta /\ v_opening' = v_opening
    BY <1>4, VerifyStepFacts DEF VerifierVerifies
  <2>2. open_pc' = open_pc /\ delta' = delta /\ opening' = opening
    BY <1>4 DEF VerifierVerifies, openVars
  <2>3. Received' = Received
    BY <2>2 DEF Received, Altered
  <2> QED
    BY <2>1, <2>2, <2>3 DEF SentInv
<1>5. CASE ~(SignerChallenged \/ SignerOpens \/ VerifierReceives \/ VerifierVerifies)
  <2>1. UNCHANGED <<openVars, verifyVars>>
    BY <1>5 DEF Next, vars, SignerCommits, Over
  <2>2. /\ open_pc' = open_pc /\ delta' = delta /\ opening' = opening
        /\ v_delta' = v_delta /\ v_opening' = v_opening /\ verify_pc' = verify_pc
    BY <2>1 DEF openVars, verifyVars, v_input
  <2>3. Received' = Received
    BY <2>2 DEF Received, Altered
  <2> QED
    BY <2>2, <2>3 DEF SentInv
<1> QED
  BY <1>1, <1>2, <1>3, <1>4, <1>5

(* What the verifier may have got instead.                                   *)
LEMMA ReceivedOther ==
  ASSUME OpenInv, SentInv, verify_pc \notin {"idle", "rejected"}
  PROVE  \/ v_delta = delta /\ v_opening = opening
         \/ /\ v_delta = delta
            /\ \E s \in OpeningSlot : \E b \in {Zero, Junk} : v_opening = [opening EXCEPT ![s] = b]
         \/ v_opening = opening /\ \E v \in Vec : v_delta.index[v] # delta.index[v]
<1>1. <<v_delta, v_opening>> \in Received /\ v_delta.topZero
  BY DEF SentInv
<1>2. delta \in [index : [Vec -> Nat], topZero : {TRUE}]
  BY DEF SentInv
<1>3. CASE <<v_delta, v_opening>> = <<delta, opening>>
  BY <1>3
<1>4. CASE <<v_delta, v_opening>> \in {delta} \X Altered(opening)
  <2>1. v_delta = delta /\ v_opening \in Altered(opening)
    BY <1>4
  <2> QED
    BY <2>1 DEF Altered
<1>5. CASE <<v_delta, v_opening>> \in [index : Challenges, topZero : BOOLEAN] \X {opening}
  <2>1. v_opening = opening /\ v_delta \in [index : Challenges, topZero : BOOLEAN]
    BY <1>5
  <2>2. v_delta \in [index : [Vec -> Nat], topZero : {TRUE}]
    BY <1>1, <2>1, ChallengeAssumption
  <2>3. CASE \A v \in Vec : v_delta.index[v] = delta.index[v]
    <3>1. v_delta.index = delta.index
      BY <1>2, <2>2, <2>3
    <3>2. v_delta.topZero = delta.topZero
      BY <1>2, <2>2
    <3>3. \A a, b \in [index : [Vec -> Nat], topZero : {TRUE}] :
            a.index = b.index /\ a.topZero = b.topZero => a = b
      OBVIOUS
    <3>4. v_delta = delta
      BY <1>2, <2>2, <3>1, <3>2, <3>3
    <3> QED
      BY <2>1, <3>4
  <2>4. CASE ~(\A v \in Vec : v_delta.index[v] = delta.index[v])
    BY <2>1, <2>4
  <2> QED
    BY <2>3, <2>4
<1> QED
  BY <1>1, <1>3, <1>4, <1>5 DEF Received

---------------------------------------------------------------------------
(* The state when the verifier returns.                                      *)
AllInv ==
  /\ ForestInv /\ OutputsInv /\ OutputsCorrect
  /\ OpenInv /\ OpenedInv /\ VerifierInv /\ SentInv

Accepting == AllInv /\ verify_pc = "level" /\ v_tree = BITS_PER_WITNESS

(* What the verifier knows of its outputs when it returns.                  *)
LEMMA AcceptingFacts ==
  ASSUME Accepting
  PROVE  /\ IsIndex(delta.index) /\ IsIndex(v_delta.index) /\ IsWritten(v_opening)
         /\ opening = [s \in OpeningSlot |-> opening[s]]
         /\ v_hashed = [s \in Slot |-> v_hashed[s]]
         /\ hashed_leaves = [s \in Slot |-> hashed_leaves[s]]
         /\ \A v \in Vec : \A x \in Leaf(v) : hashed_leaves[HPlace(v, x)] = LeafNode(v, x)
         /\ \A v \in Vec : FullVector(opening, delta.index, v)
         /\ \A v \in Vec : TreeDone(v_leaves, v_hashed, v_delta.index, v_opening, v,
                                    CommitmentOf(v_opening, v))
<1>1. ReceivedInv /\ MemoryInv /\ LoopInv /\ OpenInv /\ OpenedInv /\ SentInv /\ OutputsCorrect
      /\ OutputsInv /\ verify_pc = "level" /\ v_tree = BITS_PER_WITNESS
  BY DEF Accepting, AllInv, VerifierInv
<1>2. open_pc = "opened"
  BY <1>1 DEF SentInv
<1>3. commit_pc = "done" /\ IsIndex(delta.index) /\ opening = [s \in OpeningSlot |-> opening[s]]
  BY <1>1, <1>2 DEF OpenInv
<1>4. IsIndex(v_delta.index) /\ IsWritten(v_opening)
  BY <1>1 DEF ReceivedInv
<1>5. v_hashed = [s \in Slot |-> v_hashed[s]] /\ hashed_leaves = [s \in Slot |-> hashed_leaves[s]]
  BY <1>1 DEF MemoryInv, IsOut, OutputsInv
<1>6. \A v \in Vec : \A x \in Leaf(v) : hashed_leaves[HPlace(v, x)] = LeafNode(v, x)
  BY <1>1, <1>3 DEF OutputsCorrect, HPlace
<1>7. \A v \in Vec : FullVector(opening, delta.index, v)
  BY <1>1, <1>2 DEF OpenedInv
<1>8. \A v \in Vec : TreeDone(v_leaves, v_hashed, v_delta.index, v_opening, v,
                              CommitmentOf(v_opening, v))
  <2>1. TreesDone(v_leaves, v_hashed, v_delta.index, v_opening, BITS_PER_WITNESS)
    BY <1>1 DEF LoopInv
  <2>2. \A v \in Vec : v < BITS_PER_WITNESS
    BY DepthRange
  <2> QED
    BY <2>1, <2>2 DEF TreesDone
<1> QED
  BY <1>3, <1>4, <1>5, <1>6, <1>7, <1>8

(* The seed that the signer put in the opening for a subtree.                *)
LEMMA SignerSeed ==
  ASSUME NEW o, NEW index, NEW v \in Vec, FullVector(o, index, v), NEW h \in 0 .. Depth(v) - 1
  PROVE  Seed(o, v, h) = Beside(index, v, Depth(v) - h)
<1>1. PICK d : d = Depth(v) - 1 - h
  OBVIOUS
<1>2. d \in 0 .. Depth(v) - 1 /\ d + 1 = Depth(v) - h
  BY <1>1, DepthRange
<1>3. o[OpeningStart(v) + d] = Beside(index, v, d + 1)
  BY <1>2 DEF FullVector, FullSeeds
<1>4. Seed(o, v, h) = o[OpeningStart(v) + d]
  BY <1>1 DEF Seed
<1> QED
  BY <1>2, <1>3, <1>4

(* From the signer's opening, the hidden leaf has the signer's commitment.  *)
LEMMA SignerCommitment ==
  ASSUME NEW o, NEW index, NEW v \in Vec, FullVector(o, index, v)
  PROVE  CommitmentOf(o, v) = LeafNode(v, index[v])
<1>1. Depth(v) \in Depth(v) .. Depth(v) + 1 /\ Depth(v) + 1 \in Depth(v) .. Depth(v) + 1
      /\ (OpeningStart(v) + Depth(v)) + 1 = OpeningStart(v) + (Depth(v) + 1)
  <2>1. Depth(v) \in Nat /\ OpeningStart(v) \in Nat
    BY DepthRange, OpeningParts, TreeSizes
  <2> QED
    BY <2>1
<1>2. /\ o[OpeningStart(v) + Depth(v)] = LeafNode(v, index[v])
      /\ o[OpeningStart(v) + (Depth(v) + 1)] = LeafNode(v, index[v])
  BY <1>1 DEF FullVector
<1> QED
  BY <1>1, <1>2 DEF CommitmentOf

(* A seed of the forest is no junk, and the generator of leaves names it.   *)
LEMMA NodeBlock ==
  ASSUME NEW b \in Nat
  PROVE  LeafPrg(b) = b /\ b # Junk
BY DEF LeafPrg, Zero, Junk

(* What a verifier that hides the leaves of the signer makes of a vector.    *)
LEMMA SameLeaf ==
  ASSUME NEW l, NEW w, NEW index, IsIndex(index), NEW o, NEW v \in Vec, FullVector(o, index, v),
         NEW c, TreeDone(l, w, index, o, v, c), NEW x \in Leaf(v), x # index[v]
  PROVE  l[LPlace(index, v, x)] = LeafNode(v, x) /\ w[HPlace(v, x)] = LeafNode(v, x)
<1>1. PICK h \in 0 .. Depth(v) - 1 : x \in Sub(index, v, h)
  BY SubOfLeaf
<1>2. VValue(o, v, h, x) = LeafNode(v, x)
  BY <1>1, SignerSeed, SameSubtree DEF VValue
<1>3. LeafPrg(LeafNode(v, x)) = LeafNode(v, x)
  BY LeafBlock, NodeBlock
<1>4. Put(l, w, index, o, v, h, x)
  BY <1>1 DEF TreeDone
<1> QED
  BY <1>2, <1>3, <1>4 DEF Put

(* What one that hides another leaf makes of the leaf the signer hides.      *)
LEMMA OtherLeaf ==
  ASSUME NEW l, NEW w, NEW index, IsIndex(index), NEW other, IsIndex(other),
         NEW o, NEW v \in Vec, FullVector(o, index, v),
         NEW c, TreeDone(l, w, other, o, v, c), index[v] # other[v]
  PROVE  /\ l[LPlace(other, v, index[v])] # LeafNode(v, index[v])
         /\ w[HPlace(v, index[v])] # LeafNode(v, index[v])
<1>1. index[v] \in Leaf(v)
  BY DEF IsIndex
<1>2. PICK h \in 0 .. Depth(v) - 1 : index[v] \in Sub(other, v, h)
  BY <1>1, SubOfLeaf
<1>3. VValue(o, v, h, index[v]) \in Nat /\ VValue(o, v, h, index[v]) # LeafNode(v, index[v])
  BY SignerSeed, OtherSubtree DEF VValue
<1>4. LeafPrg(VValue(o, v, h, index[v])) = VValue(o, v, h, index[v])
  BY <1>3, NodeBlock
<1>5. Put(l, w, other, o, v, h, index[v])
  BY <1>2 DEF TreeDone
<1> QED
  BY <1>3, <1>4, <1>5 DEF Put

---------------------------------------------------------------------------
(* The verifier that got what the signer sent rebuilds its commitments and    *)
(* learns every key but the hidden ones.                                     *)
LEMMA AcceptsFaithful ==
  ASSUME Accepting, Faithful
  PROVE  /\ v_hashed = hashed_leaves
         /\ Keys = [v \in Vec |-> Leaf(v) \ {delta.index[v]}]
<1>1. v_delta = delta /\ v_opening = opening
  BY DEF Faithful
<1>2. ASSUME NEW v \in Vec, NEW x \in Leaf(v), x # delta.index[v]
      PROVE  /\ v_leaves[LPlace(delta.index, v, x)] = LeafNode(v, x)
             /\ v_hashed[HPlace(v, x)] = LeafNode(v, x)
  <2>1. /\ IsIndex(delta.index) /\ FullVector(opening, delta.index, v)
        /\ TreeDone(v_leaves, v_hashed, delta.index, opening, v, CommitmentOf(opening, v))
    BY <1>1, AcceptingFacts
  <2> QED
    BY <1>2, <2>1, SameLeaf
<1>3. ASSUME NEW v \in Vec
      PROVE  v_hashed[HPlace(v, delta.index[v])] = LeafNode(v, delta.index[v])
  <2>1. /\ FullVector(opening, delta.index, v)
        /\ TreeDone(v_leaves, v_hashed, delta.index, opening, v, CommitmentOf(opening, v))
    BY <1>1, AcceptingFacts
  <2> QED
    BY <2>1, SignerCommitment DEF TreeDone
<1>4. ASSUME NEW s \in Slot PROVE v_hashed[s] = hashed_leaves[s]
  <2>1. PICK v \in Vec : \E x \in Leaf(v) : s = HPlace(v, x)
    BY EverySlot
  <2>2. PICK x \in Leaf(v) : s = HPlace(v, x)
    BY <2>1
  <2>3. hashed_leaves[s] = LeafNode(v, x)
    BY <2>2, AcceptingFacts
  <2> QED
    BY <1>2, <1>3, <2>2, <2>3
<1>5. v_hashed = hashed_leaves
  <2>1. /\ v_hashed = [s \in Slot |-> v_hashed[s]]
        /\ hashed_leaves = [s \in Slot |-> hashed_leaves[s]]
    BY AcceptingFacts
  <2>2. [s \in Slot |-> v_hashed[s]] = [s \in Slot |-> hashed_leaves[s]]
    BY <1>4
  <2> QED
    BY <2>1, <2>2, Zenon
<1>6. \A v \in Vec : {x \in Leaf(v) : KeyRecovered(v, x)} = Leaf(v) \ {delta.index[v]}
  BY <1>1, <1>2 DEF KeyRecovered, LPlace
<1> QED
  BY <1>5, <1>6 DEF Keys

(* A seed or a commitment altered on the way shows in the commitments.       *)
LEMMA AlteredShows ==
  ASSUME Accepting, v_delta = delta, NEW s \in OpeningSlot, NEW b \in {Zero, Junk},
         v_opening = [opening EXCEPT ![s] = b]
  PROVE  v_hashed # hashed_leaves
<1>1. PICK v \in Vec : \E d \in 0 .. Depth(v) + 1 : s = OpeningStart(v) + d
  BY EveryOpening
<1>2. PICK d \in 0 .. Depth(v) + 1 : s = OpeningStart(v) + d
  BY <1>1
<1>3. PICK index : index = delta.index
  OBVIOUS
<1>4. /\ IsIndex(index) /\ FullVector(opening, index, v)
      /\ TreeDone(v_leaves, v_hashed, index, v_opening, v, CommitmentOf(v_opening, v))
      /\ \A x \in Leaf(v) : hashed_leaves[HPlace(v, x)] = LeafNode(v, x)
  BY <1>3, AcceptingFacts
<1>5. v_opening[s] = b /\ \A t \in OpeningSlot : t # s => v_opening[t] = opening[t]
  <2>1. PICK o : o = opening
    OBVIOUS
  <2>2. o = [t \in OpeningSlot |-> o[t]] /\ v_opening = [o EXCEPT ![s] = b]
    BY <2>1, AcceptingFacts
  <2> QED
    BY <2>1, <2>2
<1>6. /\ Depth(v) \in Nat /\ v \in Nat /\ OpeningStart(v) \in Nat
  BY DepthRange, OpeningParts, TreeSizes
<1>7. CASE d < Depth(v)
  <2>1. PICK h \in 0 .. Depth(v) - 1 : d = Depth(v) - 1 - h
    <3>1. Depth(v) - 1 - d \in 0 .. Depth(v) - 1 /\ d = Depth(v) - 1 - (Depth(v) - 1 - d)
      BY <1>6, <1>7
    <3> QED
      BY <3>1
  <2>2. Seed(v_opening, v, h) = b
    BY <1>2, <1>5, <2>1 DEF Seed
  <2>3. PICK x : x = SubStart(index, v, h)
    OBVIOUS
  <2>4. x \in Sub(index, v, h) /\ x \in Leaf(v) /\ h \in Nat
    <3>1. /\ x \in Nat /\ Pow2[h] \in Nat \ {0} /\ h \in Nat
          /\ Sub(index, v, h) = x .. x + Pow2[h] - 1 /\ x \in Leaf(v)
      BY <1>4, <2>3, SubLeaves
    <3> QED
      BY <3>1
  <2>5. LeafPrg(VValue(v_opening, v, h, x)) = Junk
    BY <2>2, <2>4 DEF VValue, Derive, LeafPrg, Zero, Junk, Uninit
  <2>6. v_hashed[HPlace(v, x)] = Junk
    BY <1>4, <2>4, <2>5 DEF TreeDone, Put
  <2>7. LeafNode(v, x) # Junk
    BY <2>4, LeafBlock, NodeBlock
  <2> QED
    BY <1>4, <2>4, <2>6, <2>7
<1>8. CASE ~(d < Depth(v))
  <2> DEFINE n == Depth(v)
             p == OpeningStart(v) + n
             z == LeafNode(v, index[v])
  <2>1. d = n \/ d = n + 1
    BY <1>6, <1>8
  <2>2. n \in n .. n + 1 /\ n + 1 \in n .. n + 1 /\ p + 1 = OpeningStart(v) + (n + 1)
        /\ p # p + 1
    BY <1>6
  <2>3. opening[p] = z /\ opening[p + 1] = z
    BY <1>4, <2>2 DEF FullVector
  <2>4. p \in OpeningSlot /\ p + 1 \in OpeningSlot
    <3>1. n \in 0 .. n + 1 /\ n + 1 \in 0 .. n + 1
      BY <1>6
    <3> QED
      BY <2>2, <3>1, OpeningPlaces
  <2>5. index[v] \in Leaf(v)
    BY <1>4 DEF IsIndex
  <2>6. z \in Nat /\ b \notin Nat /\ z # Junk
    BY <2>5, LeafBlock, NodeBlock DEF Zero, Junk
  <2>7. (v_opening[p] = b /\ v_opening[p + 1] = z) \/ (v_opening[p] = z /\ v_opening[p + 1] = b)
    BY <1>2, <1>5, <2>1, <2>2, <2>3, <2>4
  <2>8. CommitmentOf(v_opening, v) = Junk
    BY <2>6, <2>7 DEF CommitmentOf
  <2>9. v_hashed[HPlace(v, index[v])] = Junk
    BY <1>4, <2>8 DEF TreeDone
  <2> QED
    BY <1>4, <2>5, <2>6, <2>9
<1> QED
  BY <1>7, <1>8

(* From another challenge or another opening, the verifier rebuilds other     *)
(* commitments.                                                              *)
LEMMA AcceptsOther ==
  ASSUME Accepting, ~Faithful
  PROVE  v_hashed # hashed_leaves
<1>1. \/ /\ v_delta = delta
         /\ \E s \in OpeningSlot : \E b \in {Zero, Junk} : v_opening = [opening EXCEPT ![s] = b]
      \/ v_opening = opening /\ \E v \in Vec : v_delta.index[v] # delta.index[v]
  <2>1. OpenInv /\ SentInv /\ verify_pc \notin {"idle", "rejected"}
    BY DEF Accepting, AllInv
  <2> QED
    BY <2>1, ReceivedOther DEF Faithful
<1>2. CASE v_delta = delta
  BY <1>1, <1>2, AlteredShows
<1>3. CASE v_opening = opening /\ \E v \in Vec : v_delta.index[v] # delta.index[v]
  <2>1. PICK v \in Vec : v_delta.index[v] # delta.index[v]
    BY <1>3
  <2>2. /\ IsIndex(delta.index) /\ IsIndex(v_delta.index) /\ FullVector(opening, delta.index, v)
        /\ TreeDone(v_leaves, v_hashed, v_delta.index, opening, v, CommitmentOf(opening, v))
    BY <1>3, AcceptingFacts
  <2>3. v_hashed[HPlace(v, delta.index[v])] # LeafNode(v, delta.index[v])
    BY <2>1, <2>2, OtherLeaf
  <2>4. delta.index[v] \in Leaf(v)
    BY <2>2 DEF IsIndex
  <2> QED
    BY <2>3, <2>4, AcceptingFacts
<1> QED
  BY <1>1, <1>2, <1>3

(* It never learns the key of a leaf the signer hides.                       *)
LEMMA HiddenKeysKept ==
  ASSUME Accepting, NEW v \in Vec
  PROVE  Keys[v] \subseteq Leaf(v) \ {delta.index[v]}
<1> DEFINE x == delta.index[v]
<1>1. SUFFICES ASSUME KeyRecovered(v, x) PROVE FALSE
  BY DEF Keys
<1>2. x # v_delta.index[v] /\ v_leaves[LPlace(v_delta.index, v, x)] = LeafNode(v, x)
  BY <1>1 DEF KeyRecovered, LPlace
<1>3. v_delta # delta
  BY <1>2
<1>4. v_opening = opening
  <2>1. OpenInv /\ SentInv /\ verify_pc \notin {"idle", "rejected"}
    BY DEF Accepting, AllInv
  <2> QED
    BY <1>3, <2>1, ReceivedOther
<1>5. /\ IsIndex(delta.index) /\ IsIndex(v_delta.index) /\ FullVector(opening, delta.index, v)
      /\ TreeDone(v_leaves, v_hashed, v_delta.index, opening, v, CommitmentOf(opening, v))
  BY <1>4, AcceptingFacts
<1>6. v_leaves[LPlace(v_delta.index, v, x)] # LeafNode(v, x)
  BY <1>2, <1>5, OtherLeaf
<1> QED
  BY <1>2, <1>6

---------------------------------------------------------------------------
(* The state of the abstract vector commitment.                              *)
signer   == IF commit_pc # "done" THEN "committing"
            ELSE IF open_pc = "opened" THEN "opened" ELSE "ready"
faithful == verify_pc # "idle" /\ Faithful
verdict  == CASE verify_pc = "accepted" ->
                   [stage |-> "accepted", matches |-> v_hashed = hashed_leaves, keys |-> Keys]
              [] verify_pc = "rejected" -> [stage |-> "rejected"]
              [] OTHER                  -> [stage |-> "none"]

(* The refinement: initial states, then steps.                              *)
LEMMA AbstractInit == Init => VC!Init
<1> SUFFICES ASSUME Init PROVE VC!Init
  OBVIOUS
<1>1. commit_pc = "roots" /\ verify_pc = "idle" /\ delta.index = [v \in Vec |-> 0]
  BY DEF Init, CommitInit, VerifyInit, OpenInit
<1>2. \A v \in Vec : delta.index[v] \in Leaf(v)
  BY <1>1, LeafRange
<1> QED
  BY <1>1, <1>2 DEF VC!Init, VC!None

(* Before the verifier returns, its verdict is open.                         *)
LEMMA NoVerdict ==
  ASSUME verify_pc \notin {"accepted", "rejected"}
  PROVE  verdict = VC!None
BY DEF verdict, VC!None

(* The steps of the signer.                                                  *)
LEMMA SignerImplements ==
  ASSUME AllInv, SignerCommits \/ SignerChallenged \/ SignerOpens
  PROVE  [VC!Next]_(VC!vcVars)
<1>1. ForestInv /\ OpenInv /\ SentInv
  BY DEF AllInv
<1>2. CASE SignerCommits
  <2>1. /\ CommitStep /\ delta' = delta /\ open_pc' = open_pc /\ verify_pc' = verify_pc
    BY <1>2 DEF SignerCommits, openVars, verifyVars
  <2>2. commit_pc # "done"
    <3>1. commit_pc = "done" => calls = <<>> /\ ~frame.busy
      BY <1>1 DEF ForestInv
    <3> QED
      BY <2>1, <3>1 DEF CommitStep, CallRoots, CallRemaining, ExpandRoots, CallTree, CommitExpands,
         CommitReturn, S!ExpandStep, S!PickAncestor, S!Descend, S!EndChunk
  <2>3. open_pc = "idle"
    BY <1>1, <2>2 DEF OpenInv
  <2>4. verify_pc = "idle"
    BY <1>1, <2>3 DEF SentInv
  <2>5. verdict = VC!None /\ verdict' = VC!None /\ faithful = FALSE /\ faithful' = FALSE
    BY <2>1, <2>4 DEF verdict, faithful, VC!None
  <2>6. CASE commit_pc' # "done"
    <3>1. signer = "committing" /\ signer' = "committing"
      BY <2>2, <2>6 DEF signer
    <3> QED
      BY <2>1, <2>5, <3>1 DEF VC!vcVars, signer, faithful, verdict
  <2>7. CASE commit_pc' = "done"
    <3>1. signer = "committing" /\ signer' = "ready"
      BY <2>1, <2>2, <2>3, <2>7 DEF signer
    <3>2. VC!Commit
      BY <2>1, <2>5, <3>1 DEF VC!Commit, signer, faithful, verdict
    <3> QED
      BY <3>2 DEF VC!Next
  <2> QED
    BY <2>6, <2>7
<1>3. ASSUME SignerChallenged \/ SignerOpens
      PROVE  /\ open_pc # "opened" /\ commit_pc = "done" /\ commit_pc' = "done"
             /\ verdict = VC!None /\ verdict' = VC!None /\ faithful = FALSE /\ faithful' = FALSE
             /\ signer = "ready"
  <2>1. /\ open_pc # "opened" /\ commit_pc = "done"
        /\ UNCHANGED <<commitVars, verifyVars>>
    BY <1>1, <1>3 DEF SignerChallenged, SignerOpens, OpenStep, OpenLevel, OpenCommitment,
                      OpenReturn, OpenInv
  <2>2. verify_pc = "idle" /\ verify_pc' = "idle" /\ commit_pc' = "done"
    BY <1>1, <2>1 DEF SentInv, commitVars, verifyVars
  <2> QED
    BY <2>1, <2>2 DEF verdict, faithful, signer, VC!None
<1>4. CASE SignerChallenged
  <2>1. PICK index \in Challenges : OpenCall([index |-> index, topZero |-> TRUE])
    BY <1>4 DEF SignerChallenged
  <2>2. delta'.index = index /\ open_pc' = "open" /\ IsIndex(index)
    BY <2>1, ChallengeAssumption DEF OpenCall
  <2>3. \A v \in Vec : delta'.index[v] \in Leaf(v)
    BY <2>2 DEF IsIndex
  <2>4. signer' = "ready"
    BY <1>3, <1>4, <2>2 DEF signer
  <2>5. VC!Challenge
    BY <1>3, <1>4, <2>3, <2>4 DEF VC!Challenge, signer, faithful, verdict
  <2> QED
    BY <2>5 DEF VC!Next
<1>5. CASE SignerOpens
  <2>1. delta' = delta
    BY <1>5 DEF SignerOpens, OpenStep, OpenLevel, OpenCommitment, OpenReturn
  <2>2. CASE open_pc' = "opened"
    <3>1. signer' = "opened"
      BY <1>3, <1>5, <2>2 DEF signer
    <3>2. VC!Open
      BY <1>3, <1>5, <2>1, <3>1 DEF VC!Open, signer, faithful, verdict
    <3> QED
      BY <3>2 DEF VC!Next
  <2>3. CASE open_pc' # "opened"
    <3>1. signer' = "ready"
      BY <1>3, <1>5, <2>3 DEF signer
    <3> QED
      BY <1>3, <1>5, <2>1, <3>1 DEF VC!vcVars, signer, faithful, verdict
  <2> QED
    BY <2>2, <2>3
<1> QED
  BY <1>2, <1>4, <1>5

(* The verifier is called: at once rejected only on another challenge.       *)
LEMMA ReceiveImplements ==
  ASSUME AllInv, VerifierReceives
  PROVE  [VC!Next]_(VC!vcVars)
<1>1. PICK r \in Received : VerifyCall(r[1], r[2])
  BY DEF VerifierReceives
<1>2. /\ open_pc = "opened" /\ open_pc' = "opened" /\ commit_pc = "done" /\ commit_pc' = "done"
      /\ delta' = delta /\ delta.topZero
  BY DEF VerifierReceives, commitVars, openVars, AllInv, OpenInv, SentInv
<1>3. /\ verify_pc = "idle" /\ verify_pc' = (IF r[1].topZero THEN "subtrees" ELSE "rejected")
      /\ v_delta' = r[1]
  BY <1>1 DEF VerifyCall
<1>4. signer = "opened" /\ signer' = "opened" /\ verdict = VC!None /\ faithful = FALSE
  BY <1>2, <1>3 DEF signer, verdict, faithful, VC!None
<1>5. CASE r[1].topZero
  <2>1. verdict' = VC!None /\ faithful' \in BOOLEAN
    BY <1>3, <1>5 DEF verdict, faithful, Faithful, VC!None
  <2>2. VC!Receive
    BY <1>2, <1>4, <2>1 DEF VC!Receive, signer, faithful, verdict
  <2> QED
    BY <2>2 DEF VC!Next
<1>6. CASE ~r[1].topZero
  <2>1. verdict' = VC!Rejected
    BY <1>3, <1>6 DEF verdict, VC!Rejected
  <2>2. faithful' = FALSE
    BY <1>2, <1>3, <1>6 DEF faithful, Faithful
  <2>3. VC!Reject
    BY <1>2, <1>4, <2>1, <2>2 DEF VC!Reject, signer, faithful, verdict
  <2> QED
    BY <2>3 DEF VC!Next
<1> QED
  BY <1>5, <1>6

(* The verifier runs, and returns with a verdict the abstraction allows.     *)
LEMMA VerifyImplements ==
  ASSUME AllInv, VerifierVerifies
  PROVE  [VC!Next]_(VC!vcVars)
<1>1. /\ VerifyStep /\ verify_pc \in {"subtrees", "level", "subtree"}
      /\ verify_pc' \in {"subtrees", "level", "subtree", "accepted"}
      /\ v_delta' = v_delta /\ v_opening' = v_opening
      /\ verify_pc' = "accepted" => VerifyReturn
      /\ UNCHANGED <<commitVars, openVars>>
  BY VerifyStepFacts DEF VerifierVerifies, AllInv
<1>2. /\ open_pc = "opened" /\ open_pc' = "opened" /\ commit_pc = "done" /\ commit_pc' = "done"
      /\ delta' = delta /\ opening' = opening /\ hashed_leaves' = hashed_leaves
  BY <1>1 DEF commitVars, expandVars, openVars, AllInv, SentInv, OpenInv
<1>3. /\ signer = "opened" /\ signer' = "opened" /\ verdict = VC!None
      /\ faithful' = faithful /\ faithful = Faithful /\ faithful \in BOOLEAN
  BY <1>1, <1>2 DEF signer, verdict, faithful, Faithful, VC!None
<1>4. CASE verify_pc' = "accepted"
  <2>1. /\ verify_pc = "level" /\ v_tree = BITS_PER_WITNESS
        /\ v_leaves' = v_leaves /\ v_hashed' = v_hashed
    BY <1>1, <1>4 DEF VerifyReturn, v_expandVars
  <2>2. Accepting
    BY <2>1 DEF Accepting
  <2>3. Keys' = Keys
    BY <1>1, <2>1 DEF Keys, KeyRecovered
  <2>4. verdict' = [stage |-> "accepted", matches |-> v_hashed = hashed_leaves, keys |-> Keys]
    BY <1>2, <1>4, <2>1, <2>3 DEF verdict
  <2>5. CASE faithful
    <3>1. v_hashed = hashed_leaves /\ Keys = [v \in Vec |-> Leaf(v) \ {delta.index[v]}]
      BY <1>3, <2>2, <2>5, AcceptsFaithful
    <3>2. verdict' = VC!Accepted(TRUE, VC!AllBut(delta.index))
      BY <2>4, <3>1 DEF VC!Accepted, VC!AllBut
    <3>3. verdict'.stage = "accepted"
      BY <2>4
    <3>4. VC!Accept
      BY <1>2, <1>3, <2>5, <3>2, <3>3 DEF VC!Accept, signer, faithful, verdict
    <3> QED
      BY <3>4 DEF VC!Next
  <2>6. CASE ~faithful
    <3>1. v_hashed # hashed_leaves
      BY <1>3, <2>2, <2>6, AcceptsOther
    <3>2. verdict'.stage = "accepted" /\ ~verdict'.matches /\ verdict'.keys = Keys
      BY <2>4, <3>1
    <3>3. \A v \in Vec : verdict'.keys[v] \subseteq VC!AllBut(delta.index)[v]
      BY <2>2, <3>2, HiddenKeysKept DEF VC!AllBut
    <3>4. VC!Accept
      BY <1>2, <1>3, <2>6, <3>2, <3>3 DEF VC!Accept, signer, faithful, verdict
    <3> QED
      BY <3>4 DEF VC!Next
  <2> QED
    BY <2>5, <2>6
<1>5. CASE verify_pc' # "accepted"
  <2>1. verdict' = VC!None
    BY <1>1, <1>5 DEF verdict, VC!None
  <2> QED
    BY <1>2, <1>3, <2>1 DEF VC!vcVars, signer, faithful, verdict
<1> QED
  BY <1>4, <1>5

(* When nobody moves.                                                       *)
LEMMA IdleImplements ==
  ASSUME UNCHANGED vars
  PROVE  UNCHANGED VC!vcVars
BY DEF vars, commitVars, expandVars, openVars, verifyVars, v_input, v_expandVars, VC!vcVars,
       Faithful, Keys, KeyRecovered

LEMMA SentInvariant ==
  ASSUME LEAF_CHUNK_SIZE_SHIFT <= TREE_CHUNK_SIZE_SHIFT
  PROVE  Spec => []SentInv
<1>1. Init => SentInv
  <2> SUFFICES ASSUME OpenInit, VerifyInit PROVE SentInv
    BY DEF Init
  <2>1. verify_pc = "idle" /\ delta = [index |-> [v \in Vec |-> 0], topZero |-> TRUE]
    BY DEF OpenInit, VerifyInit
  <2> QED
    BY <2>1 DEF SentInv
<1>2. OpenInv /\ VerifierInv /\ SentInv /\ [Next]_vars => SentInv'
  BY SentSteps
<1> QED
  BY <1>1, <1>2, OpenInvariant, VerifierInvariant, PTL DEF Spec

(* With one tree a vector, too, signer and verifier are an all-but-one        *)
(* vector commitment: what the signer sends is accepted with its own          *)
(* commitments and every key but the hidden ones; from any other opening or   *)
(* challenge the verifier rejects or rebuilds other commitments, and it       *)
(* never learns a hidden key (vector_com.c:208-507).                         *)
THEOREM TreesImplementVectorCommitment ==
  ASSUME LEAF_CHUNK_SIZE_SHIFT <= TREE_CHUNK_SIZE_SHIFT
  PROVE  Spec => ImplementsVC
<1>1. AllInv /\ [Next]_vars => [VC!Next]_(VC!vcVars)
  <2> SUFFICES ASSUME AllInv, [Next]_vars PROVE [VC!Next]_(VC!vcVars)
    OBVIOUS
  <2> QED
    BY SignerImplements, ReceiveImplements, VerifyImplements, IdleImplements DEF Next, Over
<1>2. Spec => []AllInv
  BY ForestInvariant, OutputsInvariant, OutputsPlaced, OpenInvariant, OpenedInvariant,
     VerifierInvariant, SentInvariant, PTL DEF AllInv
<1> QED
  BY AbstractInit, <1>1, <1>2, PTL DEF Spec, ImplementsVC, VC!Spec
=============================================================================
